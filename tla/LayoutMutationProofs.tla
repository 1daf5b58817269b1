------------------------ MODULE LayoutMutationProofs ------------------------
(***************************************************************************)
(* Theorems about LayoutMutation that hold for every set of GarageNodes,   *)
(* every history of users, crashes and re-created owners, and every number *)
(* of transactions.                                                        *)
(***************************************************************************)
EXTENDS LayoutMutation, TLAPS

Points == LockedPoints \cup FreePoints

\* What the program points of the drain transaction know: an intent exists
\* before it is written, and a transaction is in the snapshot from then on.
DrainPoints == {"casDrain", "confirmDrain", "beforeApply", "apply", "prove", "markDone"}

DrainKnown(w) ==
  /\ wk[w].pc = "casDrain" => wk[w].intent \in Drains
  /\ wk[w].pc \in DrainPoints \ {"casDrain"} => wk[w].snap.drain \in Drains

TypeInv == TypeOK /\ \A w \in Workers : DrainKnown(w)

\* One worker moves to a program point; the other does nothing.
MovesTo(w, l) ==
  /\ wk' \in [Workers -> Reconciles]
  /\ wk'[w].pc = l
  /\ \A v \in Workers \ {w} : wk'[v] = wk[v]

\* The locals a jump inside a reconcile leaves alone.
KeepsObject(w) == wk'[w].obj = wk[w].obj /\ wk'[w].want = wk[w].want
KeepsPurpose(w) == KeepsObject(w) /\ wk'[w].goal = wk[w].goal /\ wk'[w].mode = wk[w].mode
KeepsSnap(w) == wk'[w].snap = wk[w].snap
KeepsIntent(w) == wk'[w].intent = wk[w].intent
KeepsCand(w) == wk'[w].cand = wk[w].cand

-----------------------------------------------------------------------------
(* Jumps inside a reconcile. *)

\* Goto moves one worker and changes none of its locals.
LEMMA GotoMoves ==
  ASSUME TypeOK, NEW w \in Workers, NEW l \in Points, Goto(w, l)
  PROVE  MovesTo(w, l) /\ KeepsPurpose(w) /\ KeepsSnap(w) /\ KeepsIntent(w) /\ KeepsCand(w)
  BY DEF TypeOK, Goto, Reconciles, Points, MovesTo, KeepsObject, KeepsPurpose, KeepsSnap,
         KeepsIntent, KeepsCand

\* The worker record of a new process has the type of a worker record.
LEMMA IdleWorkerType == IdleWorker \in Reconciles
  BY DEF IdleWorker, Reconciles, Actors, FreshOwner, OwnerObjects, Reasons,
         FreePoints, Goals, Modes

\* Finish returns one worker to its idle point.
LEMMA FinishMoves ==
  ASSUME TypeOK, NEW w \in Workers, Finish(w)
  PROVE  MovesTo(w, "idle") /\ wk'[w] = IdleWorker
  BY IdleWorkerType DEF TypeOK, Finish, IdleWorker, MovesTo

\* Run moves one worker to the admission of the layout mutex.
LEMMA RunMoves ==
  ASSUME TypeOK, NEW w \in Workers, NEW g \in Goals, NEW m \in Modes, Run(w, g, m)
  PROVE  /\ MovesTo(w, "check") /\ KeepsObject(w) /\ KeepsSnap(w)
         /\ wk'[w].goal = g /\ wk'[w].mode = m
<1>1. wk \in [Workers -> Reconciles]
  BY DEF TypeOK
<1>2. wk' = [wk EXCEPT ![w] = [wk[w] EXCEPT !.pc = "check", !.goal = g, !.mode = m]]
  BY <1>1 DEF Run, Reconciles
<1>3. [wk[w] EXCEPT !.pc = "check", !.goal = g, !.mode = m] \in Reconciles
  BY <1>1 DEF Reconciles, FreePoints
<1> QED
  BY <1>1, <1>2, <1>3 DEF Reconciles, MovesTo, KeepsObject, KeepsSnap

\* A worker takes a new snapshot of the owner and moves on.
LEMMA SnapMoves ==
  ASSUME TypeOK, NEW w \in Workers, NEW l \in Points, NEW x \in OwnerObjects,
         wk' = [wk EXCEPT ![w].snap = x, ![w].pc = l]
  PROVE  MovesTo(w, l) /\ wk'[w].snap = x /\ KeepsPurpose(w) /\ KeepsIntent(w) /\ KeepsCand(w)
<1>1. wk \in [Workers -> Reconciles]
  BY DEF TypeOK
<1>2. wk' = [wk EXCEPT ![w] = [wk[w] EXCEPT !.snap = x, !.pc = l]]
  BY <1>1 DEF Reconciles
<1>3. [wk[w] EXCEPT !.snap = x, !.pc = l] \in Reconciles
  BY <1>1 DEF Reconciles, Points
<1> QED
  BY <1>1, <1>2, <1>3
     DEF Reconciles, MovesTo, KeepsObject, KeepsPurpose, KeepsSnap, KeepsIntent, KeepsCand

\* A worker records the intent of a drain and moves on.
LEMMA IntentMoves ==
  ASSUME TypeOK, NEW w \in Workers, NEW l \in Points, NEW x \in Drains \cup {None},
         wk' = [wk EXCEPT ![w].intent = x, ![w].pc = l]
  PROVE  MovesTo(w, l) /\ wk'[w].intent = x /\ KeepsPurpose(w) /\ KeepsSnap(w) /\ KeepsCand(w)
<1>1. wk \in [Workers -> Reconciles]
  BY DEF TypeOK
<1>2. wk' = [wk EXCEPT ![w] = [wk[w] EXCEPT !.intent = x, !.pc = l]]
  BY <1>1 DEF Reconciles
<1>3. [wk[w] EXCEPT !.intent = x, !.pc = l] \in Reconciles
  BY <1>1 DEF Reconciles, Points
<1> QED
  BY <1>1, <1>2, <1>3
     DEF Reconciles, MovesTo, KeepsObject, KeepsPurpose, KeepsSnap, KeepsIntent, KeepsCand

\* A worker chooses the Pod to replace and moves on.
LEMMA CandMoves ==
  ASSUME TypeOK, NEW w \in Workers, NEW l \in Points, NEW x \in Nodes \cup {None},
         wk' = [wk EXCEPT ![w].cand = x, ![w].pc = l]
  PROVE  MovesTo(w, l) /\ wk'[w].cand = x /\ KeepsPurpose(w) /\ KeepsSnap(w) /\ KeepsIntent(w)
<1>1. wk \in [Workers -> Reconciles]
  BY DEF TypeOK
<1>2. wk' = [wk EXCEPT ![w] = [wk[w] EXCEPT !.cand = x, !.pc = l]]
  BY <1>1 DEF Reconciles
<1>3. [wk[w] EXCEPT !.cand = x, !.pc = l] \in Reconciles
  BY <1>1 DEF Reconciles, Points
<1> QED
  BY <1>1, <1>2, <1>3
     DEF Reconciles, MovesTo, KeepsObject, KeepsPurpose, KeepsSnap, KeepsIntent, KeepsCand

-----------------------------------------------------------------------------
(* Type correctness.                                                       *)

\* The initial state satisfies the type invariant.
LEMMA InitTypeInv == Init => TypeInv
<1> SUFFICES ASSUME Init PROVE TypeInv
  OBVIOUS
<1>1. FreshOwner(1) \in OwnerObjects
  BY DEF FreshOwner, OwnerObjects, Reasons
<1>2. TypeOK
  BY <1>1, IdleWorkerType, ConstantsAssumption DEF Init, TypeOK, Actors
<1>3. \A w \in Workers : wk[w].pc = "idle"
  BY DEF Init, IdleWorker
<1> QED
  BY <1>2, <1>3 DEF TypeInv, DrainKnown, DrainPoints

\* A move to a point outside the drain transaction has nothing to know.
LEMMA QuietMove ==
  ASSUME TypeInv, NEW w \in Workers, NEW l \in Points \ DrainPoints, MovesTo(w, l)
  PROVE  \A v \in Workers : DrainKnown(v)'
  BY DEF TypeInv, DrainKnown, MovesTo, DrainPoints

\* A move inside the drain transaction keeps the snapshot that knows of it.
LEMMA DrainMove ==
  ASSUME TypeInv, NEW w \in Workers, NEW l \in DrainPoints \ {"casDrain"}, MovesTo(w, l),
         wk'[w].snap.drain \in Drains
  PROVE  \A v \in Workers : DrainKnown(v)'
  BY DEF TypeInv, DrainKnown, MovesTo, DrainPoints

\* The markers a reconcile builds from its snapshot are markers.
LEMMA SnapMarkers ==
  ASSUME TypeOK, NEW w \in Workers
  PROVE  /\ Snap(w) \in OwnerObjects
         /\ \A d \in Drains : MarkerOf(Snap(w), d) \in DrainMarkers
         /\ RolloutMarker(Snap(w).uid) \in RolloutMarkers
<1>1. Snap(w) \in OwnerObjects
  BY DEF TypeOK, Snap, Reconciles
<1> QED
  BY <1>1 DEF MarkerOf, StorageDrainMarker, DrainMarkers, OwnerObjects, Drains,
     RolloutMarker, RolloutMarkers

\* Every method of the coordinator leaves a storage-drain marker or none.
LEMMA DrainMarkerType ==
  ASSUME NEW m \in DrainMarkers \cup {None}, NEW u
  PROVE  /\ \A x \in DrainMarkers :
              /\ BeginStorageDrain(m, x) \in DrainMarkers \cup {None}
              /\ ConfirmStorageDrain(BeginStorageDrain(m, x), x) \in DrainMarkers \cup {None}
         /\ \A x : /\ ConfirmStorageDrain(m, x) \in DrainMarkers \cup {None}
                   /\ EndStorageDrain(m, x) \in DrainMarkers \cup {None}
         /\ PruneStaleStorageDrain(m, u) \in DrainMarkers \cup {None}
         /\ PruneConfirmedStorageDrainWithoutStatus(m, u) \in DrainMarkers \cup {None}
  BY DEF BeginStorageDrain, ConfirmStorageDrain, EndStorageDrain, PruneStaleStorageDrain,
         PruneConfirmedStorageDrainWithoutStatus, Owns, DrainMarkers

\* Every method of the coordinator leaves a rollout marker or none.
LEMMA RolloutMarkerType ==
  ASSUME NEW m \in RolloutMarkers \cup {None}, NEW u \in Nat
  PROVE  /\ BeginNodeLocalPoolRollout(m, u) \in RolloutMarkers
         /\ ConfirmNodeLocalPoolRollout(m, u) \in RolloutMarkers \cup {None}
         /\ ConfirmNodeLocalPoolRollout(BeginNodeLocalPoolRollout(m, u), u) \in RolloutMarkers
         /\ EndNodeLocalPoolRollout(m, u) \in RolloutMarkers \cup {None}
         /\ PruneStaleNodeLocalPoolRollout(m, u) \in RolloutMarkers \cup {None}
  BY DEF BeginNodeLocalPoolRollout, ConfirmNodeLocalPoolRollout, EndNodeLocalPoolRollout,
         PruneStaleNodeLocalPoolRollout, OwnsRollout, RolloutMarker, RolloutMarkers

\* A step that only moves its worker, outside the drain transaction.
LEMMA WorkerOnly ==
  ASSUME TypeInv, NEW w \in Workers, NEW l \in Points \ DrainPoints, MovesTo(w, l),
         UNCHANGED <<owner, objects, pods, garage, memory, crashes>>
  PROVE  TypeInv'
<1>1. TypeOK'
  BY DEF TypeInv, TypeOK, MovesTo, objects, pods, garage, memory
<1> QED
  BY <1>1, QuietMove DEF TypeInv

\* The prologue of a reconcile keeps the type invariant.
LEMMA RehydrateTypeInv ==
  ASSUME TypeInv, NEW w \in Workers, Rehydrate(w)
  PROVE  TypeInv'
<1>0. TypeOK /\ Snap(w) \in OwnerObjects /\ Snap(w).uid \in Nat
      /\ (Snap(w).drain # None => MarkerOf(Snap(w), Snap(w).drain) \in DrainMarkers)
  BY SnapMarkers DEF OwnerObjects, TypeInv
<1>p. {"idle", "adoptRollout", "readOwner", "adoptDrain", "scanSources", "decide"}
        \subseteq Points \ DrainPoints
  BY DEF Points, FreePoints, DrainPoints
<1>1. CASE ListRollouts(w)
  <2>1. \E l \in Points \ DrainPoints : MovesTo(w, l)
    BY <1>0, <1>1, <1>p, GotoMoves DEF ListRollouts
  <2>2. TypeOK'
    BY <1>0, <1>1, <2>1, RolloutMarkerType
       DEF ListRollouts, TypeOK, MovesTo, objects, pods, garage
  <2> QED
    BY <2>1, <2>2, QuietMove DEF TypeInv
<1>2. CASE AdoptRollout(w)
  <2>1. \E l \in Points \ DrainPoints : MovesTo(w, l)
    BY <1>0, <1>2, <1>p, GotoMoves, FinishMoves DEF AdoptRollout
  <2>2. TypeOK'
    BY <1>0, <1>2, <2>1, RolloutMarkerType
       DEF AdoptRollout, TypeOK, MovesTo, objects, pods, garage
  <2> QED
    BY <2>1, <2>2, QuietMove DEF TypeInv
<1>3. CASE ReadOwner(w)
  <2>1. \E l \in Points \ DrainPoints : MovesTo(w, l)
    BY <1>0, <1>3, <1>p, SnapMoves, FinishMoves DEF ReadOwner, TypeOK
  <2> QED
    BY <1>3, <2>1, WorkerOnly DEF ReadOwner
<1>4. CASE AdoptDrain(w)
  <2>1. \E l \in Points \ DrainPoints : MovesTo(w, l)
    BY <1>0, <1>4, <1>p, GotoMoves, FinishMoves DEF AdoptDrain
  <2>2. drainMarker' \in DrainMarkers \cup {None}
    BY <1>0, <1>4, DrainMarkerType DEF AdoptDrain, TypeOK
  <2>3. TypeOK'
    BY <1>0, <1>4, <2>1, <2>2 DEF AdoptDrain, TypeOK, MovesTo, objects, pods, garage
  <2> QED
    BY <2>1, <2>3, QuietMove DEF TypeInv
<1>5. CASE ScanSources(w)
  <2>1. \E l \in Points \ DrainPoints : MovesTo(w, l)
    BY <1>0, <1>5, <1>p, GotoMoves DEF ScanSources
  <2>2. TypeOK'
    BY <1>0, <1>5, <2>1, DrainMarkerType
       DEF ScanSources, TypeOK, MovesTo, objects, pods, garage
  <2> QED
    BY <2>1, <2>2, QuietMove DEF TypeInv
<1> QED
  BY <1>1, <1>2, <1>3, <1>4, <1>5 DEF Rehydrate

\* The GarageNode controller outside the layout mutex keeps the type invariant.
LEMMA NodeReconcileTypeInv ==
  ASSUME TypeInv, NEW w \in Workers, NodeReconcile(w)
  PROVE  TypeInv'
<1>0. TypeOK
  BY DEF TypeInv
<1>p. {"idle", "check", "removeFinalizer", "clearDrain"} \subseteq Points \ DrainPoints
  BY DEF Points, FreePoints, DrainPoints
<1>1. CASE NodeWaitsForDrain(w)
  BY <1>0, <1>1, <1>p, FinishMoves, WorkerOnly DEF NodeWaitsForDrain
<1>2. CASE NodeFinalizes(w)
  BY <1>0, <1>2, <1>p, GotoMoves, WorkerOnly DEF NodeFinalizes
<1>3. CASE NodePreparesDrain(w)
  <2>1. \E l \in Points \ DrainPoints : MovesTo(w, l)
    BY <1>0, <1>3, <1>p, FinishMoves, RunMoves DEF NodePreparesDrain, Goals, Modes
  <2> QED
    BY <1>3, <2>1, WorkerOnly DEF NodePreparesDrain
<1>4. CASE NodeReconcilesRole(w)
  <2>1. \E l \in Points \ DrainPoints : MovesTo(w, l)
    BY <1>0, <1>4, <1>p, FinishMoves, RunMoves DEF NodeReconcilesRole, Goals, Modes
  <2> QED
    BY <1>4, <2>1, WorkerOnly DEF NodeReconcilesRole
<1>5. CASE RemoveFinalizer(w)
  <2>1. MovesTo(w, "clearDrain")
    BY <1>0, <1>5, <1>p, GotoMoves DEF RemoveFinalizer
  <2>2. TypeOK'
    BY <1>0, <1>5, <2>1 DEF RemoveFinalizer, TypeOK, MovesTo, garage, memory
  <2> QED
    BY <2>1, <2>2, <1>p, QuietMove DEF TypeInv
<1> QED
  BY <1>1, <1>2, <1>3, <1>4, <1>5 DEF NodeReconcile

\* The status writes of the rollout condition keep the type of the owner.
LEMMA SetConditionType ==
  ASSUME TypeOK, NEW w \in Workers, NEW r \in Reasons, SetCondition(w, r)
  PROVE  owner' \in OwnerObjects
<1>1. Snap(w).gen \in Nat /\ owner \in OwnerObjects
  BY SnapMarkers DEF OwnerObjects, TypeOK
<1> QED
  BY <1>1 DEF SetCondition, OwnerObjects

\* A reconcile whose rollout is not complete goes on with its ordinary work.
LEMMA OrdinaryMoves ==
  ASSUME TypeOK, NEW w \in Workers, NEW s \in OwnerObjects,
         wk' = [wk EXCEPT ![w].snap = s, ![w].goal = "none", ![w].mode = "plain",
                          ![w].pc = "ordinary"]
  PROVE  MovesTo(w, "ordinary") /\ KeepsObject(w) /\ wk'[w].snap = s /\ wk'[w].goal = "none"
<1>1. wk \in [Workers -> Reconciles]
  BY DEF TypeOK
<1>2. wk' = [wk EXCEPT ![w] = [wk[w] EXCEPT !.snap = s, !.goal = "none", !.mode = "plain",
                                            !.pc = "ordinary"]]
  BY <1>1 DEF Reconciles
<1>3. [wk[w] EXCEPT !.snap = s, !.goal = "none", !.mode = "plain", !.pc = "ordinary"]
        \in Reconciles
  <2>1. "none" \in Goals /\ "plain" \in Modes /\ "ordinary" \in FreePoints
    BY DEF Goals, Modes, FreePoints
  <2> DEFINE r == wk[w]
  <2>2. r \in Reconciles
    BY <1>1
  <2> HIDE DEF r
  <2>3. [r EXCEPT !.snap = s, !.goal = "none", !.mode = "plain", !.pc = "ordinary"] \in Reconciles
    BY <2>1, <2>2 DEF Reconciles
  <2> QED
    BY <2>3 DEF r
<1> QED
  BY <1>1, <1>2, <1>3 DEF MovesTo, KeepsObject, Reconciles

\* The GarageCluster controller outside the layout mutex keeps the type invariant.
LEMMA ClusterReconcileTypeInv ==
  ASSUME TypeInv, NEW w \in Workers, ClusterReconcile(w)
  PROVE  TypeInv'
<1>0. TypeOK
  BY DEF TypeInv
<1>p. {"idle", "check", "clearDrain", "rollout", "converge", "waitRollout", "finishRollout",
       "ordinary"} \subseteq Points \ DrainPoints
  BY DEF Points, FreePoints, DrainPoints
<1>u. Snap(w).uid \in Nat
  BY <1>0, SnapMarkers DEF OwnerObjects
<1>1. CASE ClusterPreparesDrain(w)
  <2>1. \E l \in Points \ DrainPoints : MovesTo(w, l)
    BY <1>0, <1>1, <1>p, FinishMoves, RunMoves DEF ClusterPreparesDrain, Goals, Modes
  <2> QED
    BY <1>1, <2>1, WorkerOnly DEF ClusterPreparesDrain
<1>2. CASE ClusterRecoversOrphan(w)
  <2>1. \E l \in Points \ DrainPoints : MovesTo(w, l)
    <3>1. Goto(w, "clearDrain") \/ Finish(w)
      BY <1>2 DEF ClusterRecoversOrphan
    <3> QED
      BY <1>0, <1>p, <3>1, FinishMoves, GotoMoves
  <2> QED
    BY <1>2, <2>1, WorkerOnly DEF ClusterRecoversOrphan
<1>3. CASE ClusterRecoversRollout(w)
  <2>1. \E l \in Points \ DrainPoints : MovesTo(w, l)
    BY <1>0, <1>3, <1>p, FinishMoves, RunMoves DEF ClusterRecoversRollout, Goals, Modes
  <2> QED
    BY <1>3, <2>1, WorkerOnly DEF ClusterRecoversRollout
<1>4. CASE ClusterProceeds(w)
  <2>1. MovesTo(w, "rollout")
    BY <1>0, <1>4, <1>p, GotoMoves DEF ClusterProceeds
  <2>2. TypeOK'
    BY <1>0, <1>u, <1>4, <2>1, RolloutMarkerType
       DEF ClusterProceeds, TypeOK, MovesTo, objects, pods, garage
  <2> QED
    BY <2>1, <2>2, <1>p, QuietMove DEF TypeInv
<1>5. CASE ReconcileStorageRollout(w)
  <2>1. \E l \in Points \ DrainPoints : MovesTo(w, l)
    BY <1>0, <1>5, <1>p, GotoMoves, RunMoves DEF ReconcileStorageRollout, Goals, Modes
  <2> QED
    BY <1>5, <2>1, WorkerOnly DEF ReconcileStorageRollout
<1>6. CASE WaitRollout(w)
  <2>1. owner' \in OwnerObjects
    BY <1>0, <1>6, SetConditionType DEF WaitRollout, TypeOK, Reasons
  <2>2. \E l \in Points \ DrainPoints : MovesTo(w, l)
    BY <1>0, <1>6, <1>p, <2>1, OrdinaryMoves, FinishMoves DEF WaitRollout
  <2>3. TypeOK'
    BY <1>0, <1>6, <2>1, <2>2 DEF WaitRollout, TypeOK, MovesTo, objects, pods, garage, memory
  <2> QED
    BY <2>2, <2>3, QuietMove DEF TypeInv
<1>7. CASE Converge(w)
  <2>1. owner' \in OwnerObjects
    BY <1>0, <1>7, SetConditionType DEF Converge, TypeOK, Reasons
  <2>2. \E l \in Points \ DrainPoints : MovesTo(w, l)
    BY <1>0, <1>7, <1>p, <2>1, SnapMoves, FinishMoves DEF Converge
  <2>3. TypeOK'
    BY <1>0, <1>7, <2>1, <2>2 DEF Converge, TypeOK, MovesTo, objects, pods, garage, memory
  <2> QED
    BY <2>2, <2>3, QuietMove DEF TypeInv
<1>8. CASE FinishNodeLocalPoolRollout(w)
  <2>1. MovesTo(w, "ordinary")
    BY <1>0, <1>8, <1>p, GotoMoves DEF FinishNodeLocalPoolRollout
  <2>2. TypeOK'
    BY <1>0, <1>u, <1>8, <2>1, RolloutMarkerType
       DEF FinishNodeLocalPoolRollout, TypeOK, MovesTo, objects, pods, garage
  <2> QED
    BY <2>1, <2>2, <1>p, QuietMove DEF TypeInv
<1>9. CASE OrdinaryReconcile(w)
  <2>1. \E l \in Points \ DrainPoints : MovesTo(w, l)
    BY <1>0, <1>9, <1>p, FinishMoves, RunMoves DEF OrdinaryReconcile, Goals, Modes
  <2> QED
    BY <1>9, <2>1, WorkerOnly DEF OrdinaryReconcile
<1> QED
  BY <1>1, <1>2, <1>3, <1>4, <1>5, <1>6, <1>7, <1>8, <1>9 DEF ClusterReconcile

\* Admission, the mutex bit and an ordinary role write keep the type invariant.
LEMMA MutexTypeInv ==
  ASSUME TypeInv, NEW w \in Workers, Mutex(w) \/ WriteRole(w)
  PROVE  TypeInv'
<1>0. TypeOK
  BY DEF TypeInv
<1>p. {"idle", "acquire", "waitRollout", "locked", "release"} \subseteq Points \ DrainPoints
  BY DEF Points, FreePoints, LockedPoints, DrainPoints
<1>1. CASE CheckExclusions(w)
  <2>1. \E l \in Points \ DrainPoints : MovesTo(w, l)
    BY <1>0, <1>1, <1>p, FinishMoves, GotoMoves DEF CheckExclusions, Refused
  <2>2. Admitted(w) /\ wk[w].mode = "ignoreDrain" => Snap(w).drain \in Drains
    BY <1>0, SnapMarkers DEF Admitted, AcquireLayoutMutation, AcquireIgnoringNodeLocalPoolRollout,
       AcquireDuringStorageRolloutPrepare, AcquireIgnoringStorageDrain,
       StorageDrainActorMatches, OwnerObjects
  <2>3. drainMarker' \in DrainMarkers \cup {None}
    BY <1>0, <1>1, <2>2, SnapMarkers, DrainMarkerType DEF CheckExclusions, TypeOK
  <2>4. TypeOK'
    BY <1>0, <1>1, <2>1, <2>3 DEF CheckExclusions, TypeOK, MovesTo, objects, pods, garage
  <2> QED
    BY <2>1, <2>4, QuietMove DEF TypeInv
<1>2. CASE TryAcquire(w)
  <2>1. \E l \in Points \ DrainPoints : MovesTo(w, l)
    BY <1>0, <1>2, <1>p, FinishMoves, GotoMoves DEF TryAcquire, Refused
  <2>2. TypeOK'
    BY <1>0, <1>2, <2>1 DEF TryAcquire, TypeOK, MovesTo, objects, pods, garage
  <2> QED
    BY <2>1, <2>2, QuietMove DEF TypeInv
<1>3. CASE Release(w)
  <2>1. \E l \in Points \ DrainPoints : MovesTo(w, l)
    BY <1>0, <1>3, <1>p, FinishMoves, GotoMoves DEF Release
  <2>2. TypeOK'
    BY <1>0, <1>3, <2>1 DEF Release, TypeOK, MovesTo, objects, pods, garage
  <2> QED
    BY <2>1, <2>2, QuietMove DEF TypeInv
<1>4. CASE WriteRole(w)
  <2>1. MovesTo(w, "release")
    BY <1>0, <1>4, <1>p, GotoMoves DEF WriteRole
  <2>2. /\ drift' \subseteq Actors /\ roles' \subseteq Nodes
        /\ migrating' \subseteq Nodes /\ settled' \in BOOLEAN
    BY <1>0, <1>4 DEF WriteRole, TypeOK, garage
  <2>3. TypeOK'
    BY <1>0, <1>4, <2>1, <2>2 DEF WriteRole, TypeOK, MovesTo, pods, memory
  <2> QED
    BY <2>1, <2>3, <1>p, QuietMove DEF TypeInv
<1> QED
  BY <1>1, <1>2, <1>3, <1>4 DEF Mutex

\* Publishing, persisting and confirming an intent keep the type invariant.
LEMMA IntentTypeInv ==
  ASSUME TypeInv, NEW w \in Workers,
         BeginIntent(w) \/ ResumeIntent(w) \/ PersistIntent(w) \/ ConfirmIntent(w)
  PROVE  TypeInv'
<1>0. TypeOK /\ DrainKnown(w)
  BY DEF TypeInv
<1>p. /\ "release" \in Points \ DrainPoints /\ "casDrain" \in Points
      /\ {"confirmDrain", "beforeApply", "prove"} \subseteq Points \cap (DrainPoints \ {"casDrain"})
  BY DEF Points, LockedPoints, DrainPoints
<1>a. AfterIntent(wk[w].obj) \in {"beforeApply", "prove"}
  BY DEF AfterIntent
<1>s. /\ Snap(w) \in OwnerObjects /\ wk[w].obj \in Actors
      /\ \A d \in Drains : MarkerOf(Snap(w), d) \in DrainMarkers
  BY <1>0, SnapMarkers DEF TypeOK, Reconciles
<1>1. CASE BeginIntent(w)
  <2> DEFINE next == [actor |-> wk[w].obj, tx |-> NewTransactionID, done |-> FALSE]
  <2>1. next \in Drains
    BY <1>1, <1>s DEF BeginIntent, NewTransactionID, Drains
  <2> HIDE DEF next
  <2>2. CASE wk' = [wk EXCEPT ![w].intent = next, ![w].pc = "casDrain"]
             /\ drainMarker' = BeginStorageDrain(drainMarker, MarkerOf(Snap(w), next))
    <3>1. MovesTo(w, "casDrain") /\ wk'[w].intent = next
      BY <1>0, <1>p, <2>1, <2>2, IntentMoves
    <3>2. \A v \in Workers : DrainKnown(v)'
      BY <2>1, <3>1 DEF TypeInv, DrainKnown, MovesTo, DrainPoints
    <3>3. drainMarker' \in DrainMarkers \cup {None}
      BY <1>0, <1>s, <2>1, <2>2, DrainMarkerType DEF TypeOK
    <3>4. TypeOK'
      BY <1>0, <1>1, <3>1, <3>3 DEF BeginIntent, TypeOK, MovesTo, objects, pods, garage
    <3> QED
      BY <3>2, <3>4 DEF TypeInv
  <2>3. CASE Goto(w, "release") /\ UNCHANGED drainMarker
    <3>1. MovesTo(w, "release")
      BY <1>0, <1>p, <2>3, GotoMoves
    <3> QED
      BY <1>1, <1>p, <2>3, <3>1, WorkerOnly DEF BeginIntent, memory
  <2> QED
    BY <1>1, <2>2, <2>3 DEF BeginIntent, next
<1>2. CASE ResumeIntent(w)
  <2>1. Snap(w).drain \in Drains
    BY <1>2, <1>s DEF ResumeIntent, OwnerObjects
  <2>2. CASE Goto(w, "release") /\ UNCHANGED drainMarker
    <3>1. MovesTo(w, "release")
      BY <1>0, <1>p, <2>2, GotoMoves
    <3> QED
      BY <1>2, <1>p, <2>2, <3>1, WorkerOnly DEF ResumeIntent, memory
  <2>3. CASE ~(Goto(w, "release") /\ UNCHANGED drainMarker)
    <3> DEFINE l == AfterIntent(wk[w].obj)
    <3>1. MovesTo(w, l) /\ KeepsSnap(w)
      BY <1>0, <1>2, <1>a, <1>p, <2>1, <2>3, IntentMoves DEF ResumeIntent
    <3>2. \A v \in Workers : DrainKnown(v)'
      BY <1>a, <1>p, <2>1, <3>1, DrainMove DEF KeepsSnap, Snap
    <3>3. drainMarker' \in DrainMarkers \cup {None}
      BY <1>0, <1>2, <1>s, <2>1, DrainMarkerType DEF ResumeIntent, TypeOK
    <3>4. TypeOK'
      BY <1>0, <1>2, <3>1, <3>3 DEF ResumeIntent, TypeOK, MovesTo, objects, pods, garage
    <3> QED
      BY <3>2, <3>4 DEF TypeInv
  <2> QED
    BY <2>2, <2>3
<1>3. CASE PersistIntent(w)
  <2>1. wk[w].intent \in Drains
    BY <1>0, <1>3 DEF PersistIntent, DrainKnown, At
  <2>2. drainMarker' \in DrainMarkers \cup {None}
    BY <1>0, <1>3, DrainMarkerType DEF PersistIntent, TypeOK
  <2>3. CASE SameDrainRevision(w)
    <3>1. owner' \in OwnerObjects /\ owner'.drain = wk[w].intent
      BY <1>0, <1>3, <2>1, <2>3 DEF PersistIntent, TypeOK, OwnerObjects
    <3>2. MovesTo(w, "confirmDrain") /\ wk'[w].snap = owner'
      BY <1>0, <1>3, <1>p, <2>3, <3>1, SnapMoves DEF PersistIntent
    <3>3. TypeOK'
      BY <1>0, <1>3, <2>2, <3>1, <3>2 DEF PersistIntent, TypeOK, MovesTo, objects, pods, garage
    <3> QED
      BY <1>p, <2>1, <3>1, <3>2, <3>3, DrainMove DEF TypeInv
  <2>4. CASE ~SameDrainRevision(w)
    <3>1. MovesTo(w, "release")
      BY <1>0, <1>3, <1>p, <2>4, GotoMoves DEF PersistIntent
    <3>2. TypeOK'
      BY <1>0, <1>3, <2>2, <2>4, <3>1 DEF PersistIntent, TypeOK, MovesTo, objects, pods, garage
    <3> QED
      BY <1>p, <3>1, <3>2, QuietMove DEF TypeInv
  <2> QED
    BY <2>3, <2>4
<1>4. CASE ConfirmIntent(w)
  <2>1. Snap(w).drain \in Drains
    BY <1>0, <1>4 DEF ConfirmIntent, DrainKnown, DrainPoints, At, Snap
  <2>2. PICK l \in {"beforeApply", "prove", "release"} : Goto(w, l)
    BY <1>4, <1>a DEF ConfirmIntent
  <2>3. MovesTo(w, l) /\ KeepsSnap(w)
    BY <1>0, <1>p, <2>2, GotoMoves
  <2>4. TypeOK'
    BY <1>0, <1>4, <2>3, DrainMarkerType
       DEF ConfirmIntent, TypeOK, MovesTo, objects, pods, garage
  <2>5. \A v \in Workers : DrainKnown(v)'
    BY <1>p, <2>1, <2>3, DrainMove, QuietMove DEF KeepsSnap, Snap
  <2> QED
    BY <2>4, <2>5 DEF TypeInv
<1> QED
  BY <1>1, <1>2, <1>3, <1>4

\* Applying, aborting and proving a removal keep the type invariant.
LEMMA RemovalTypeInv ==
  ASSUME TypeInv, NEW w \in Workers,
         \/ RequireStorageDrainBeforeApply(w) \/ StagingFails(w) \/ ApplyRemoval(w)
         \/ ApplyFails(w) \/ RecoverApplyFailure(w) \/ EndAborted(w) \/ ProveMigration(w)
         \/ ObservationFails(w) \/ MarkDone(w)
  PROVE  TypeInv'
<1>0. TypeOK /\ DrainKnown(w)
  BY DEF TypeInv
<1>p. /\ {"revert", "endAborted", "release"} \subseteq Points \ DrainPoints
      /\ {"apply", "prove", "markDone"} \subseteq Points \cap (DrainPoints \ {"casDrain"})
  BY DEF Points, LockedPoints, DrainPoints
<1>o. owner \in OwnerObjects
  BY <1>0 DEF TypeOK
<1>1. CASE RequireStorageDrainBeforeApply(w)
  <2>1. Snap(w).drain \in Drains
    BY <1>0, <1>1 DEF RequireStorageDrainBeforeApply, DrainKnown, DrainPoints, At, Snap
  <2>2. PICK l \in {"apply", "revert"} : Goto(w, l)
    BY <1>1 DEF RequireStorageDrainBeforeApply
  <2>3. MovesTo(w, l) /\ KeepsSnap(w)
    BY <1>0, <1>p, <2>2, GotoMoves
  <2>4. TypeOK'
    BY <1>0, <1>1, <2>3
       DEF RequireStorageDrainBeforeApply, TypeOK, MovesTo, objects, pods, garage, memory
  <2>5. \A v \in Workers : DrainKnown(v)'
    BY <1>p, <2>1, <2>3, DrainMove, QuietMove DEF KeepsSnap, Snap
  <2> QED
    BY <2>4, <2>5 DEF TypeInv
<1>2. CASE StagingFails(w) \/ ApplyFails(w)
  BY <1>0, <1>2, <1>p, GotoMoves, WorkerOnly DEF StagingFails, ApplyFails
<1>3. CASE ApplyRemoval(w)
  <2>1. Snap(w).drain \in Drains
    BY <1>0, <1>3 DEF ApplyRemoval, DrainKnown, DrainPoints, At, Snap
  <2>2. PICK l \in {"prove", "revert"} : Goto(w, l)
    BY <1>3 DEF ApplyRemoval
  <2>3. MovesTo(w, l) /\ KeepsSnap(w)
    BY <1>0, <1>p, <2>2, GotoMoves
  <2>4. TypeOK'
    BY <1>0, <1>3, <2>3 DEF ApplyRemoval, TypeOK, MovesTo, objects, pods, memory
  <2>5. \A v \in Workers : DrainKnown(v)'
    BY <1>p, <2>1, <2>3, DrainMove, QuietMove DEF KeepsSnap, Snap
  <2> QED
    BY <2>4, <2>5 DEF TypeInv
<1>4. CASE RecoverApplyFailure(w)
  <2>1. owner' \in OwnerObjects
    BY <1>o, <1>4 DEF RecoverApplyFailure, OwnerObjects
  <2>2. \E l \in Points \ DrainPoints : MovesTo(w, l)
    BY <1>0, <1>4, <1>p, <2>1, SnapMoves, GotoMoves DEF RecoverApplyFailure
  <2>3. TypeOK'
    BY <1>0, <1>4, <2>1, <2>2
       DEF RecoverApplyFailure, TypeOK, MovesTo, objects, pods, garage, memory
  <2> QED
    BY <2>2, <2>3, QuietMove DEF TypeInv
<1>5. CASE EndAborted(w)
  <2>1. MovesTo(w, "release")
    BY <1>0, <1>5, <1>p, GotoMoves DEF EndAborted
  <2>2. TypeOK'
    BY <1>0, <1>5, <2>1, DrainMarkerType DEF EndAborted, TypeOK, MovesTo, objects, pods, garage
  <2> QED
    BY <1>p, <2>1, <2>2, QuietMove DEF TypeInv
<1>6. CASE ProveMigration(w)
  <2>1. MayObserve(w) => owner.drain \in Drains
    BY <1>0, <1>6 DEF ProveMigration, MayObserve, SameDrainRevision, DrainKnown, DrainPoints,
       At, Snap
  <2>2. owner' \in OwnerObjects /\ (MayObserve(w) => owner'.drain \in Drains)
    <3>1. CASE ~MayObserve(w)
      BY <1>o, <1>6, <3>1 DEF ProveMigration
    <3>2. CASE MayObserve(w)
      <4>1. PICK b \in BOOLEAN : owner' = [owner EXCEPT !.drain = [owner.drain EXCEPT !.done = b]]
        BY <1>o, <1>6, <3>2 DEF ProveMigration, OwnerObjects
      <4>2. [owner.drain EXCEPT !.done = b] \in Drains
        BY <2>1, <3>2 DEF Drains
      <4> QED
        BY <1>o, <4>1, <4>2 DEF OwnerObjects
    <3> QED
      BY <3>1, <3>2
  <2>3. CASE ~MayObserve(w)
    BY <1>0, <1>6, <1>p, <2>3, GotoMoves, WorkerOnly DEF ProveMigration
  <2>4. CASE MayObserve(w)
    <3>1. PICK l \in {"markDone", "release"} : wk' = [wk EXCEPT ![w].snap = owner', ![w].pc = l]
      BY <1>6, <2>4 DEF ProveMigration
    <3>2. MovesTo(w, l) /\ wk'[w].snap = owner'
      BY <1>0, <1>p, <2>2, <3>1, SnapMoves
    <3>3. TypeOK'
      BY <1>0, <1>6, <2>2, <3>2
         DEF ProveMigration, TypeOK, MovesTo, objects, pods, garage, memory
    <3>4. \A v \in Workers : DrainKnown(v)'
      BY <1>p, <2>2, <2>4, <3>2, DrainMove, QuietMove
    <3> QED
      BY <3>3, <3>4 DEF TypeInv
  <2> QED
    BY <2>3, <2>4
<1>7. CASE ObservationFails(w)
  <2>1. owner.drain \in Drains
    BY <1>0, <1>7 DEF ObservationFails, MayObserve, SameDrainRevision, DrainKnown, DrainPoints,
       At, Snap
  <2>2. owner' \in OwnerObjects
    BY <1>o, <1>7, <2>1 DEF ObservationFails, OwnerObjects, Drains
  <2>3. MovesTo(w, "release")
    BY <1>0, <1>7, <1>p, GotoMoves DEF ObservationFails
  <2>4. TypeOK'
    BY <1>0, <1>7, <2>2, <2>3
       DEF ObservationFails, TypeOK, MovesTo, objects, pods, garage, memory
  <2> QED
    BY <1>p, <2>3, <2>4, QuietMove DEF TypeInv
<1>8. CASE MarkDone(w)
  <2>1. Snap(w).drain \in Drains
    BY <1>0, <1>8 DEF MarkDone, DrainKnown, DrainPoints, At, Snap
  <2>2. drainMarker' \in DrainMarkers \cup {None}
    BY <1>0, <1>8, <2>1, SnapMarkers, DrainMarkerType DEF MarkDone, TypeOK
  <2>3. MovesTo(w, "release")
    BY <1>0, <1>8, <1>p, GotoMoves DEF MarkDone
  <2>4. TypeOK'
    BY <1>0, <1>8, <2>2, <2>3 DEF MarkDone, TypeOK, MovesTo, objects, pods, garage
  <2> QED
    BY <1>p, <2>3, <2>4, QuietMove DEF TypeInv
<1> QED
  BY <1>1, <1>2, <1>3, <1>4, <1>5, <1>6, <1>7, <1>8

\* A worker that cleared a transaction remembers which one it was.
LEMMA ClearMoves ==
  ASSUME TypeOK, NEW w \in Workers, NEW s \in OwnerObjects,
         wk' = [wk EXCEPT ![w].intent = Snap(w).drain, ![w].snap = s, ![w].pc = "endCleared"]
  PROVE  MovesTo(w, "endCleared") /\ KeepsPurpose(w) /\ wk'[w].snap = s
         /\ wk'[w].intent = wk[w].snap.drain
<1>1. wk \in [Workers -> Reconciles] /\ Snap(w).drain \in Drains \cup {None}
  BY SnapMarkers DEF TypeOK, OwnerObjects
<1>2. wk' = [wk EXCEPT ![w] = [wk[w] EXCEPT !.intent = Snap(w).drain, !.snap = s,
                                            !.pc = "endCleared"]]
  BY <1>1 DEF Reconciles
<1>3. [wk[w] EXCEPT !.intent = Snap(w).drain, !.snap = s, !.pc = "endCleared"] \in Reconciles
  BY <1>1 DEF Reconciles, FreePoints
<1> QED
  BY <1>1, <1>2, <1>3 DEF MovesTo, KeepsObject, KeepsPurpose, Snap, Reconciles

\* Clearing a completed transaction keeps the type invariant.
LEMMA ClearTypeInv ==
  ASSUME TypeInv, NEW w \in Workers, ClearCompletedStorageDrain(w) \/ EndCleared(w)
  PROVE  TypeInv'
<1>0. TypeOK
  BY DEF TypeInv
<1>p. {"idle", "endCleared", "decide"} \subseteq Points \ DrainPoints
  BY DEF Points, FreePoints, DrainPoints
<1>1. CASE ClearCompletedStorageDrain(w)
  <2>1. CASE SameDrainRevision(w)
    <3>1. owner' \in OwnerObjects
      BY <1>0, <1>1, <2>1 DEF ClearCompletedStorageDrain, TypeOK, OwnerObjects
    <3>2. MovesTo(w, "endCleared")
      BY <1>0, <1>1, <2>1, <3>1, ClearMoves DEF ClearCompletedStorageDrain
    <3>3. TypeOK'
      BY <1>0, <1>1, <3>1, <3>2
         DEF ClearCompletedStorageDrain, TypeOK, MovesTo, objects, pods, garage, memory
    <3> QED
      BY <1>p, <3>2, <3>3, QuietMove DEF TypeInv
  <2>2. CASE ~SameDrainRevision(w)
    <3>1. MovesTo(w, "idle")
      BY <1>0, <1>1, <2>2, FinishMoves DEF ClearCompletedStorageDrain
    <3> QED
      BY <1>1, <1>p, <2>2, <3>1, WorkerOnly DEF ClearCompletedStorageDrain
  <2> QED
    BY <2>1, <2>2
<1>2. CASE EndCleared(w)
  <2>1. \E l \in Points \ DrainPoints : MovesTo(w, l)
    BY <1>0, <1>2, <1>p, IntentMoves, FinishMoves DEF EndCleared
  <2>2. TypeOK'
    BY <1>0, <1>2, <2>1, DrainMarkerType DEF EndCleared, TypeOK, MovesTo, objects, pods, garage
  <2> QED
    BY <2>1, <2>2, QuietMove DEF TypeInv
<1> QED
  BY <1>1, <1>2

\* The drain transaction keeps the type invariant.
LEMMA DrainTransactionTypeInv ==
  ASSUME TypeInv, NEW w \in Workers, DrainTransaction(w)
  PROVE  TypeInv'
<1>1. \/ BeginIntent(w) \/ ResumeIntent(w) \/ PersistIntent(w) \/ ConfirmIntent(w)
      \/ RequireStorageDrainBeforeApply(w) \/ StagingFails(w) \/ ApplyRemoval(w)
      \/ ApplyFails(w) \/ RecoverApplyFailure(w) \/ EndAborted(w) \/ ProveMigration(w)
      \/ ObservationFails(w) \/ MarkDone(w) \/ ClearCompletedStorageDrain(w) \/ EndCleared(w)
  BY DEF DrainTransaction
<1> QED
  BY <1>1, IntentTypeInv, RemovalTypeInv, ClearTypeInv

\* Recording or clearing a handoff keeps the type of the owner.
LEMMA HandoffRecordType ==
  ASSUME owner \in OwnerObjects, NEW n \in Nodes \cup {None}, NEW r \in Reasons, NEW g \in Nat
  PROVE  [owner EXCEPT !.rollout = n, !.cond = [reason |-> r, gen |-> g]] \in OwnerObjects
<1>1. [owner EXCEPT !.rollout = n] \in OwnerObjects
  BY DEF OwnerObjects
<1>2. \A c \in [reason : Reasons, gen : Nat] :
        [[owner EXCEPT !.rollout = n] EXCEPT !.cond = c] \in OwnerObjects
  BY <1>1 DEF OwnerObjects
<1> QED
  BY <1>2

\* Replacing a managed Pod keeps the type invariant.
LEMMA RolloutTransactionTypeInv ==
  ASSUME TypeInv, NEW w \in Workers, RolloutTransaction(w)
  PROVE  TypeInv'
<1>0. TypeOK
  BY DEF TypeInv
<1>p. {"casRollout", "confirmRollout", "deletePod", "endRollout", "release"}
        \subseteq Points \ DrainPoints
  BY DEF Points, LockedPoints, DrainPoints
<1>s. /\ Snap(w).uid \in Nat /\ Snap(w).gen \in Nat /\ Snap(w).rollout \in Nodes \cup {None}
      /\ wk[w].cand \in Nodes \cup {None} /\ owner \in OwnerObjects
  BY <1>0, SnapMarkers DEF OwnerObjects, TypeOK, Reconciles
<1>1. CASE BeginRollout(w)
  <2>1. \E l \in Points \ DrainPoints : MovesTo(w, l)
    BY <1>0, <1>1, <1>p, CandMoves, GotoMoves DEF BeginRollout, TypeOK
  <2>2. rolloutMarker' \in {rolloutMarker, BeginNodeLocalPoolRollout(rolloutMarker, Snap(w).uid)}
    BY <1>1 DEF BeginRollout
  <2>3. rolloutMarker' \in RolloutMarkers \cup {None}
    BY <1>0, <1>s, <2>2, RolloutMarkerType DEF TypeOK
  <2>4. TypeOK'
    BY <1>0, <1>1, <2>1, <2>3 DEF BeginRollout, TypeOK, MovesTo, objects, pods, garage
  <2> QED
    BY <2>1, <2>4, QuietMove DEF TypeInv
<1>2. CASE PersistRollout(w)
  <2>1. owner' \in OwnerObjects
    <3>1. \/ owner' = owner
          \/ owner' = [owner EXCEPT !.rollout = wk[w].cand,
                                    !.cond = [reason |-> "RollingOut", gen |-> Snap(w).gen]]
      BY <1>2 DEF PersistRollout
    <3>2. "RollingOut" \in Reasons
      BY DEF Reasons
    <3>3. [owner EXCEPT !.rollout = wk[w].cand,
                        !.cond = [reason |-> "RollingOut", gen |-> Snap(w).gen]]
            \in OwnerObjects
      BY ONLY <1>s, <3>2, HandoffRecordType
    <3> QED
      BY <1>s, <3>1, <3>3, Zenon
  <2>2. \E l \in Points \ DrainPoints : MovesTo(w, l)
    BY <1>0, <1>2, <1>p, <2>1, SnapMoves, GotoMoves DEF PersistRollout
  <2>3. rolloutMarker' \in RolloutMarkers \cup {None}
    BY <1>0, <1>2, <1>s, RolloutMarkerType DEF PersistRollout, TypeOK
  <2>4. TypeOK'
    BY <1>0, <1>2, <2>1, <2>2, <2>3 DEF PersistRollout, TypeOK, MovesTo, objects, pods, garage
  <2> QED
    BY <2>2, <2>4, QuietMove DEF TypeInv
<1>3. CASE ConfirmRollout(w)
  <2>1. \E l \in Points \ DrainPoints : MovesTo(w, l)
    BY <1>0, <1>3, <1>p, GotoMoves DEF ConfirmRollout
  <2>2. TypeOK'
    BY <1>0, <1>3, <1>s, <2>1, RolloutMarkerType
       DEF ConfirmRollout, TypeOK, MovesTo, objects, pods, garage
  <2> QED
    BY <2>1, <2>2, QuietMove DEF TypeInv
<1>4. CASE DeletePod(w)
  <2>1. MovesTo(w, "release")
    BY <1>0, <1>4, <1>p, GotoMoves DEF DeletePod
  <2>2. outdated' \subseteq Nodes /\ down' \subseteq Nodes
    BY <1>0, <1>4 DEF DeletePod, TypeOK, pods
  <2>3. TypeOK'
    BY <1>0, <1>4, <2>1, <2>2 DEF DeletePod, TypeOK, MovesTo, objects, garage, memory
  <2> QED
    BY <1>p, <2>1, <2>3, QuietMove DEF TypeInv
<1>5. CASE RecoverRollout(w)
  <2>1. owner' \in OwnerObjects
    <3>1. \/ owner' = owner
          \/ owner' = [owner EXCEPT !.rollout = None,
                                    !.cond = [reason |-> "Waiting", gen |-> Snap(w).gen]]
      BY <1>5 DEF RecoverRollout
    <3>2. "Waiting" \in Reasons /\ None \in Nodes \cup {None} /\ Snap(w).gen \in Nat
      BY <1>s DEF Reasons
    <3>3. [owner EXCEPT !.rollout = None, !.cond = [reason |-> "Waiting", gen |-> Snap(w).gen]]
            \in OwnerObjects
      BY ONLY <1>s, <3>2, HandoffRecordType
    <3> QED
      BY <1>s, <3>1, <3>3, Zenon
  <2>2. \E l \in Points \ DrainPoints : MovesTo(w, l)
    BY <1>0, <1>5, <1>p, <1>s, <2>1, SnapMoves, CandMoves, GotoMoves DEF RecoverRollout
  <2>3. TypeOK'
    BY <1>0, <1>5, <2>1, <2>2
       DEF RecoverRollout, TypeOK, MovesTo, objects, pods, garage, memory
  <2> QED
    BY <2>2, <2>3, QuietMove DEF TypeInv
<1>6. CASE EndRollout(w)
  <2>1. MovesTo(w, "release")
    BY <1>0, <1>6, <1>p, GotoMoves DEF EndRollout
  <2>2. rolloutMarker' \in RolloutMarkers \cup {None}
    BY <1>0, <1>6, <1>s, RolloutMarkerType DEF EndRollout, TypeOK
  <2>3. TypeOK'
    BY <1>0, <1>6, <2>1, <2>2 DEF EndRollout, TypeOK, MovesTo, objects, pods, garage
  <2> QED
    BY <1>p, <2>1, <2>3, QuietMove DEF TypeInv
<1> QED
  BY <1>1, <1>2, <1>3, <1>4, <1>5, <1>6 DEF RolloutTransaction

\* Starting a reconcile takes a snapshot of the right type.
LEMMA StartReconcileMoves ==
  ASSUME TypeOK, NEW w \in Workers, NEW o \in Actors, StartReconcile(w, o)
  PROVE  /\ MovesTo(w, "listRollouts") /\ wk'[w].obj = o /\ wk'[w].snap = owner
         /\ wk'[w].goal = "none" /\ wk'[w].mode = "plain"
<1> DEFINE a == o \in wants
           b == o \in deleting
<1>1. a \in BOOLEAN /\ b \in BOOLEAN
  OBVIOUS
<1> DEFINE r == [IdleWorker EXCEPT !.pc = "listRollouts", !.obj = o, !.want = a,
                                   !.del = b, !.snap = owner]
<1>2. /\ r \in Reconciles /\ r.pc = "listRollouts" /\ r.obj = o /\ r.snap = owner
      /\ r.goal = "none" /\ r.mode = "plain"
  <2> HIDE DEF a, b
  <2>1. [IdleWorker EXCEPT !.pc = "listRollouts"] \in Reconciles
    BY IdleWorkerType DEF Reconciles, FreePoints
  <2> QED
    BY <1>1, <2>1 DEF Reconciles, TypeOK, IdleWorker
<1>3. wk' = [wk EXCEPT ![w] = r] /\ wk \in [Workers -> Reconciles]
  BY DEF StartReconcile, TypeOK
<1> HIDE DEF r
<1> QED
  BY <1>2, <1>3 DEF MovesTo

\* Users, Garage, kubelet and restarts keep the type invariant.
LEMMA EnvironmentTypeInv ==
  ASSUME TypeInv, Environment
  PROVE  TypeInv'
<1>0. TypeOK
  BY DEF TypeInv
<1>1. ASSUME wk' = wk, TypeOK' PROVE TypeInv'
  BY <1>1 DEF TypeInv, DrainKnown
<1>2. CASE \E a \in Actors : RequestDrain(a) \/ WithdrawDrain(a)
  <2>1. wk' = wk /\ TypeOK'
    BY <1>0, <1>2 DEF RequestDrain, WithdrawDrain, TypeOK, pods, garage, memory
  <2> QED
    BY <1>1, <2>1
<1>3. CASE \E n \in Nodes : DeleteNode(n) \/ BlocksMigrate(n) \/ PodReady(n)
  <2>1. wk' = wk /\ TypeOK'
    BY <1>0, <1>3 DEF DeleteNode, BlocksMigrate, PodReady, TypeOK, objects, pods, garage, memory
  <2> QED
    BY <1>1, <2>1
<1>4. CASE SpecChange
  <2>1. owner' \in OwnerObjects
    BY <1>0, <1>4 DEF SpecChange, TypeOK, OwnerObjects
  <2>2. wk' = wk /\ TypeOK'
    BY <1>0, <1>4, <2>1 DEF SpecChange, TypeOK, objects, garage, memory
  <2> QED
    BY <1>1, <2>2
<1>5. CASE OwnerRecreated
  <2>1. owner' \in OwnerObjects
    BY <1>0, <1>5 DEF OwnerRecreated, FreshOwner, TypeOK, OwnerObjects, Reasons
  <2>2. wk' = wk /\ TypeOK'
    BY <1>0, <1>5, <2>1 DEF OwnerRecreated, TypeOK, memory
  <2> QED
    BY <1>1, <2>2
<1>6. CASE HistorySettles
  <2>1. wk' = wk /\ TypeOK'
    BY <1>0, <1>6 DEF HistorySettles, TypeOK, objects, pods, memory
  <2> QED
    BY <1>1, <2>1
<1>7. CASE Crash
  <2>0. wk' \in [Workers -> Reconciles]
    BY <1>7, IdleWorkerType DEF Crash
  <2>a. crashes' \in Nat
    BY <1>0, <1>7 DEF Crash, TypeOK
  <2>b. held' \in BOOLEAN /\ drainMarker' = None /\ rolloutMarker' = None
        /\ UNCHANGED <<owner, objects, pods, garage>>
    BY <1>7 DEF Crash
  <2>1. TypeOK'
    BY <1>0, <2>0, <2>a, <2>b DEF TypeOK, objects, pods, garage
  <2>2. \A w \in Workers : wk'[w].pc = "idle"
    BY <1>7 DEF Crash, IdleWorker
  <2> QED
    BY <2>1, <2>2 DEF TypeInv, DrainKnown, DrainPoints
<1> QED
  BY <1>2, <1>3, <1>4, <1>5, <1>6, <1>7 DEF Environment

\* Every step keeps the type invariant.
LEMMA NextTypeInv == TypeInv /\ [Next]_vars => TypeInv'
<1> SUFFICES ASSUME TypeInv, [Next]_vars PROVE TypeInv'
  OBVIOUS
<1>1. ASSUME NEW w \in Workers, Step(w) PROVE TypeInv'
  BY <1>1, RehydrateTypeInv, NodeReconcileTypeInv, ClusterReconcileTypeInv, MutexTypeInv,
     DrainTransactionTypeInv, RolloutTransactionTypeInv DEF Step
<1>2. ASSUME NEW w \in Workers, NEW o \in Actors, StartReconcile(w, o) PROVE TypeInv'
  <2>1. MovesTo(w, "listRollouts")
    BY <1>2, StartReconcileMoves DEF TypeInv
  <2>2. "listRollouts" \in Points \ DrainPoints
    BY DEF Points, FreePoints, DrainPoints
  <2> QED
    BY <1>2, <2>1, <2>2, WorkerOnly DEF StartReconcile
<1>3. CASE Environment
  BY <1>3, EnvironmentTypeInv
<1>4. CASE UNCHANGED vars
  BY <1>4 DEF vars, TypeInv, TypeOK, DrainKnown
<1> QED
  BY <1>1, <1>2, <1>3, <1>4 DEF Next

\* Type correctness of the two controllers, the coordinator and the objects they
\* share: no action builds a transaction, a marker or a handoff out of a missing
\* one.  It rests on DrainKnown: the program points that read status.storageDrain
\* through their snapshot have one in it.
THEOREM TypeCorrect == Spec => []TypeOK
<1>1. TypeInv => TypeOK
  BY DEF TypeInv
<1> QED
  BY <1>1, InitTypeInv, NextTypeInv, PTL DEF Spec

-----------------------------------------------------------------------------
(* Mutual exclusion.  The bit of the coordinator does not say who set it,  *)
(* so MutualExclusion alone is not inductive: release of one worker could  *)
(* admit a second one beside the first.  With HoldersSetTheBit it is.      *)

HoldersSetTheBit == \A w \in Workers : InCriticalSection(w) => held

LockInv == HoldersSetTheBit /\ MutualExclusion

\* A reconcile stays on its object and its snapshot, or takes the current owner.
Continues(w) == KeepsObject(w) /\ wk'[w].snap \in {wk[w].snap, owner'}

\* What a step of a reconcile does to the mutex: nothing, take the free bit, or
\* clear the bit it holds.  Only the second enters the critical section.
MutexStep(w) ==
  \E l \in Points :
    /\ MovesTo(w, l)
    /\ wk'[w] = IdleWorker \/ Continues(w)
    /\ \/ held' = held /\ (l \in LockedPoints => wk[w].pc \in LockedPoints)
       \/ ~held /\ held'
       \/ wk[w].pc \in LockedPoints /\ ~held' /\ l \notin LockedPoints

\* A step of that shape keeps the critical section exclusive.
LEMMA MutexStepKeepsLockInv ==
  ASSUME TypeOK, LockInv, NEW w \in Workers, MutexStep(w)
  PROVE  LockInv'
  BY DEF TypeOK, LockInv, HoldersSetTheBit, MutualExclusion, InCriticalSection, MutexStep, MovesTo

\* No step outside Mutex enters the critical section or touches the bit.
LEMMA FreeMutexStep ==
  ASSUME TypeInv, NEW w \in Workers, Rehydrate(w) \/ NodeReconcile(w) \/ ClusterReconcile(w)
  PROVE  MutexStep(w)
<1>0. TypeOK
  BY DEF TypeInv
<1>f. FreePoints \subseteq Points \ LockedPoints
  BY DEF Points, LockedPoints, FreePoints
<1>p. {"idle", "adoptRollout", "readOwner", "adoptDrain", "scanSources", "decide", "check",
       "removeFinalizer", "clearDrain", "rollout", "waitRollout", "converge", "finishRollout",
       "ordinary"} \subseteq FreePoints
  BY DEF FreePoints
<1>1. ASSUME held' = held, NEW l \in FreePoints, MovesTo(w, l), wk'[w] = IdleWorker \/ Continues(w)
      PROVE  MutexStep(w)
  BY <1>f, <1>1 DEF MutexStep
<1>2. ASSUME held' = held, NEW l \in FreePoints, Goto(w, l) PROVE MutexStep(w)
  BY <1>0, <1>1, <1>2, <1>f, GotoMoves DEF KeepsPurpose, KeepsSnap, Continues
<1>3. ASSUME held' = held, Finish(w) PROVE MutexStep(w)
  BY <1>0, <1>1, <1>3, <1>p, FinishMoves
<1>4. ASSUME held' = held, NEW g \in Goals, NEW m \in Modes, Run(w, g, m) PROVE MutexStep(w)
  BY <1>0, <1>1, <1>4, <1>p, RunMoves DEF KeepsSnap, Continues
<1>5. ASSUME held' = held, NEW l \in FreePoints, owner' \in OwnerObjects,
             wk' = [wk EXCEPT ![w].snap = owner', ![w].pc = l]
      PROVE  MutexStep(w)
  BY <1>0, <1>1, <1>5, <1>f, SnapMoves DEF KeepsPurpose, Continues
<1>6. CASE Rehydrate(w)
  <2>1. CASE ListRollouts(w)
    BY <1>2, <1>p, <2>1 DEF ListRollouts
  <2>2. CASE AdoptRollout(w)
    BY <1>2, <1>3, <1>p, <2>2 DEF AdoptRollout
  <2>3. CASE ReadOwner(w)
    BY <1>0, <1>3, <1>5, <1>p, <2>3 DEF ReadOwner, TypeOK, memory
  <2>4. CASE AdoptDrain(w)
    BY <1>2, <1>3, <1>p, <2>4 DEF AdoptDrain
  <2>5. CASE ScanSources(w)
    BY <1>2, <1>p, <2>5 DEF ScanSources
  <2> QED
    BY <1>6, <2>1, <2>2, <2>3, <2>4, <2>5 DEF Rehydrate
<1>7. CASE NodeReconcile(w)
  <2>1. CASE NodeWaitsForDrain(w)
    BY <1>3, <2>1 DEF NodeWaitsForDrain, memory
  <2>2. CASE NodeFinalizes(w)
    BY <1>2, <1>p, <2>2 DEF NodeFinalizes, memory
  <2>3. CASE NodePreparesDrain(w)
    BY <1>3, <1>4, <2>3 DEF NodePreparesDrain, memory, Goals, Modes
  <2>4. CASE NodeReconcilesRole(w)
    BY <1>3, <1>4, <2>4 DEF NodeReconcilesRole, memory, Goals, Modes
  <2>5. CASE RemoveFinalizer(w)
    BY <1>2, <1>p, <2>5 DEF RemoveFinalizer, memory
  <2> QED
    BY <1>7, <2>1, <2>2, <2>3, <2>4, <2>5 DEF NodeReconcile
<1>8. CASE ClusterReconcile(w)
  <2>1. CASE ClusterPreparesDrain(w)
    BY <1>3, <1>4, <2>1 DEF ClusterPreparesDrain, memory, Goals, Modes
  <2>2. CASE ClusterRecoversOrphan(w)
    BY <1>2, <1>3, <1>p, <2>2 DEF ClusterRecoversOrphan, memory
  <2>3. CASE ClusterRecoversRollout(w)
    BY <1>3, <1>4, <2>3 DEF ClusterRecoversRollout, memory, Goals, Modes
  <2>4. CASE ClusterProceeds(w)
    BY <1>2, <1>p, <2>4 DEF ClusterProceeds
  <2>5. CASE ReconcileStorageRollout(w)
    BY <1>2, <1>4, <1>p, <2>5 DEF ReconcileStorageRollout, memory, Goals, Modes
  <2>6. CASE WaitRollout(w)
    <3>1. held' = held
      BY <2>6 DEF WaitRollout, memory
    <3>2. CASE Finish(w)
      BY <1>3, <3>1, <3>2
    <3>3. CASE ~Finish(w)
      <4>1. owner' \in OwnerObjects
        BY <1>0, <2>6, SetConditionType DEF WaitRollout, TypeOK, Reasons
      <4>2. MovesTo(w, "ordinary") /\ Continues(w)
        BY <1>0, <2>6, <3>3, <4>1, OrdinaryMoves DEF WaitRollout, Continues
      <4> QED
        BY <1>1, <1>p, <3>1, <4>2
    <3> QED
      BY <3>2, <3>3
  <2>7. CASE Converge(w)
    <3>1. owner' \in OwnerObjects
      BY <1>0, <2>7, SetConditionType DEF Converge, TypeOK, Reasons
    <3> QED
      BY <1>3, <1>5, <1>p, <2>7, <3>1 DEF Converge, memory
  <2>8. CASE FinishNodeLocalPoolRollout(w)
    BY <1>2, <1>p, <2>8 DEF FinishNodeLocalPoolRollout
  <2>9. CASE OrdinaryReconcile(w)
    BY <1>3, <1>4, <2>9 DEF OrdinaryReconcile, memory, Goals, Modes
  <2> QED
    BY <1>8, <2>1, <2>2, <2>3, <2>4, <2>5, <2>6, <2>7, <2>8, <2>9 DEF ClusterReconcile
<1> QED
  BY <1>6, <1>7, <1>8

\* Inside the critical section a step stays there or leaves by Release.
LEMMA LockedMutexStep ==
  ASSUME TypeInv, NEW w \in Workers,
         Mutex(w) \/ WriteRole(w) \/ DrainTransaction(w) \/ RolloutTransaction(w)
  PROVE  MutexStep(w)
<1>0. TypeOK
  BY DEF TypeInv
<1>f. FreePoints \subseteq Points \ LockedPoints /\ LockedPoints \subseteq Points
  BY DEF Points, LockedPoints, FreePoints
<1>p. /\ {"idle", "acquire", "waitRollout", "endCleared", "decide"} \subseteq FreePoints
      /\ {"locked", "casDrain", "confirmDrain", "beforeApply", "apply", "revert", "endAborted",
          "prove", "markDone", "casRollout", "confirmRollout", "deletePod", "endRollout",
          "release"} \subseteq LockedPoints
  BY DEF FreePoints, LockedPoints
<1>1. ASSUME held' = held, NEW l \in Points, l \in LockedPoints => wk[w].pc \in LockedPoints,
             MovesTo(w, l), wk'[w] = IdleWorker \/ Continues(w)
      PROVE  MutexStep(w)
  BY <1>1 DEF MutexStep
<1>2. ASSUME held' = held, NEW l \in Points, l \in LockedPoints => wk[w].pc \in LockedPoints,
             Goto(w, l)
      PROVE  MutexStep(w)
  BY <1>0, <1>1, <1>2, GotoMoves DEF KeepsPurpose, KeepsSnap, Continues
<1>3. ASSUME held' = held, Finish(w) PROVE MutexStep(w)
  BY <1>0, <1>1, <1>3, <1>f, <1>p, FinishMoves
<1>4. ASSUME held' = held, NEW l \in LockedPoints, wk[w].pc \in LockedPoints,
             owner' \in OwnerObjects, wk' = [wk EXCEPT ![w].snap = owner', ![w].pc = l]
      PROVE  MutexStep(w)
  BY <1>0, <1>1, <1>4, <1>f, SnapMoves DEF KeepsPurpose, Continues
<1>5. CASE CheckExclusions(w)
  BY <1>2, <1>3, <1>5, <1>f, <1>p DEF CheckExclusions, Refused
<1>6. CASE TryAcquire(w)
  <2>1. CASE held
    BY <1>2, <1>3, <1>6, <1>f, <1>p, <2>1 DEF TryAcquire, Refused
  <2>2. CASE ~held
    <3>1. MovesTo(w, "locked") /\ Continues(w) /\ held'
      BY <1>0, <1>6, <1>f, <1>p, <2>2, GotoMoves DEF TryAcquire, KeepsPurpose, KeepsSnap, Continues
    <3> QED
      BY <1>f, <1>p, <2>2, <3>1 DEF MutexStep
  <2> QED
    BY <2>1, <2>2
<1>7. CASE Release(w)
  <2>1. wk[w].pc \in LockedPoints /\ ~held'
    BY <1>7, <1>p DEF Release, At
  <2>2. PICK l \in {"idle", "waitRollout"} :
          MovesTo(w, l) /\ (wk'[w] = IdleWorker \/ Continues(w))
    BY <1>0, <1>7, <1>f, <1>p, GotoMoves, FinishMoves
       DEF Release, KeepsPurpose, KeepsSnap, Continues
  <2> QED
    BY <1>f, <1>p, <2>1, <2>2 DEF MutexStep
<1>8. CASE WriteRole(w)
  BY <1>2, <1>8, <1>f, <1>p DEF WriteRole, memory, At
<1>9. CASE DrainTransaction(w)
  <2>t. TypeInv'
    BY <1>9, DrainTransactionTypeInv
  <2>o. owner' \in OwnerObjects
    BY <2>t DEF TypeInv, TypeOK
  <2>a. AfterIntent(wk[w].obj) \in LockedPoints
    BY <1>p DEF AfterIntent
  <2>i. ASSUME held' = held, NEW l \in LockedPoints, wk[w].pc \in LockedPoints,
               NEW d \in Drains \cup {None}, wk' = [wk EXCEPT ![w].intent = d, ![w].pc = l]
        PROVE  MutexStep(w)
    BY <1>0, <1>1, <1>f, <2>i, IntentMoves DEF KeepsPurpose, KeepsSnap, Continues
  <2>1. CASE BeginIntent(w)
    <3> DEFINE next == [actor |-> wk[w].obj, tx |-> NewTransactionID, done |-> FALSE]
    <3>1. next \in Drains
      BY <1>0, <2>1 DEF BeginIntent, NewTransactionID, Drains, TypeOK, Reconciles
    <3>2. /\ held' = held /\ wk[w].pc \in LockedPoints
          /\ \/ wk' = [wk EXCEPT ![w].intent = next, ![w].pc = "casDrain"]
             \/ Goto(w, "release")
      BY <1>p, <2>1 DEF BeginIntent, At
    <3> HIDE DEF next
    <3> QED
      BY <1>2, <1>f, <1>p, <2>i, <3>1, <3>2
  <2>2. CASE ResumeIntent(w)
    <3>1. Snap(w).drain \in Drains \cup {None}
      BY <1>0, SnapMarkers DEF OwnerObjects
    <3> QED
      BY <1>2, <1>f, <1>p, <2>a, <2>i, <2>2, <3>1 DEF ResumeIntent, At
  <2>3. CASE PersistIntent(w)
    BY <1>2, <1>4, <1>f, <1>p, <2>o, <2>3 DEF PersistIntent, At
  <2>4. CASE ConfirmIntent(w)
    BY <1>2, <1>f, <1>p, <2>a, <2>4 DEF ConfirmIntent, At
  <2>5. CASE RequireStorageDrainBeforeApply(w) \/ StagingFails(w) \/ ApplyFails(w)
    BY <1>2, <1>f, <1>p, <2>5 DEF RequireStorageDrainBeforeApply, StagingFails, ApplyFails, At, memory
  <2>6. CASE ApplyRemoval(w)
    BY <1>2, <1>f, <1>p, <2>6 DEF ApplyRemoval, At, memory
  <2>7. CASE RecoverApplyFailure(w)
    BY <1>2, <1>4, <1>f, <1>p, <2>o, <2>7 DEF RecoverApplyFailure, At, memory
  <2>8. CASE EndAborted(w) \/ MarkDone(w) \/ ObservationFails(w)
    BY <1>2, <1>f, <1>p, <2>8 DEF EndAborted, MarkDone, ObservationFails, At, memory
  <2>9. CASE ProveMigration(w)
    BY <1>2, <1>4, <1>f, <1>p, <2>o, <2>9 DEF ProveMigration, At, memory
  <2>10. CASE ClearCompletedStorageDrain(w)
    <3>1. CASE SameDrainRevision(w)
      <4>1. MovesTo(w, "endCleared") /\ Continues(w)
        BY <1>0, <2>o, <2>10, <3>1, ClearMoves
           DEF ClearCompletedStorageDrain, Continues, KeepsPurpose
      <4> QED
        BY <1>1, <1>f, <1>p, <2>10, <4>1 DEF ClearCompletedStorageDrain, memory
    <3>2. CASE ~SameDrainRevision(w)
      BY <1>3, <2>10, <3>2 DEF ClearCompletedStorageDrain, memory
    <3> QED
      BY <3>1, <3>2
  <2>11. CASE EndCleared(w)
    <3>1. CASE wk[w].obj = Owner
      <4>1. MovesTo(w, "decide") /\ Continues(w)
        BY <1>0, <1>f, <1>p, <2>11, <3>1, IntentMoves
           DEF EndCleared, KeepsPurpose, KeepsSnap, Continues
      <4> QED
        BY <1>1, <1>f, <1>p, <2>11, <4>1 DEF EndCleared
    <3>2. CASE wk[w].obj # Owner
      BY <1>3, <2>11, <3>2 DEF EndCleared
    <3> QED
      BY <3>1, <3>2
  <2> QED
    BY <1>9, <2>1, <2>2, <2>3, <2>4, <2>5, <2>6, <2>7, <2>8, <2>9, <2>10, <2>11
       DEF DrainTransaction
<1>10. CASE RolloutTransaction(w)
  <2>t. TypeInv'
    BY <1>10, RolloutTransactionTypeInv
  <2>o. owner' \in OwnerObjects /\ Snap(w).rollout \in Nodes \cup {None}
    BY <1>0, <2>t, SnapMarkers DEF TypeInv, TypeOK, OwnerObjects
  <2>c. ASSUME held' = held, NEW l \in LockedPoints, wk[w].pc \in LockedPoints,
               NEW n \in Nodes \cup {None}, wk' = [wk EXCEPT ![w].cand = n, ![w].pc = l]
        PROVE  MutexStep(w)
    BY <1>0, <1>1, <1>f, <2>c, CandMoves DEF KeepsPurpose, KeepsSnap, Continues
  <2>1. CASE BeginRollout(w)
    <3>1. outdated \cap roles \subseteq Nodes \cup {None}
      BY <1>0 DEF TypeOK
    <3> QED
      BY <1>2, <1>f, <1>p, <2>c, <2>1, <3>1 DEF BeginRollout, At
  <2>2. CASE PersistRollout(w)
    BY <1>2, <1>4, <1>f, <1>p, <2>o, <2>2 DEF PersistRollout, At
  <2>3. CASE ConfirmRollout(w) \/ DeletePod(w) \/ EndRollout(w)
    BY <1>2, <1>f, <1>p, <2>3 DEF ConfirmRollout, DeletePod, EndRollout, At, memory
  <2>4. CASE RecoverRollout(w)
    BY <1>2, <1>4, <1>f, <1>p, <2>o, <2>c, <2>4 DEF RecoverRollout, At, memory
  <2> QED
    BY <1>10, <2>1, <2>2, <2>3, <2>4 DEF RolloutTransaction
<1> QED
  BY <1>5, <1>6, <1>7, <1>8, <1>9, <1>10 DEF Mutex

\* Every step of a reconcile has the shape of a mutex step.
LEMMA StepMutexStep ==
  ASSUME TypeInv, NEW w \in Workers, Step(w)
  PROVE  MutexStep(w)
  BY FreeMutexStep, LockedMutexStep DEF Step

\* Initially nobody holds the layout mutex.
LEMMA InitLockInv == Init => LockInv
<1> SUFFICES ASSUME Init PROVE LockInv
  OBVIOUS
<1>1. \A w \in Workers : wk[w].pc \notin LockedPoints
  BY DEF Init, IdleWorker, LockedPoints
<1> QED
  BY <1>1 DEF LockInv, HoldersSetTheBit, MutualExclusion, InCriticalSection

\* Every step keeps the critical section exclusive.
LEMMA NextLockInv == TypeInv /\ LockInv /\ [Next]_vars => LockInv'
<1> SUFFICES ASSUME TypeInv, LockInv, [Next]_vars PROVE LockInv'
  OBVIOUS
<1>0. TypeOK
  BY DEF TypeInv
<1>1. ASSUME NEW w \in Workers, Step(w) PROVE LockInv'
  BY <1>0, <1>1, StepMutexStep, MutexStepKeepsLockInv
<1>2. ASSUME NEW w \in Workers, NEW o \in Actors, StartReconcile(w, o) PROVE LockInv'
  <2>1. MovesTo(w, "listRollouts") /\ held' = held
    BY <1>0, <1>2, StartReconcileMoves DEF StartReconcile, memory
  <2>2. "listRollouts" \notin LockedPoints
    BY DEF LockedPoints
  <2> QED
    BY <1>0, <2>1, <2>2 DEF LockInv, HoldersSetTheBit, MutualExclusion, InCriticalSection, MovesTo
<1>3. CASE Crash
  <2>1. \A w \in Workers : wk'[w].pc \notin LockedPoints
    BY <1>3 DEF Crash, IdleWorker, LockedPoints
  <2> QED
    BY <2>1 DEF LockInv, HoldersSetTheBit, MutualExclusion, InCriticalSection
<1>4. CASE UNCHANGED <<wk, held>>
  BY <1>4 DEF LockInv, HoldersSetTheBit, MutualExclusion, InCriticalSection
<1>5. Environment => Crash \/ UNCHANGED <<wk, held>>
  BY DEF Environment, RequestDrain, WithdrawDrain, DeleteNode, BlocksMigrate, PodReady,
     SpecChange, OwnerRecreated, HistorySettles, memory
<1> QED
  BY <1>1, <1>2, <1>3, <1>4, <1>5 DEF Next, vars

\* TryAcquire and its release closure: at most one reconcile is between them, for
\* any number of GarageNodes, although the mutex bit records no holder and is
\* cleared unconditionally.
THEOREM MutexIsExclusive == Spec => []MutualExclusion
<1>1. LockInv => MutualExclusion
  BY DEF LockInv
<1> QED
  BY <1>1, InitTypeInv, NextTypeInv, InitLockInv, NextLockInv, PTL DEF Spec

-----------------------------------------------------------------------------
(* Who may remove a role, and who may end a drain.  Both follow from what a *)
(* reconcile knows at each program point, and from two facts about objects: *)
(* the workers reconcile different objects, and a GarageNode outlives its   *)
(* reconcile up to the release of its finalizer.                            *)

\* The objects the two workers are busy with.
Assigned ==
  /\ owner.uid >= 1
  /\ wk[ClusterWorker].obj = Owner
  /\ wk[NodeWorker].pc # "idle" => wk[NodeWorker].obj \in Nodes
  /\ wk[NodeWorker].pc \notin {"idle", "clearDrain", "endCleared"} => wk[NodeWorker].obj \in live

\* From the confirmed intent to the release of the mutex.
CoveredPoints == {"confirmDrain", "beforeApply", "apply", "revert", "prove", "markDone"}

\* Inside the mutex a reconcile works for no drain or for the one of its object.
OwnDrain(w) ==
  LET r == wk[w]
  IN /\ r.pc \in {"acquire", "locked"} => r.snap.drain = None \/ r.snap.drain.actor = r.obj
     /\ r.pc = "casDrain" => r.snap.drain = None /\ r.intent.actor = r.obj
     /\ r.pc \in CoveredPoints => r.snap.drain # None /\ r.snap.drain.actor = r.obj

\* A transaction is cleared by the node it drained, or for a node that is gone.
OwnCompletion(w) ==
  LET r == wk[w]
  IN /\ r.pc = "removeFinalizer" =>
          /\ r.obj \in Nodes
          /\ r.snap.drain # None /\ r.snap.drain.done /\ r.snap.drain.actor = r.obj
     /\ r.pc = "clearDrain" =>
          /\ r.snap.drain # None /\ r.snap.drain.done
          /\ w = NodeWorker => r.snap.drain.actor = r.obj
          /\ w = ClusterWorker => r.snap.drain.actor \in Nodes \ live

\* What requireStorageDrainBeforeApply saw still holds when Apply is sent.
ApplyIsCurrent(w) ==
  wk[w].pc = "apply" /\ owner.uid = wk[w].snap.uid =>
    /\ owner.drain = wk[w].snap.drain
    /\ owner.rollout = None /\ owner.cond.gen = owner.gen

SnapIsPast(w) == wk[w].snap.uid <= owner.uid

AuthInv ==
  /\ Assigned
  /\ \A w \in Workers : OwnDrain(w) /\ OwnCompletion(w) /\ ApplyIsCurrent(w) /\ SnapIsPast(w)

OwnPoints == {"acquire", "locked", "casDrain", "removeFinalizer", "clearDrain"} \cup CoveredPoints

\* What AuthInv says of the worker that moves, apart from its snapshot's age.
OwnInv(w) == OwnDrain(w) /\ OwnCompletion(w) /\ ApplyIsCurrent(w)

\* At the other program points nothing is known and nothing is to be shown.
LEMMA QuietOwn ==
  ASSUME NEW w \in Workers, NEW l \in Points \ OwnPoints, MovesTo(w, l)
  PROVE  OwnInv(w)'
  BY DEF MovesTo, OwnInv, OwnPoints, CoveredPoints, OwnDrain, OwnCompletion, ApplyIsCurrent

\* Outside the mutex only the two ways to a completed drain carry knowledge.
LEMMA FreeOwnInv ==
  ASSUME TypeInv, AuthInv, NEW w \in Workers,
         Rehydrate(w) \/ NodeReconcile(w) \/ ClusterReconcile(w)
  PROVE  OwnInv(w)'
<1>0. TypeOK
  BY DEF TypeInv
<1>p. /\ {"idle", "adoptRollout", "readOwner", "adoptDrain", "scanSources", "decide", "check",
          "rollout", "waitRollout", "converge", "finishRollout", "ordinary"} \subseteq Points \ OwnPoints
      /\ {"removeFinalizer", "clearDrain"} \subseteq Points
  BY DEF Points, FreePoints, OwnPoints, CoveredPoints
<1>2. ASSUME NEW l \in Points \ OwnPoints, Goto(w, l) PROVE OwnInv(w)'
  BY <1>0, <1>2, GotoMoves, QuietOwn
<1>3. ASSUME Finish(w) PROVE OwnInv(w)'
  BY <1>0, <1>3, <1>p, FinishMoves, QuietOwn
<1>4. ASSUME NEW g \in Goals, NEW m \in Modes, Run(w, g, m) PROVE OwnInv(w)'
  BY <1>0, <1>4, <1>p, RunMoves, QuietOwn
<1>5. ASSUME NEW l \in Points \ OwnPoints, owner' \in OwnerObjects,
             wk' = [wk EXCEPT ![w].snap = owner', ![w].pc = l]
      PROVE  OwnInv(w)'
  BY <1>0, <1>5, SnapMoves, QuietOwn
<1>6. CASE Rehydrate(w)
  <2>1. CASE ListRollouts(w) \/ ScanSources(w)
    BY <1>2, <1>p, <2>1 DEF ListRollouts, ScanSources
  <2>2. CASE AdoptRollout(w)
    BY <1>2, <1>3, <1>p, <2>2 DEF AdoptRollout
  <2>3. CASE ReadOwner(w)
    BY <1>0, <1>3, <1>5, <1>p, <2>3 DEF ReadOwner, TypeOK
  <2>4. CASE AdoptDrain(w)
    BY <1>2, <1>3, <1>p, <2>4 DEF AdoptDrain
  <2> QED
    BY <1>6, <2>1, <2>2, <2>3, <2>4 DEF Rehydrate
<1>7. CASE NodeReconcile(w)
  <2>1. CASE NodeWaitsForDrain(w)
    BY <1>3, <2>1 DEF NodeWaitsForDrain
  <2>2. CASE NodeFinalizes(w)
    <3>1. MovesTo(w, "removeFinalizer") /\ KeepsObject(w) /\ KeepsSnap(w)
      BY <1>0, <1>p, <2>2, GotoMoves DEF NodeFinalizes, KeepsPurpose
    <3>2. /\ wk[w].obj \in Nodes
          /\ wk[w].snap.drain # None /\ wk[w].snap.drain.done /\ wk[w].snap.drain.actor = wk[w].obj
      BY <2>2 DEF NodeFinalizes, NodeAtDecision, NodeIsDrainActor, StorageDrainActorMatches, Snap
    <3> QED
      BY <3>1, <3>2 DEF MovesTo, KeepsObject, KeepsSnap, OwnInv, CoveredPoints, OwnDrain,
         OwnCompletion, ApplyIsCurrent
  <2>3. CASE NodePreparesDrain(w)
    BY <1>3, <1>4, <2>3 DEF NodePreparesDrain, Goals, Modes
  <2>4. CASE NodeReconcilesRole(w)
    BY <1>3, <1>4, <2>4 DEF NodeReconcilesRole, Goals, Modes
  <2>5. CASE RemoveFinalizer(w)
    <3>1. MovesTo(w, "clearDrain") /\ KeepsObject(w) /\ KeepsSnap(w)
      BY <1>0, <1>p, <2>5, GotoMoves DEF RemoveFinalizer, KeepsPurpose
    <3>2. /\ wk[w].obj \in Nodes
          /\ wk[w].snap.drain # None /\ wk[w].snap.drain.done /\ wk[w].snap.drain.actor = wk[w].obj
      BY <2>5 DEF RemoveFinalizer, AuthInv, OwnCompletion, At
    <3>3. w # ClusterWorker
      BY <3>2, ConstantsAssumption DEF AuthInv, Assigned
    <3> QED
      BY <3>1, <3>2, <3>3 DEF MovesTo, KeepsObject, KeepsSnap, OwnInv, CoveredPoints, OwnDrain,
         OwnCompletion, ApplyIsCurrent
  <2> QED
    BY <1>7, <2>1, <2>2, <2>3, <2>4, <2>5 DEF NodeReconcile
<1>8. CASE ClusterReconcile(w)
  <2>1. CASE ClusterPreparesDrain(w)
    BY <1>3, <1>4, <2>1 DEF ClusterPreparesDrain, Goals, Modes
  <2>2. CASE ClusterRecoversOrphan(w)
    <3>1. CASE Finish(w)
      BY <1>3, <3>1
    <3>2. CASE ~Finish(w)
      <4>1. MovesTo(w, "clearDrain") /\ KeepsSnap(w)
        BY <1>0, <1>p, <2>2, <3>2, GotoMoves DEF ClusterRecoversOrphan
      <4>2. /\ wk[w].snap.drain # None /\ wk[w].snap.drain.done
            /\ wk[w].snap.drain.actor \in Nodes \ live' /\ wk[w].obj = Owner /\ wk[w].pc = "decide"
        BY <2>2, <3>2 DEF ClusterRecoversOrphan, ClusterAtDecision, At, Snap, objects
      <4>3. w # NodeWorker
        BY <4>2, ConstantsAssumption DEF AuthInv, Assigned
      <4> QED
        BY <4>1, <4>2, <4>3 DEF MovesTo, KeepsSnap, OwnInv, CoveredPoints, OwnDrain,
           OwnCompletion, ApplyIsCurrent
    <3> QED
      BY <3>1, <3>2
  <2>3. CASE ClusterRecoversRollout(w)
    BY <1>3, <1>4, <2>3 DEF ClusterRecoversRollout, Goals, Modes
  <2>4. CASE ClusterProceeds(w) \/ FinishNodeLocalPoolRollout(w)
    BY <1>2, <1>p, <2>4 DEF ClusterProceeds, FinishNodeLocalPoolRollout
  <2>5. CASE ReconcileStorageRollout(w)
    BY <1>2, <1>4, <1>p, <2>5 DEF ReconcileStorageRollout, Goals, Modes
  <2>6. CASE WaitRollout(w)
    <3>1. CASE Finish(w)
      BY <1>3, <3>1
    <3>2. CASE ~Finish(w)
      <4>1. owner' \in OwnerObjects
        BY <1>0, <2>6, SetConditionType DEF WaitRollout, TypeOK, Reasons
      <4>2. MovesTo(w, "ordinary")
        BY <1>0, <2>6, <3>2, <4>1, OrdinaryMoves DEF WaitRollout
      <4> QED
        BY <1>p, <4>2, QuietOwn
    <3> QED
      BY <3>1, <3>2
  <2>7. CASE Converge(w)
    <3>1. owner' \in OwnerObjects
      BY <1>0, <2>7, SetConditionType DEF Converge, TypeOK, Reasons
    <3> QED
      BY <1>3, <1>5, <1>p, <2>7, <3>1 DEF Converge
  <2>8. CASE OrdinaryReconcile(w)
    BY <1>3, <1>4, <2>8 DEF OrdinaryReconcile, Goals, Modes
  <2> QED
    BY <1>8, <2>1, <2>2, <2>3, <2>4, <2>5, <2>6, <2>7, <2>8 DEF ClusterReconcile
<1> QED
  BY <1>6, <1>7, <1>8

\* A jump from one covered point to another keeps the drain of the snapshot.
LEMMA CoveredMove ==
  ASSUME NEW w \in Workers, NEW l \in CoveredPoints \ {"apply"}, MovesTo(w, l), KeepsObject(w),
         wk'[w].snap.drain # None, wk'[w].snap.drain.actor = wk[w].obj
  PROVE  OwnInv(w)'
  BY DEF MovesTo, KeepsObject, OwnInv, CoveredPoints, OwnDrain, OwnCompletion, ApplyIsCurrent

\* Admission and the start of a transaction: the reconcile works for no drain or
\* for the one of its own object.
LEMMA AdmissionOwnInv ==
  ASSUME TypeInv, AuthInv, NEW w \in Workers,
         \/ Mutex(w) \/ WriteRole(w) \/ BeginIntent(w) \/ ResumeIntent(w) \/ PersistIntent(w)
         \/ ConfirmIntent(w)
  PROVE  OwnInv(w)'
<1>0. TypeOK /\ OwnDrain(w) /\ DrainKnown(w)
  BY DEF TypeInv, AuthInv
<1>p. /\ {"idle", "waitRollout", "release"} \subseteq Points \ OwnPoints
      /\ {"acquire", "locked", "casDrain", "confirmDrain", "beforeApply", "prove"} \subseteq Points
      /\ {"confirmDrain", "beforeApply", "prove"} \subseteq CoveredPoints \ {"apply"}
  BY DEF Points, FreePoints, LockedPoints, OwnPoints, CoveredPoints
<1>a. AfterIntent(wk[w].obj) \in {"beforeApply", "prove"}
  BY DEF AfterIntent
<1>2. ASSUME NEW l \in Points \ OwnPoints, Goto(w, l) PROVE OwnInv(w)'
  BY <1>0, <1>2, GotoMoves, QuietOwn
<1>3. ASSUME Finish(w) PROVE OwnInv(w)'
  BY <1>0, <1>3, <1>p, FinishMoves, QuietOwn
<1>4. ASSUME NEW l \in {"acquire", "locked"}, Goto(w, l),
             wk[w].snap.drain = None \/ wk[w].snap.drain.actor = wk[w].obj
      PROVE  OwnInv(w)'
  <2>1. MovesTo(w, l) /\ KeepsObject(w) /\ KeepsSnap(w)
    BY <1>0, <1>p, <1>4, GotoMoves DEF KeepsPurpose
  <2> QED
    BY <1>4, <2>1 DEF MovesTo, KeepsObject, KeepsSnap, OwnInv, CoveredPoints, OwnDrain,
       OwnCompletion, ApplyIsCurrent
<1>5. CASE CheckExclusions(w)
  <2>1. Admitted(w) => wk[w].snap.drain = None \/ wk[w].snap.drain.actor = wk[w].obj
    BY DEF Admitted, AcquireLayoutMutation, AcquireIgnoringNodeLocalPoolRollout,
       AcquireDuringStorageRolloutPrepare, AcquireIgnoringStorageDrain, NoDrain,
       StorageDrainConditionActive, StorageDrainActorMatches, Snap
  <2> QED
    BY <1>2, <1>3, <1>4, <1>5, <1>p, <2>1 DEF CheckExclusions, Refused
<1>6. CASE TryAcquire(w)
  <2>1. wk[w].snap.drain = None \/ wk[w].snap.drain.actor = wk[w].obj
    BY <1>0, <1>6 DEF TryAcquire, OwnDrain, At
  <2> QED
    BY <1>2, <1>3, <1>4, <1>6, <1>p, <2>1 DEF TryAcquire, Refused
<1>7. CASE Release(w)
  BY <1>2, <1>3, <1>7, <1>p DEF Release
<1>8. CASE WriteRole(w)
  BY <1>2, <1>8, <1>p DEF WriteRole
<1>9. CASE BeginIntent(w)
  <2> DEFINE next == [actor |-> wk[w].obj, tx |-> NewTransactionID, done |-> FALSE]
  <2>1. next \in Drains /\ next.actor = wk[w].obj
    BY <1>0, <1>9 DEF BeginIntent, NewTransactionID, Drains, TypeOK, Reconciles
  <2>2. CASE Goto(w, "release")
    BY <1>2, <1>p, <2>2
  <2>3. CASE ~Goto(w, "release")
    <3>1. wk' = [wk EXCEPT ![w].intent = next, ![w].pc = "casDrain"] /\ wk[w].snap.drain = None
      BY <1>9, <2>3 DEF BeginIntent, Snap
    <3> HIDE DEF next
    <3>2. MovesTo(w, "casDrain") /\ wk'[w].intent = next /\ KeepsObject(w) /\ KeepsSnap(w)
      BY <1>0, <1>p, <2>1, <3>1, IntentMoves DEF KeepsPurpose
    <3> QED
      BY <2>1, <3>1, <3>2 DEF MovesTo, KeepsObject, KeepsSnap, OwnInv, CoveredPoints, OwnDrain,
         OwnCompletion, ApplyIsCurrent
  <2> QED
    BY <2>2, <2>3
<1>10. CASE ResumeIntent(w)
  <2>1. wk[w].snap.drain # None /\ wk[w].snap.drain.actor = wk[w].obj
    BY <1>0, <1>10 DEF ResumeIntent, OwnDrain, At, Snap
  <2>2. CASE Goto(w, "release")
    BY <1>2, <1>p, <2>2
  <2>3. CASE ~Goto(w, "release")
    <3>1. wk' = [wk EXCEPT ![w].intent = Snap(w).drain, ![w].pc = AfterIntent(wk[w].obj)]
          /\ Snap(w).drain \in Drains
      BY <1>0, <1>10, <2>1, <2>3, SnapMarkers DEF ResumeIntent, OwnerObjects
    <3>2. MovesTo(w, AfterIntent(wk[w].obj)) /\ KeepsObject(w) /\ KeepsSnap(w)
      BY <1>0, <1>a, <1>p, <3>1, IntentMoves DEF KeepsPurpose
    <3> QED
      BY <1>a, <1>p, <2>1, <3>2, CoveredMove DEF KeepsSnap
  <2> QED
    BY <2>2, <2>3
<1>11. CASE PersistIntent(w)
  <2>1. CASE Goto(w, "release")
    BY <1>2, <1>p, <2>1
  <2>2. CASE ~Goto(w, "release")
    <3>1. wk[w].intent \in Drains /\ wk[w].intent.actor = wk[w].obj
      BY <1>0, <1>11 DEF PersistIntent, DrainKnown, OwnDrain, At
    <3>2. owner' \in OwnerObjects /\ owner'.drain = wk[w].intent
      BY <1>0, <1>11, <2>2, <3>1 DEF PersistIntent, TypeOK, OwnerObjects
    <3>3. MovesTo(w, "confirmDrain") /\ wk'[w].snap = owner' /\ KeepsObject(w)
      BY <1>0, <1>11, <1>p, <2>2, <3>2, SnapMoves DEF PersistIntent, KeepsPurpose
    <3> QED
      BY <1>p, <3>1, <3>2, <3>3, NoneAssumption, CoveredMove
  <2> QED
    BY <2>1, <2>2
<1>12. CASE ConfirmIntent(w)
  <2>1. wk[w].snap.drain # None /\ wk[w].snap.drain.actor = wk[w].obj
    BY <1>0, <1>12 DEF ConfirmIntent, OwnDrain, At, CoveredPoints
  <2>2. PICK l \in {"beforeApply", "prove", "release"} : Goto(w, l)
    BY <1>12, <1>a DEF ConfirmIntent
  <2>3. MovesTo(w, l) /\ KeepsObject(w) /\ KeepsSnap(w)
    BY <1>0, <1>p, <2>2, GotoMoves DEF KeepsPurpose
  <2> QED
    BY <1>p, <2>1, <2>3, CoveredMove, QuietOwn DEF KeepsSnap
<1> QED
  BY <1>5, <1>6, <1>7, <1>8, <1>9, <1>10, <1>11, <1>12 DEF Mutex

\* The removal itself: Apply follows only what the re-read of the owner confirmed.
LEMMA RemovalOwnInv ==
  ASSUME TypeInv, AuthInv, NEW w \in Workers,
         \/ RequireStorageDrainBeforeApply(w) \/ StagingFails(w) \/ ApplyRemoval(w)
         \/ ApplyFails(w) \/ RecoverApplyFailure(w) \/ EndAborted(w) \/ ProveMigration(w)
         \/ ObservationFails(w) \/ MarkDone(w) \/ ClearCompletedStorageDrain(w) \/ EndCleared(w)
         \/ RolloutTransaction(w)
  PROVE  OwnInv(w)'
<1>0. TypeOK /\ OwnDrain(w) /\ DrainKnown(w)
  BY DEF TypeInv, AuthInv
<1>p. /\ {"idle", "release", "endAborted", "endCleared", "decide", "casRollout",
          "confirmRollout", "deletePod", "endRollout"} \subseteq Points \ OwnPoints
      /\ {"apply", "revert", "prove", "markDone"} \subseteq Points \cap CoveredPoints
  BY DEF Points, FreePoints, LockedPoints, OwnPoints, CoveredPoints
<1>d. wk[w].pc \in CoveredPoints => wk[w].snap.drain # None /\ wk[w].snap.drain.actor = wk[w].obj
  BY <1>0 DEF OwnDrain
<1>2. ASSUME NEW l \in Points \ OwnPoints, Goto(w, l) PROVE OwnInv(w)'
  BY <1>0, <1>2, GotoMoves, QuietOwn
<1>3. ASSUME Finish(w) PROVE OwnInv(w)'
  BY <1>0, <1>3, <1>p, FinishMoves, QuietOwn
<1>4. ASSUME NEW l \in Points \ OwnPoints, owner' \in OwnerObjects,
             wk' = [wk EXCEPT ![w].snap = owner', ![w].pc = l]
      PROVE  OwnInv(w)'
  BY <1>0, <1>4, SnapMoves, QuietOwn
<1>5. ASSUME NEW l \in {"revert", "prove", "markDone"}, Goto(w, l), wk[w].pc \in CoveredPoints
      PROVE  OwnInv(w)'
  <2>1. MovesTo(w, l) /\ KeepsObject(w) /\ KeepsSnap(w)
    BY <1>0, <1>p, <1>5, GotoMoves DEF KeepsPurpose
  <2> QED
    BY <1>d, <1>p, <1>5, <2>1, CoveredMove DEF KeepsSnap
<1>6. CASE RequireStorageDrainBeforeApply(w)
  <2>1. wk[w].pc \in CoveredPoints /\ owner' = owner
    BY <1>6 DEF RequireStorageDrainBeforeApply, At, CoveredPoints
  <2>2. CASE Goto(w, "revert")
    BY <1>5, <2>1, <2>2
  <2>3. CASE ~Goto(w, "revert")
    <3>1. /\ Goto(w, "apply") /\ owner.drain = wk[w].snap.drain
          /\ owner.rollout = None /\ owner.cond.gen = owner.gen
      BY <1>6, <2>3 DEF RequireStorageDrainBeforeApply, SameDrainRevision, Snap,
         RequireStorageDrainStartReady
    <3>2. MovesTo(w, "apply") /\ KeepsObject(w) /\ KeepsSnap(w)
      BY <1>0, <1>p, <3>1, GotoMoves DEF KeepsPurpose
    <3> QED
      BY <1>d, <2>1, <3>1, <3>2 DEF MovesTo, KeepsObject, KeepsSnap, OwnInv, CoveredPoints,
         OwnDrain, OwnCompletion, ApplyIsCurrent
  <2> QED
    BY <2>2, <2>3
<1>7. CASE StagingFails(w) \/ ApplyFails(w)
  BY <1>5, <1>7 DEF StagingFails, ApplyFails, At, CoveredPoints
<1>8. CASE ApplyRemoval(w)
  BY <1>5, <1>8 DEF ApplyRemoval, At, CoveredPoints
<1>9. CASE EndAborted(w) \/ MarkDone(w) \/ ObservationFails(w)
  BY <1>2, <1>9, <1>p DEF EndAborted, MarkDone, ObservationFails
<1>10. CASE RecoverApplyFailure(w)
  <2>1. owner' \in OwnerObjects
    BY <1>0, <1>10 DEF RecoverApplyFailure, OwnerObjects, TypeOK
  <2> QED
    BY <1>2, <1>4, <1>p, <1>10, <2>1 DEF RecoverApplyFailure
<1>11. CASE ProveMigration(w)
  <2>1. TypeInv'
    BY <1>11, RemovalTypeInv
  <2>2. owner' \in OwnerObjects /\ wk[w].pc \in CoveredPoints
    BY <1>11, <2>1 DEF TypeInv, TypeOK, ProveMigration, At, CoveredPoints
  <2>3. CASE ~MayObserve(w)
    BY <1>2, <1>p, <1>11, <2>3 DEF ProveMigration
  <2>4. CASE MayObserve(w)
    <3>1. owner.drain \in Drains /\ owner.drain.actor = wk[w].obj
      BY <1>0, <1>d, <2>2, <1>11, <2>4 DEF ProveMigration, MayObserve, SameDrainRevision,
         DrainKnown, DrainPoints, At, Snap
    <3>2. PICK b \in BOOLEAN : owner' = [owner EXCEPT !.drain = [owner.drain EXCEPT !.done = b]]
      BY <1>0, <1>11, <2>4 DEF ProveMigration, OwnerObjects, TypeOK
    <3>3. owner'.drain \in Drains /\ owner'.drain.actor = wk[w].obj
      BY <1>0, <3>1, <3>2 DEF OwnerObjects, Drains, TypeOK
    <3>4. PICK l \in {"markDone", "release"} : wk' = [wk EXCEPT ![w].snap = owner', ![w].pc = l]
      BY <1>11, <2>4 DEF ProveMigration
    <3>5. MovesTo(w, l) /\ wk'[w].snap = owner' /\ KeepsObject(w)
      BY <1>0, <1>p, <2>2, <3>4, SnapMoves DEF KeepsPurpose
    <3> QED
      BY <1>p, <3>3, <3>5, NoneAssumption, CoveredMove, QuietOwn
  <2> QED
    BY <2>3, <2>4
<1>12. CASE ClearCompletedStorageDrain(w)
  <2>1. owner' \in OwnerObjects
    BY <1>0, <1>12 DEF ClearCompletedStorageDrain, OwnerObjects, TypeOK
  <2>2. CASE SameDrainRevision(w)
    <3>1. MovesTo(w, "endCleared")
      BY <1>0, <1>12, <2>1, <2>2, ClearMoves DEF ClearCompletedStorageDrain
    <3> QED
      BY <1>p, <3>1, QuietOwn
  <2>3. CASE ~SameDrainRevision(w)
    BY <1>3, <1>12, <2>3 DEF ClearCompletedStorageDrain
  <2> QED
    BY <2>2, <2>3
<1>13. CASE EndCleared(w)
  <2>1. CASE wk[w].obj = Owner
    BY <1>0, <1>p, <1>13, <2>1, IntentMoves, QuietOwn DEF EndCleared
  <2>2. CASE wk[w].obj # Owner
    BY <1>3, <1>13, <2>2 DEF EndCleared
  <2> QED
    BY <2>1, <2>2
<1>14. CASE RolloutTransaction(w)
  <2>1. TypeInv'
    BY <1>14, RolloutTransactionTypeInv
  <2>2. owner' \in OwnerObjects /\ Snap(w).rollout \in Nodes \cup {None}
    BY <1>0, <2>1, SnapMarkers DEF TypeInv, TypeOK, OwnerObjects
  <2>3. ASSUME NEW l \in Points \ OwnPoints, NEW n \in Nodes \cup {None},
               wk' = [wk EXCEPT ![w].cand = n, ![w].pc = l]
        PROVE  OwnInv(w)'
    BY <1>0, <2>3, CandMoves, QuietOwn
  <2>4. CASE BeginRollout(w)
    <3>1. outdated \cap roles \subseteq Nodes \cup {None}
      BY <1>0 DEF TypeOK
    <3> QED
      BY <1>2, <1>p, <2>3, <2>4, <3>1 DEF BeginRollout
  <2>5. CASE PersistRollout(w)
    BY <1>2, <1>4, <1>p, <2>2, <2>5 DEF PersistRollout
  <2>6. CASE ConfirmRollout(w) \/ DeletePod(w) \/ EndRollout(w)
    BY <1>2, <1>p, <2>6 DEF ConfirmRollout, DeletePod, EndRollout
  <2>7. CASE RecoverRollout(w)
    BY <1>2, <1>4, <1>p, <2>2, <2>3, <2>7 DEF RecoverRollout
  <2> QED
    BY <1>14, <2>4, <2>5, <2>6, <2>7 DEF RolloutTransaction
<1> QED
  BY <1>6, <1>7, <1>8, <1>9, <1>10, <1>11, <1>12, <1>13, <1>14

\* Every step of a reconcile leaves its own worker knowing what AuthInv says.
LEMMA StepOwnInv ==
  ASSUME TypeInv, AuthInv, NEW w \in Workers, Step(w)
  PROVE  OwnInv(w)'
<1>1. \/ Rehydrate(w) \/ NodeReconcile(w) \/ ClusterReconcile(w)
      \/ Mutex(w) \/ WriteRole(w) \/ BeginIntent(w) \/ ResumeIntent(w) \/ PersistIntent(w)
      \/ ConfirmIntent(w)
      \/ RequireStorageDrainBeforeApply(w) \/ StagingFails(w) \/ ApplyRemoval(w)
      \/ ApplyFails(w) \/ RecoverApplyFailure(w) \/ EndAborted(w) \/ ProveMigration(w)
      \/ ObservationFails(w) \/ MarkDone(w) \/ ClearCompletedStorageDrain(w) \/ EndCleared(w)
      \/ RolloutTransaction(w)
  BY DEF Step, DrainTransaction
<1> QED
  BY <1>1, FreeOwnInv, AdmissionOwnInv, RemovalOwnInv

\* What a step of one reconcile does to what the other one relies on.
OwnerStep(w) ==
  \/ UNCHANGED <<owner, live>>
  \/ At(w, "removeFinalizer") /\ owner' = owner /\ live' = live \ {wk[w].obj} /\ wk'[w].pc = "clearDrain"
  \/ InCriticalSection(w) /\ owner'.uid = owner.uid /\ live' = live
  \/ /\ owner'.uid = owner.uid /\ owner'.gen = owner.gen /\ owner'.cond.gen = owner.gen
     /\ owner'.drain = owner.drain /\ owner'.rollout = owner.rollout /\ live' = live
  \/ At(w, "clearDrain") /\ SameDrainRevision(w) /\ owner'.uid = owner.uid /\ live' = live

\* The effects of a step on the owner and on the set of live GarageNodes.
LEMMA StepOwnerStep ==
  ASSUME TypeInv, NEW w \in Workers, Step(w)
  PROVE  OwnerStep(w)
<1>0. TypeOK /\ owner \in OwnerObjects
  BY DEF TypeInv, TypeOK
<1>1. CASE Rehydrate(w)
  BY <1>1 DEF Rehydrate, ListRollouts, AdoptRollout, ReadOwner, AdoptDrain, ScanSources,
     OwnerStep, objects
<1>2. CASE NodeReconcile(w)
  <2>1. CASE RemoveFinalizer(w)
    <3>1. wk'[w].pc = "clearDrain"
      BY <1>0, <2>1, GotoMoves DEF RemoveFinalizer, MovesTo, Points, FreePoints
    <3> QED
      BY <2>1, <3>1 DEF RemoveFinalizer, OwnerStep
  <2>2. CASE ~RemoveFinalizer(w)
    BY <1>2, <2>2 DEF NodeReconcile, NodeWaitsForDrain, NodeFinalizes, NodePreparesDrain,
       NodeReconcilesRole, OwnerStep, objects
  <2> QED
    BY <2>1, <2>2
<1>3. CASE ClusterReconcile(w)
  <2>1. ASSUME NEW r, SetCondition(w, r), CanSetCondition(w), live' = live PROVE OwnerStep(w)
    BY <1>0, <2>1 DEF SetCondition, CanSetCondition, OwnerObjects, OwnerStep
  <2>2. CASE WaitRollout(w) \/ Converge(w)
    BY <2>1, <2>2 DEF WaitRollout, Converge, OwnerStep, objects
  <2>3. CASE ~(WaitRollout(w) \/ Converge(w))
    BY <1>3, <2>3 DEF ClusterReconcile, ClusterPreparesDrain, ClusterRecoversOrphan,
       ClusterRecoversRollout, ClusterProceeds, ReconcileStorageRollout,
       FinishNodeLocalPoolRollout, OrdinaryReconcile, OwnerStep, objects
  <2> QED
    BY <2>2, <2>3
<1>4. CASE Mutex(w) \/ WriteRole(w)
  BY <1>4 DEF Mutex, CheckExclusions, TryAcquire, Release, WriteRole, OwnerStep, objects
<1>5. ASSUME InCriticalSection(w), live' = live, owner'.uid = owner.uid PROVE OwnerStep(w)
  BY <1>5 DEF OwnerStep
<1>6. CASE DrainTransaction(w)
  <2>1. CASE \/ BeginIntent(w) \/ ResumeIntent(w) \/ ConfirmIntent(w)
             \/ RequireStorageDrainBeforeApply(w) \/ StagingFails(w) \/ ApplyRemoval(w)
             \/ ApplyFails(w) \/ EndAborted(w) \/ MarkDone(w) \/ EndCleared(w)
    BY <2>1 DEF BeginIntent, ResumeIntent, ConfirmIntent, RequireStorageDrainBeforeApply,
       StagingFails, ApplyRemoval, ApplyFails, EndAborted, MarkDone, EndCleared, OwnerStep, objects
  <2>2. CASE PersistIntent(w)
    <3>1. owner'.uid = owner.uid
      BY <1>0, <2>2 DEF PersistIntent, OwnerObjects
    <3> QED
      BY <1>5, <2>2, <3>1 DEF PersistIntent, At, InCriticalSection, LockedPoints, objects
  <2>3. CASE RecoverApplyFailure(w)
    <3>1. owner'.uid = owner.uid
      BY <1>0, <2>3 DEF RecoverApplyFailure, OwnerObjects
    <3> QED
      BY <1>5, <2>3, <3>1 DEF RecoverApplyFailure, At, InCriticalSection, LockedPoints, objects
  <2>4. CASE ProveMigration(w) \/ ObservationFails(w)
    <3>1. owner'.uid = owner.uid
      BY <1>0, <2>4 DEF ProveMigration, ObservationFails, OwnerObjects
    <3> QED
      BY <1>5, <2>4, <3>1
         DEF ProveMigration, ObservationFails, At, InCriticalSection, LockedPoints, objects
  <2>5. CASE ClearCompletedStorageDrain(w)
    <3>1. owner'.uid = owner.uid /\ live' = live
      BY <1>0, <2>5 DEF ClearCompletedStorageDrain, OwnerObjects, objects
    <3> QED
      BY <2>5, <3>1 DEF ClearCompletedStorageDrain, OwnerStep
  <2> QED
    BY <1>6, <2>1, <2>2, <2>3, <2>4, <2>5 DEF DrainTransaction
<1>7. CASE RolloutTransaction(w)
  <2>1. CASE BeginRollout(w) \/ ConfirmRollout(w) \/ DeletePod(w) \/ EndRollout(w)
    BY <2>1 DEF BeginRollout, ConfirmRollout, DeletePod, EndRollout, OwnerStep, objects
  <2>2. CASE PersistRollout(w)
    <3>1. owner'.uid = owner.uid
      BY <1>0, <2>2 DEF PersistRollout, OwnerObjects
    <3> QED
      BY <1>5, <2>2, <3>1 DEF PersistRollout, At, InCriticalSection, LockedPoints, objects
  <2>3. CASE RecoverRollout(w)
    <3>1. owner'.uid = owner.uid
      BY <1>0, <2>3 DEF RecoverRollout, OwnerObjects
    <3> QED
      BY <1>5, <2>3, <3>1 DEF RecoverRollout, At, InCriticalSection, LockedPoints, objects
  <2> QED
    BY <1>7, <2>1, <2>2, <2>3 DEF RolloutTransaction
<1> QED
  BY <1>1, <1>2, <1>3, <1>4, <1>6, <1>7 DEF Step

\* A step needs a reconcile under way; one that is past its finalizer only clears.
LEMMA StepPoint ==
  ASSUME NEW w \in Workers, Step(w)
  PROVE  /\ wk[w].pc # "idle"
         /\ wk[w].pc \in {"clearDrain", "endCleared"} => ClearCompletedStorageDrain(w) \/ EndCleared(w)
<1>1. CASE Rehydrate(w) \/ NodeReconcile(w) \/ ClusterReconcile(w)
  BY <1>1 DEF Rehydrate, ListRollouts, AdoptRollout, ReadOwner, AdoptDrain, ScanSources,
     NodeReconcile, NodeWaitsForDrain, NodeFinalizes, NodePreparesDrain, NodeReconcilesRole,
     NodeAtDecision, RemoveFinalizer, ClusterReconcile, ClusterPreparesDrain, ClusterRecoversOrphan,
     ClusterRecoversRollout, ClusterProceeds, ClusterAtDecision, ReconcileStorageRollout,
     WaitRollout, Converge, FinishNodeLocalPoolRollout, OrdinaryReconcile, At
<1>2. CASE Mutex(w) \/ WriteRole(w) \/ RolloutTransaction(w)
  BY <1>2 DEF Mutex, CheckExclusions, TryAcquire, Release, WriteRole, RolloutTransaction,
     BeginRollout, PersistRollout, ConfirmRollout, DeletePod, RecoverRollout, EndRollout, At
<1>3. CASE DrainTransaction(w)
  BY <1>3 DEF DrainTransaction, BeginIntent, ResumeIntent, PersistIntent, ConfirmIntent,
     RequireStorageDrainBeforeApply, StagingFails, ApplyRemoval, ApplyFails, RecoverApplyFailure,
     EndAborted, ProveMigration, ObservationFails, MarkDone, ClearCompletedStorageDrain,
     EndCleared, At
<1> QED
  BY <1>1, <1>2, <1>3 DEF Step

\* A node worker past its finalizer goes on clearing or is idle.
LEMMA ClearingEnds ==
  ASSUME TypeOK, NEW w \in Workers, wk[w].obj # Owner,
         ClearCompletedStorageDrain(w) \/ EndCleared(w)
  PROVE  wk'[w].pc \in {"idle", "endCleared"}
<1>1. CASE ClearCompletedStorageDrain(w)
  <2>1. owner' \in OwnerObjects
    BY <1>1 DEF ClearCompletedStorageDrain, OwnerObjects, TypeOK
  <2> QED
    BY <1>1, <2>1, ClearMoves, FinishMoves DEF ClearCompletedStorageDrain, MovesTo
<1>2. CASE EndCleared(w)
  BY <1>2, FinishMoves DEF EndCleared, MovesTo
<1> QED
  BY <1>1, <1>2

\* A step keeps the workers on their own objects.
LEMMA StepAssigned ==
  ASSUME TypeInv, AuthInv, NEW w \in Workers, Step(w)
  PROVE  Assigned'
<1>0. TypeOK /\ Assigned
  BY DEF TypeInv, AuthInv
<1>1. MutexStep(w) /\ OwnerStep(w)
  BY StepMutexStep, StepOwnerStep
<1>2. PICK l \in Points : MovesTo(w, l) /\ (wk'[w] = IdleWorker \/ KeepsObject(w))
  BY <1>1 DEF MutexStep, Continues
<1>3. owner'.uid = owner.uid
  BY <1>1 DEF OwnerStep
<1>4. /\ w = ClusterWorker \/ w = NodeWorker
      /\ ClusterWorker # NodeWorker /\ Owner \notin Nodes
      /\ ClusterWorker \in Workers /\ NodeWorker \in Workers
  BY ConstantsAssumption DEF Workers
<1>5. wk'[ClusterWorker].obj = Owner
  BY <1>0, <1>2, <1>4 DEF Assigned, MovesTo, KeepsObject, IdleWorker
<1>6. wk'[NodeWorker].pc # "idle" => wk'[NodeWorker].obj \in Nodes
  BY <1>0, <1>2, <1>4, StepPoint DEF Assigned, MovesTo, KeepsObject, IdleWorker
<1>7. wk'[NodeWorker].pc \notin {"idle", "clearDrain", "endCleared"} => wk'[NodeWorker].obj \in live'
  <2>1. CASE w = ClusterWorker
    <3>1. wk'[NodeWorker] = wk[NodeWorker]
      BY <1>2, <1>4, <2>1 DEF MovesTo
    <3>2. ~At(w, "removeFinalizer")
      BY <1>4, <2>1 DEF AuthInv, Assigned, OwnCompletion, At
    <3>3. live' = live
      BY <1>1, <3>2 DEF OwnerStep
    <3> QED
      BY <1>0, <3>1, <3>3 DEF Assigned
  <2>2. CASE w = NodeWorker
    <3>1. CASE wk'[w] = IdleWorker
      BY <2>2, <3>1 DEF IdleWorker
    <3>2. CASE wk[w].pc \in {"clearDrain", "endCleared"}
      <4>1. wk[w].obj # Owner
        BY <1>0, <1>4, <2>2, <3>2 DEF Assigned
      <4> QED
        BY <1>0, <2>2, <3>2, <4>1, StepPoint, ClearingEnds
    <3>3. CASE wk[w].pc \notin {"clearDrain", "endCleared"} /\ KeepsObject(w)
      <4>1. wk'[w].obj \in live
        BY <1>0, <2>2, <3>3, StepPoint DEF Assigned, KeepsObject
      <4>2. live' = live \/ wk'[w].pc = "clearDrain"
        BY <1>1 DEF OwnerStep
      <4> QED
        BY <2>2, <4>1, <4>2
    <3> QED
      BY <1>2, <3>1, <3>2, <3>3
  <2> QED
    BY <1>4, <2>1, <2>2
<1> QED
  BY <1>0, <1>3, <1>5, <1>6, <1>7 DEF Assigned

\* A step of one reconcile cannot falsify what the other one knows.
LEMMA StepSparesOther ==
  ASSUME TypeInv, LockInv, AuthInv, NEW w \in Workers, NEW v \in Workers \ {w}, Step(w)
  PROVE  OwnInv(v)' /\ SnapIsPast(v)'
<1>0. TypeOK /\ Assigned /\ OwnDrain(v) /\ OwnCompletion(v) /\ ApplyIsCurrent(v) /\ SnapIsPast(v)
  BY DEF TypeInv, AuthInv
<1>1. wk'[v] = wk[v] /\ OwnerStep(w)
  BY StepMutexStep, StepOwnerStep DEF MutexStep, MovesTo
<1>2. owner'.uid = owner.uid /\ live' \subseteq live
  BY <1>1 DEF OwnerStep
<1>3. OwnDrain(v)' /\ OwnCompletion(v)' /\ SnapIsPast(v)'
  BY <1>0, <1>1, <1>2 DEF OwnDrain, OwnCompletion, SnapIsPast
<1>4. ApplyIsCurrent(v)'
  <2> SUFFICES ASSUME wk[v].pc = "apply", owner.uid = wk[v].snap.uid
               PROVE  /\ owner'.drain = wk[v].snap.drain
                      /\ owner'.rollout = None /\ owner'.cond.gen = owner'.gen
    BY <1>1, <1>2 DEF ApplyIsCurrent
  <2>1. /\ owner.drain = wk[v].snap.drain
        /\ owner.rollout = None /\ owner.cond.gen = owner.gen
        /\ owner.drain # None /\ owner.drain.actor = wk[v].obj
    BY <1>0 DEF ApplyIsCurrent, OwnDrain, CoveredPoints
  <2>2. ~InCriticalSection(w)
    BY DEF LockInv, MutualExclusion, InCriticalSection, LockedPoints
  <2>3. ~(At(w, "clearDrain") /\ SameDrainRevision(w))
    <3> SUFFICES ASSUME At(w, "clearDrain"), SameDrainRevision(w) PROVE FALSE
      OBVIOUS
    <3>1. OwnCompletion(w) /\ wk[w].pc = "clearDrain" /\ owner.drain = wk[w].snap.drain
      BY DEF AuthInv, At, SameDrainRevision, Snap
    <3>2. CASE w = NodeWorker /\ v = ClusterWorker
      BY <1>0, <2>1, <3>1, <3>2, ConstantsAssumption DEF Assigned, OwnCompletion
    <3>3. CASE w = ClusterWorker /\ v = NodeWorker
      BY <1>0, <2>1, <3>1, <3>3 DEF Assigned, OwnCompletion
    <3> QED
      BY <3>2, <3>3 DEF Workers
  <2> QED
    BY <1>1, <2>1, <2>2, <2>3 DEF OwnerStep
<1> QED
  BY <1>3, <1>4 DEF OwnInv

\* A reconcile never holds a snapshot of an incarnation that does not exist yet.
LEMMA StepSnapIsPast ==
  ASSUME TypeInv, AuthInv, NEW w \in Workers, Step(w)
  PROVE  SnapIsPast(w)'
<1>1. wk'[w] = IdleWorker \/ wk'[w].snap = wk[w].snap \/ wk'[w].snap = owner'
  BY StepMutexStep DEF MutexStep, Continues
<1>2. owner'.uid = owner.uid /\ owner.uid \in Nat /\ owner.uid >= 1 /\ wk[w].snap.uid <= owner.uid
  BY StepOwnerStep DEF OwnerStep, AuthInv, Assigned, SnapIsPast, TypeInv, TypeOK, OwnerObjects
<1> QED
  BY <1>1, <1>2 DEF SnapIsPast, IdleWorker, FreshOwner

\* Initially nothing is known.
LEMMA InitAuthInv == Init => AuthInv
<1> SUFFICES ASSUME Init PROVE AuthInv
  OBVIOUS
<1>1. /\ \A w \in Workers : wk[w] = IdleWorker
      /\ ClusterWorker \in Workers /\ NodeWorker \in Workers /\ owner = FreshOwner(1)
  BY DEF Init, Workers
<1>2. IdleWorker.pc = "idle" /\ IdleWorker.obj = Owner /\ IdleWorker.snap = FreshOwner(1)
      /\ FreshOwner(1).uid = 1
  BY DEF IdleWorker, FreshOwner
<1> QED
  BY <1>1, <1>2 DEF AuthInv, Assigned, OwnDrain, OwnCompletion, ApplyIsCurrent, SnapIsPast,
     CoveredPoints

\* Users, Garage, kubelet, restarts and a re-created owner spare AuthInv.
LEMMA EnvironmentAuthInv ==
  ASSUME TypeInv, AuthInv, Environment
  PROVE  AuthInv'
<1>0. TypeOK /\ Assigned /\ owner \in OwnerObjects
      /\ \A w \in Workers : OwnDrain(w) /\ OwnCompletion(w) /\ ApplyIsCurrent(w) /\ SnapIsPast(w)
  BY DEF TypeInv, TypeOK, AuthInv
<1>w. ClusterWorker \in Workers /\ NodeWorker \in Workers
  BY DEF Workers
<1>1. CASE UNCHANGED <<wk, owner, live>>
  BY <1>1 DEF AuthInv, Assigned, OwnDrain, OwnCompletion, ApplyIsCurrent, SnapIsPast
<1>2. CASE SpecChange
  <2>1. wk' = wk /\ live' = live /\ owner'.uid = owner.uid /\ owner.drain = None
    BY <1>0, <1>2 DEF SpecChange, AnnotationsOpen, OwnerObjects, objects
  <2>2. \A w \in Workers : ~(wk[w].pc = "apply" /\ owner.uid = wk[w].snap.uid)
    BY <1>0, <2>1 DEF OwnDrain, ApplyIsCurrent, CoveredPoints
  <2> QED
    BY <1>0, <2>1, <2>2 DEF AuthInv, Assigned, OwnDrain, OwnCompletion, ApplyIsCurrent, SnapIsPast
<1>3. CASE OwnerRecreated
  <2>1. /\ wk' = wk /\ live' = Nodes /\ owner'.uid = owner.uid + 1 /\ wk[ClusterWorker].pc = "idle"
    BY <1>3 DEF OwnerRecreated, FreshOwner, At
  <2>2. owner.uid \in Nat /\ \A w \in Workers : wk[w].snap.uid \in Nat
    BY <1>0, SnapMarkers DEF OwnerObjects, Snap
  <2>3. Assigned'
    BY <1>0, <2>1, <2>2 DEF Assigned
  <2>4. \A w \in Workers : SnapIsPast(w)' /\ owner'.uid # wk'[w].snap.uid
    BY <1>0, <2>1, <2>2 DEF SnapIsPast
  <2>5. \A w \in Workers : OwnDrain(w)' /\ ApplyIsCurrent(w)'
    BY <1>0, <2>1, <2>4 DEF OwnDrain, ApplyIsCurrent
  <2>6. \A w \in Workers : OwnCompletion(w)'
    BY <1>0, <1>w, <2>1 DEF OwnCompletion
  <2> QED
    BY <2>3, <2>4, <2>5, <2>6 DEF AuthInv
<1>4. CASE Crash
  <2>1. /\ \A w \in Workers : wk'[w] = IdleWorker
        /\ owner' = owner
    BY <1>4 DEF Crash
  <2>2. IdleWorker.pc = "idle" /\ IdleWorker.obj = Owner /\ IdleWorker.snap.uid = 1
    BY DEF IdleWorker, FreshOwner
  <2>3. owner.uid >= 1
    BY <1>0 DEF Assigned
  <2> QED
    BY <1>w, <2>1, <2>2, <2>3 DEF AuthInv, Assigned, OwnDrain, OwnCompletion, ApplyIsCurrent,
       SnapIsPast, CoveredPoints
<1>5. \/ UNCHANGED <<wk, owner, live>> \/ SpecChange \/ OwnerRecreated \/ Crash
  BY DEF Environment, RequestDrain, WithdrawDrain, DeleteNode, BlocksMigrate, PodReady,
     HistorySettles, objects
<1> QED
  BY <1>1, <1>2, <1>3, <1>4, <1>5

\* Every step keeps AuthInv.
LEMMA NextAuthInv == TypeInv /\ LockInv /\ AuthInv /\ [Next]_vars => AuthInv'
<1> SUFFICES ASSUME TypeInv, LockInv, AuthInv, [Next]_vars PROVE AuthInv'
  OBVIOUS
<1>1. ASSUME NEW w \in Workers, Step(w) PROVE AuthInv'
  <2>1. Assigned' /\ OwnInv(w)' /\ SnapIsPast(w)'
    BY <1>1, StepAssigned, StepOwnInv, StepSnapIsPast
  <2>2. \A v \in Workers \ {w} : OwnInv(v)' /\ SnapIsPast(v)'
    BY <1>1, StepSparesOther
  <2> QED
    BY <2>1, <2>2 DEF AuthInv, OwnInv
<1>2. ASSUME NEW w \in Workers, NEW o \in Actors, StartReconcile(w, o) PROVE AuthInv'
  <2>1. /\ MovesTo(w, "listRollouts") /\ wk'[w].obj = o /\ wk'[w].snap = owner
        /\ owner' = owner /\ live' = live /\ live \subseteq Nodes
        /\ owner.uid \in Nat
    BY <1>2, StartReconcileMoves DEF StartReconcile, objects, TypeInv, TypeOK, OwnerObjects
  <2>2. IF w = ClusterWorker THEN o = Owner ELSE o \in live
    BY <1>2 DEF StartReconcile
  <2>3. ClusterWorker \in Workers /\ NodeWorker \in Workers /\ w \in {ClusterWorker, NodeWorker}
        /\ ClusterWorker # NodeWorker
    BY ConstantsAssumption DEF Workers
  <2>4. Assigned'
    BY <2>1, <2>2, <2>3 DEF AuthInv, Assigned, MovesTo
  <2>5. "listRollouts" \in Points \ OwnPoints
    BY DEF Points, FreePoints, OwnPoints, CoveredPoints
  <2>6. OwnInv(w)' /\ SnapIsPast(w)'
    BY <2>1, <2>5, QuietOwn DEF SnapIsPast
  <2>7. \A v \in Workers \ {w} : OwnInv(v)' /\ SnapIsPast(v)'
    BY <2>1 DEF MovesTo, AuthInv, OwnInv, OwnDrain, OwnCompletion, ApplyIsCurrent, SnapIsPast
  <2> QED
    BY <2>4, <2>6, <2>7 DEF AuthInv, OwnInv
<1>3. CASE Environment
  BY <1>3, EnvironmentAuthInv
<1>4. CASE UNCHANGED vars
  BY <1>4 DEF vars, AuthInv, Assigned, OwnDrain, OwnCompletion, ApplyIsCurrent, SnapIsPast
<1> QED
  BY <1>1, <1>2, <1>3, <1>4 DEF Next

\* Only Apply removes roles, and it removes those of its reconcile's object.
LEMMA OnlyApplyRemoves ==
  ASSUME TypeInv, Next, NEW n \in roles \ roles'
  PROVE  \E w \in Workers : ApplyRemoval(w) /\ n \in Target(wk[w].obj)
<1>0. roles \subseteq Nodes
  BY DEF TypeInv, TypeOK
<1>1. ASSUME NEW w \in Workers, Step(w) PROVE ApplyRemoval(w)
  <2>1. CASE Rehydrate(w) \/ NodeReconcile(w)
    BY <2>1 DEF Rehydrate, ListRollouts, AdoptRollout, ReadOwner, AdoptDrain, ScanSources,
       NodeReconcile, NodeWaitsForDrain, NodeFinalizes, NodePreparesDrain, NodeReconcilesRole,
       RemoveFinalizer, garage
  <2>2. CASE ClusterReconcile(w)
    BY <2>2 DEF ClusterReconcile, ClusterPreparesDrain, ClusterRecoversOrphan,
       ClusterRecoversRollout, ClusterProceeds, ReconcileStorageRollout,
       WaitRollout, Converge, FinishNodeLocalPoolRollout, OrdinaryReconcile, garage
  <2>3. CASE Mutex(w) \/ WriteRole(w) \/ RolloutTransaction(w)
    BY <2>3 DEF Mutex, CheckExclusions, TryAcquire, Release, WriteRole, RolloutTransaction,
       BeginRollout, PersistRollout, ConfirmRollout, DeletePod, RecoverRollout, EndRollout, garage
  <2>4. CASE DrainTransaction(w)
    BY <2>4 DEF DrainTransaction, BeginIntent, ResumeIntent, PersistIntent, ConfirmIntent,
       RequireStorageDrainBeforeApply, StagingFails, ApplyFails, RecoverApplyFailure,
       EndAborted, ProveMigration, ObservationFails, MarkDone, ClearCompletedStorageDrain,
       EndCleared, garage
  <2> QED
    BY <1>1, <2>1, <2>2, <2>3, <2>4 DEF Step
<1>2. ~\E w \in Workers, o \in Actors : StartReconcile(w, o)
  BY DEF StartReconcile, garage
<1>3. ~Environment
  BY <1>0 DEF Environment, RequestDrain, WithdrawDrain, DeleteNode, BlocksMigrate, PodReady,
     SpecChange, OwnerRecreated, HistorySettles, Crash, garage
<1>4. PICK w \in Workers : ApplyRemoval(w)
  BY <1>1, <1>2, <1>3 DEF Next
<1>5. n \in Target(wk[w].obj)
  BY <1>4 DEF ApplyRemoval
<1> QED
  BY <1>4, <1>5

\* requireStorageDrainBeforeApply suffices although Apply is a later call: between
\* the two the other controller may still write the owner, but it can neither end
\* this drain, nor start a handoff, nor change the spec generation.
THEOREM RemovalsAreAuthorized == Spec => RemovalIsAuthorized
<1>1. ASSUME TypeInv, AuthInv, [Next]_vars
      PROVE  [\A n \in roles \ roles' :
                /\ owner.drain # None /\ n \in Target(owner.drain.actor)
                /\ owner.rollout = None /\ owner.cond.gen = owner.gen]_vars
  <2>1. CASE UNCHANGED vars
    BY <2>1
  <2>2. ASSUME Next, NEW n \in roles \ roles'
        PROVE  /\ owner.drain # None /\ n \in Target(owner.drain.actor)
               /\ owner.rollout = None /\ owner.cond.gen = owner.gen
    <3>1. PICK w \in Workers : ApplyRemoval(w) /\ n \in Target(wk[w].obj)
      BY <1>1, <2>2, OnlyApplyRemoves
    <3>2. wk[w].pc = "apply" /\ owner.uid = wk[w].snap.uid
      BY <3>1 DEF ApplyRemoval, At, Snap
    <3>3. OwnDrain(w) /\ ApplyIsCurrent(w)
      BY <1>1 DEF AuthInv
    <3> QED
      BY <3>1, <3>2, <3>3 DEF OwnDrain, ApplyIsCurrent, CoveredPoints
  <2> QED
    BY <1>1, <2>1, <2>2
<1> QED
  BY <1>1, InitTypeInv, NextTypeInv, InitLockInv, NextLockInv, InitAuthInv, NextAuthInv, PTL
     DEF Spec, RemovalIsAuthorized

\* What DrainIsNeverStolen says of one step.
NotStolen ==
  owner.drain # None /\ owner'.drain # owner.drain /\ owner'.uid = owner.uid =>
    \/ owner'.drain = [owner.drain EXCEPT !.done = ~@]
    \/ owner'.drain = None /\ owner.drain.done
    \/ owner'.drain = None /\ \E w \in Workers : At(w, "revert") /\ wk[w].obj = owner.drain.actor

\* No step of a reconcile replaces a durable transaction.
LEMMA StepNotStolen ==
  ASSUME TypeInv, AuthInv, NEW w \in Workers, Step(w)
  PROVE  NotStolen
<1>0. TypeOK /\ owner \in OwnerObjects /\ OwnDrain(w) /\ OwnCompletion(w)
  BY DEF TypeInv, TypeOK, AuthInv
<1>1. ASSUME owner'.drain = owner.drain PROVE NotStolen
  BY <1>1 DEF NotStolen
<1>2. CASE Rehydrate(w) \/ NodeReconcile(w) \/ Mutex(w) \/ WriteRole(w)
  BY <1>1, <1>2 DEF Rehydrate, ListRollouts, AdoptRollout, ReadOwner, AdoptDrain, ScanSources,
     NodeReconcile, NodeWaitsForDrain, NodeFinalizes, NodePreparesDrain, NodeReconcilesRole,
     RemoveFinalizer, Mutex, CheckExclusions, TryAcquire, Release, WriteRole
<1>3. CASE ClusterReconcile(w)
  <2>1. CASE WaitRollout(w) \/ Converge(w)
    BY <1>0, <1>1, <2>1 DEF WaitRollout, Converge, SetCondition, OwnerObjects
  <2>2. CASE ~(WaitRollout(w) \/ Converge(w))
    BY <1>1, <1>3, <2>2 DEF ClusterReconcile, ClusterPreparesDrain, ClusterRecoversOrphan,
       ClusterRecoversRollout, ClusterProceeds, ReconcileStorageRollout,
       FinishNodeLocalPoolRollout, OrdinaryReconcile
  <2> QED
    BY <2>1, <2>2
<1>4. CASE RolloutTransaction(w)
  <2>1. CASE PersistRollout(w)
    BY <1>0, <1>1, <2>1 DEF PersistRollout, OwnerObjects
  <2>2. CASE RecoverRollout(w)
    BY <1>0, <1>1, <2>2 DEF RecoverRollout, OwnerObjects
  <2>3. CASE ~(PersistRollout(w) \/ RecoverRollout(w))
    BY <1>1, <1>4, <2>3 DEF RolloutTransaction, BeginRollout, ConfirmRollout, DeletePod, EndRollout
  <2> QED
    BY <2>1, <2>2, <2>3
<1>5. CASE DrainTransaction(w)
  <2>1. CASE PersistIntent(w)
    <3>1. owner' = owner \/ owner.drain = None
      BY <1>0, <2>1 DEF PersistIntent, OwnDrain, SameDrainRevision, At, Snap
    <3> QED
      BY <3>1 DEF NotStolen
  <2>2. CASE RecoverApplyFailure(w)
    <3>1. CASE owner' = owner
      BY <1>1, <3>1
    <3>2. CASE owner' # owner
      <4>1. owner' = [owner EXCEPT !.drain = None] /\ SameDrainRevision(w) /\ At(w, "revert")
        BY <2>2, <3>2 DEF RecoverApplyFailure
      <4>2. owner.drain.actor = wk[w].obj
        BY <1>0, <4>1 DEF OwnDrain, SameDrainRevision, At, Snap, CoveredPoints
      <4>3. owner'.drain = None
        BY <1>0, <4>1 DEF OwnerObjects
      <4> QED
        BY <4>1, <4>2, <4>3 DEF NotStolen
    <3> QED
      BY <3>1, <3>2
  <2>3. CASE ProveMigration(w) \/ ObservationFails(w)
    <3>1. CASE owner' = owner
      BY <1>1, <3>1
    <3>2. CASE owner' # owner
      <4>1. owner.drain \in Drains
        BY <2>3, <3>2 DEF ProveMigration, ObservationFails, MayObserve, SameDrainRevision, TypeInv,
           DrainKnown, DrainPoints, At, Snap
      <4>2. PICK b \in BOOLEAN : owner' = [owner EXCEPT !.drain = [owner.drain EXCEPT !.done = b]]
        BY <1>0, <2>3, <3>2 DEF ProveMigration, ObservationFails, OwnerObjects
      <4>3. owner'.drain = [owner.drain EXCEPT !.done = b]
        BY <1>0, <4>2 DEF OwnerObjects
      <4>4. owner'.drain = owner.drain \/ owner'.drain = [owner.drain EXCEPT !.done = ~@]
        BY <4>1, <4>3 DEF Drains
      <4> QED
        BY <4>4 DEF NotStolen
    <3> QED
      BY <3>1, <3>2
  <2>4. CASE ClearCompletedStorageDrain(w)
    <3>1. CASE owner' = owner
      BY <1>1, <3>1
    <3>2. CASE owner' # owner
      <4>1. owner' = [owner EXCEPT !.drain = None] /\ owner.drain.done
        BY <1>0, <2>4, <3>2 DEF ClearCompletedStorageDrain, OwnCompletion, SameDrainRevision, At, Snap
      <4>2. owner'.drain = None
        BY <1>0, <4>1 DEF OwnerObjects
      <4> QED
        BY <4>1, <4>2 DEF NotStolen
    <3> QED
      BY <3>1, <3>2
  <2>5. CASE \/ BeginIntent(w) \/ ResumeIntent(w) \/ ConfirmIntent(w)
             \/ RequireStorageDrainBeforeApply(w) \/ StagingFails(w) \/ ApplyRemoval(w)
             \/ ApplyFails(w) \/ EndAborted(w) \/ MarkDone(w) \/ EndCleared(w)
    BY <1>1, <2>5 DEF BeginIntent, ResumeIntent, ConfirmIntent, RequireStorageDrainBeforeApply,
       StagingFails, ApplyRemoval, ApplyFails, EndAborted, MarkDone, EndCleared
  <2> QED
    BY <1>5, <2>1, <2>2, <2>3, <2>4, <2>5 DEF DrainTransaction
<1> QED
  BY <1>2, <1>3, <1>4, <1>5 DEF Step

\* updateClusterStorageDrainProof compares the snapshot's transaction and nothing
\* else.  That is enough: a durable drain ends by its own proof, by its own
\* reconcile giving it up, or with its owner, never by another writer.
THEOREM DrainsAreNeverStolen == Spec => DrainIsNeverStolen
<1>1. ASSUME TypeInv, AuthInv, [Next]_vars PROVE [NotStolen]_vars
  <2>1. ASSUME NEW w \in Workers, Step(w) PROVE NotStolen
    BY <1>1, <2>1, StepNotStolen
  <2>2. ASSUME NEW w \in Workers, NEW o \in Actors, StartReconcile(w, o) PROVE NotStolen
    BY <2>2 DEF StartReconcile, NotStolen
  <2>3. CASE Environment
    <3>1. CASE OwnerRecreated
      <4>1. owner'.uid = owner.uid + 1 /\ owner.uid \in Nat
        BY <1>1, <3>1 DEF OwnerRecreated, FreshOwner, TypeInv, TypeOK, OwnerObjects
      <4> QED
        BY <4>1 DEF NotStolen
    <3>2. CASE SpecChange
      BY <3>2 DEF SpecChange, AnnotationsOpen, NotStolen
    <3>3. CASE ~OwnerRecreated /\ ~SpecChange
      BY <2>3, <3>3 DEF Environment, RequestDrain, WithdrawDrain, DeleteNode, BlocksMigrate,
         PodReady, HistorySettles, Crash, NotStolen
    <3> QED
      BY <3>1, <3>2, <3>3
  <2>4. CASE UNCHANGED vars
    BY <2>4
  <2> QED
    BY <1>1, <2>1, <2>2, <2>3, <2>4 DEF Next
<1> QED
  BY <1>1, InitTypeInv, NextTypeInv, InitLockInv, NextLockInv, InitAuthInv, NextAuthInv, PTL
     DEF Spec, DrainIsNeverStolen, NotStolen


-----------------------------------------------------------------------------
(* A Pod that is down is the one status.storageRollout records.            *)

\* Where a reconcile drives a managed-Pod rollout, and why it takes the mutex.
RolloutPoints ==
  {"rollout", "waitRollout", "converge", "finishRollout", "ordinary",
   "casRollout", "confirmRollout", "deletePod", "endRollout"}
RolloutGoals == {"rollout", "recover"}

\* The GarageNode controller has no part in a rollout.
NodesDoNotRoll ==
  wk[NodeWorker].pc \notin RolloutPoints /\ wk[NodeWorker].goal \notin RolloutGoals

\* Nobody but the cluster controller writes status.storageRollout, so its own
\* snapshot is never stale in that field.
RolloutIsKnown == wk[ClusterWorker].pc # "idle" => wk[ClusterWorker].snap.rollout = owner.rollout

\* The Pod about to be deleted is the recorded one.
CandidateIsRecorded ==
  wk[ClusterWorker].pc \in {"confirmRollout", "deletePod"} => wk[ClusterWorker].cand = owner.rollout

HandoffInv == NodesDoNotRoll /\ RolloutIsKnown /\ CandidateIsRecorded /\ HandoffIsDurable

\* The steps that replace a Pod or write status.storageRollout.
LEMMA OnlyRolloutsTouchPods ==
  ASSUME TypeInv, NEW w \in Workers, Step(w)
  PROVE  \/ PersistRollout(w) \/ RecoverRollout(w) \/ DeletePod(w)
         \/ owner'.rollout = owner.rollout /\ down' \subseteq down
<1>0. owner \in OwnerObjects
  BY DEF TypeInv, TypeOK
<1>1. CASE Rehydrate(w) \/ NodeReconcile(w)
  BY <1>1 DEF Rehydrate, ListRollouts, AdoptRollout, ReadOwner, AdoptDrain, ScanSources,
     NodeReconcile, NodeWaitsForDrain, NodeFinalizes, NodePreparesDrain, NodeReconcilesRole,
     RemoveFinalizer, pods
<1>2. CASE ClusterReconcile(w)
  <2>1. CASE WaitRollout(w) \/ Converge(w)
    BY <1>0, <2>1 DEF WaitRollout, Converge, SetCondition, OwnerObjects, pods
  <2>2. CASE ~(WaitRollout(w) \/ Converge(w))
    BY <1>2, <2>2 DEF ClusterReconcile, ClusterPreparesDrain, ClusterRecoversOrphan,
       ClusterRecoversRollout, ClusterProceeds, ReconcileStorageRollout,
       FinishNodeLocalPoolRollout, OrdinaryReconcile, pods
  <2> QED
    BY <2>1, <2>2
<1>3. CASE Mutex(w) \/ WriteRole(w) \/ RolloutTransaction(w)
  BY <1>3 DEF Mutex, CheckExclusions, TryAcquire, Release, WriteRole, RolloutTransaction,
     BeginRollout, ConfirmRollout, EndRollout, pods
<1>4. CASE \/ BeginIntent(w) \/ ResumeIntent(w) \/ ConfirmIntent(w)
           \/ RequireStorageDrainBeforeApply(w) \/ StagingFails(w) \/ ApplyRemoval(w)
           \/ ApplyFails(w) \/ EndAborted(w) \/ MarkDone(w) \/ EndCleared(w)
  BY <1>4 DEF BeginIntent, ResumeIntent, ConfirmIntent, RequireStorageDrainBeforeApply,
     StagingFails, ApplyRemoval, ApplyFails, EndAborted, MarkDone, EndCleared, pods
<1>5. CASE PersistIntent(w) \/ RecoverApplyFailure(w) \/ ClearCompletedStorageDrain(w)
  BY <1>0, <1>5 DEF PersistIntent, RecoverApplyFailure, ClearCompletedStorageDrain, OwnerObjects, pods
<1>6. CASE ProveMigration(w) \/ ObservationFails(w)
  BY <1>0, <1>6 DEF ProveMigration, ObservationFails, OwnerObjects, pods
<1> QED
  BY <1>1, <1>2, <1>3, <1>4, <1>5, <1>6 DEF Step, DrainTransaction

KeepsOut(w) == wk'[w].pc \notin RolloutPoints /\ wk'[w].goal \notin RolloutGoals

\* A step of the GarageNode controller keeps it out of rollouts.
LEMMA NodeStepStaysOut ==
  ASSUME TypeInv, AuthInv, NodesDoNotRoll, NEW w \in Workers, w = NodeWorker, Step(w)
  PROVE  NodesDoNotRoll' /\ owner'.rollout = owner.rollout /\ down' \subseteq down
<1>0. TypeOK /\ w \in Workers /\ wk[w].obj \in Nodes /\ wk[w].obj # Owner
      /\ owner \in OwnerObjects /\ Snap(w) \in OwnerObjects
  BY StepPoint, ConstantsAssumption, SnapMarkers DEF TypeInv, TypeOK, AuthInv, Assigned, Workers
<1>n. wk[w].pc \notin RolloutPoints /\ wk[w].goal \notin RolloutGoals
  BY DEF NodesDoNotRoll
<1>p. {"idle", "adoptRollout", "readOwner", "adoptDrain", "scanSources", "decide", "check",
       "acquire", "removeFinalizer", "clearDrain", "endCleared", "locked", "casDrain",
       "confirmDrain", "beforeApply", "apply", "revert", "endAborted", "prove", "markDone",
       "release"} \subseteq Points \ RolloutPoints
  BY DEF Points, FreePoints, LockedPoints, RolloutPoints
<1>o. KeepsOut(w) <=> wk'[w].pc \notin RolloutPoints /\ wk'[w].goal \notin RolloutGoals
  BY DEF KeepsOut
<1>2. ASSUME NEW l \in Points \ RolloutPoints, Goto(w, l) PROVE KeepsOut(w)
  BY <1>0, <1>n, <1>o, <1>2, GotoMoves DEF KeepsPurpose, MovesTo
<1>3. ASSUME Finish(w) PROVE KeepsOut(w)
  BY <1>0, <1>o, <1>3, FinishMoves DEF IdleWorker, RolloutPoints, RolloutGoals
<1>4. ASSUME NEW g \in {"drain", "role"}, NEW m \in Modes, Run(w, g, m) PROVE KeepsOut(w)
  BY <1>0, <1>o, <1>4, <1>p, RunMoves DEF MovesTo, RolloutGoals, Goals
<1>5. ASSUME NEW l \in Points \ RolloutPoints, owner' \in OwnerObjects,
             wk' = [wk EXCEPT ![w].snap = owner', ![w].pc = l]
      PROVE  KeepsOut(w)
  BY <1>0, <1>n, <1>o, <1>5, SnapMoves DEF KeepsPurpose, MovesTo
<1>6. ASSUME NEW l \in Points \ RolloutPoints, NEW d \in Drains \cup {None},
             wk' = [wk EXCEPT ![w].intent = d, ![w].pc = l]
      PROVE  KeepsOut(w)
  BY <1>0, <1>n, <1>o, <1>6, IntentMoves DEF KeepsPurpose, MovesTo
<1>s. Step(w) /\ owner' \in OwnerObjects
  BY NextTypeInv DEF Next, TypeInv, TypeOK
<1>r. ~RolloutTransaction(w)
  BY <1>n DEF RolloutTransaction, BeginRollout, PersistRollout, ConfirmRollout, DeletePod,
     RecoverRollout, EndRollout, At, RolloutPoints, RolloutGoals
<1>t. owner'.rollout = owner.rollout /\ down' \subseteq down
  BY <1>0, <1>s, <1>r, OnlyRolloutsTouchPods DEF RolloutTransaction
<1> SUFFICES KeepsOut(w)
  BY <1>0, <1>t DEF KeepsOut, NodesDoNotRoll
<1>7. CASE Rehydrate(w)
  <2>1. CASE ListRollouts(w)
    BY <1>2, <1>p, <2>1 DEF ListRollouts
  <2>2. CASE AdoptRollout(w)
    BY <1>2, <1>3, <1>p, <2>2 DEF AdoptRollout
  <2>3. CASE ReadOwner(w)
    BY <1>0, <1>3, <1>5, <1>p, <2>3 DEF ReadOwner
  <2>4. CASE AdoptDrain(w)
    BY <1>2, <1>3, <1>p, <2>4 DEF AdoptDrain
  <2>5. CASE ScanSources(w)
    BY <1>2, <1>p, <2>5 DEF ScanSources
  <2> QED
    BY <1>7, <2>1, <2>2, <2>3, <2>4, <2>5 DEF Rehydrate
<1>8. CASE NodeReconcile(w)
  BY <1>2, <1>3, <1>4, <1>p, <1>8 DEF NodeReconcile, NodeWaitsForDrain, NodeFinalizes,
     NodePreparesDrain, NodeReconcilesRole, RemoveFinalizer, Modes
<1>9. ~ClusterReconcile(w)
  BY <1>0, <1>n DEF ClusterReconcile, ClusterPreparesDrain, ClusterRecoversOrphan,
     ClusterRecoversRollout, ClusterProceeds, ClusterAtDecision, ReconcileStorageRollout,
     WaitRollout, Converge, FinishNodeLocalPoolRollout, OrdinaryReconcile, At, RolloutPoints
<1>10. CASE Mutex(w) \/ WriteRole(w)
  BY <1>2, <1>3, <1>n, <1>p, <1>10 DEF Mutex, CheckExclusions, TryAcquire, Release, Refused,
     WriteRole, RolloutGoals
<1>11. CASE DrainTransaction(w)
  <2>a. AfterIntent(wk[w].obj) \in Points \ RolloutPoints
    BY <1>p DEF AfterIntent
  <2>d. Snap(w).drain \in Drains \cup {None}
    BY <1>0 DEF OwnerObjects
  <2>1. CASE BeginIntent(w)
    <3> DEFINE next == [actor |-> wk[w].obj, tx |-> NewTransactionID, done |-> FALSE]
    <3>1. next \in Drains
      BY <1>0, <2>1 DEF BeginIntent, NewTransactionID, Drains, TypeOK, Reconciles
    <3>2. \/ wk' = [wk EXCEPT ![w].intent = next, ![w].pc = "casDrain"]
          \/ Goto(w, "release")
      BY <2>1 DEF BeginIntent
    <3> HIDE DEF next
    <3> QED
      BY <1>2, <1>6, <1>p, <3>1, <3>2
  <2>2. CASE ResumeIntent(w) \/ ConfirmIntent(w)
    BY <1>2, <1>6, <1>p, <2>a, <2>d, <2>2 DEF ResumeIntent, ConfirmIntent
  <2>3. CASE PersistIntent(w) \/ RecoverApplyFailure(w) \/ ProveMigration(w)
    BY <1>2, <1>5, <1>s, <1>p, <2>3 DEF PersistIntent, RecoverApplyFailure, ProveMigration
  <2>4. CASE \/ RequireStorageDrainBeforeApply(w) \/ StagingFails(w) \/ ApplyFails(w)
             \/ EndAborted(w) \/ MarkDone(w) \/ ObservationFails(w)
    BY <1>2, <1>p, <2>4 DEF RequireStorageDrainBeforeApply, StagingFails, ApplyFails, EndAborted,
       MarkDone, ObservationFails
  <2>5. CASE ApplyRemoval(w)
    BY <1>2, <1>p, <2>5 DEF ApplyRemoval
  <2>6. CASE ClearCompletedStorageDrain(w)
    <3>1. CASE SameDrainRevision(w)
      <4>1. MovesTo(w, "endCleared") /\ wk'[w].goal = wk[w].goal
        BY <1>0, <1>s, <2>6, <3>1, ClearMoves DEF ClearCompletedStorageDrain, KeepsPurpose
      <4> QED
        BY <1>n, <1>o, <1>p, <4>1 DEF MovesTo
    <3>2. CASE ~SameDrainRevision(w)
      BY <1>3, <2>6, <3>2 DEF ClearCompletedStorageDrain
    <3> QED
      BY <3>1, <3>2
  <2>7. CASE EndCleared(w)
    BY <1>0, <1>3, <2>7 DEF EndCleared
  <2> QED
    BY <1>11, <2>1, <2>2, <2>3, <2>4, <2>5, <2>6, <2>7 DEF DrainTransaction
<1> QED
  BY <1>s, <1>7, <1>8, <1>9, <1>10, <1>11, <1>r DEF Step

\* A Pod is chosen for deletion only through these steps.
LEMMA OnlyRolloutsChoose ==
  ASSUME TypeInv, NEW w \in Workers, Step(w), wk'[w].pc \in {"confirmRollout", "deletePod"}
  PROVE  PersistRollout(w) \/ ConfirmRollout(w) \/ RecoverRollout(w)
<1>0. TypeOK /\ Snap(w) \in OwnerObjects /\ owner' \in OwnerObjects
  BY SnapMarkers, NextTypeInv DEF TypeInv, TypeOK, Next
<1> DEFINE Other == Points \ {"confirmRollout", "deletePod"}
<1>p. {"idle", "adoptRollout", "readOwner", "adoptDrain", "scanSources", "decide", "check",
       "acquire", "removeFinalizer", "clearDrain", "endCleared", "rollout", "waitRollout", "converge",
       "finishRollout", "ordinary", "locked", "casDrain", "confirmDrain", "beforeApply", "apply",
       "revert", "endAborted", "prove", "markDone", "casRollout", "endRollout", "release"} \subseteq Other
  BY DEF Points, FreePoints, LockedPoints
<1>1. ASSUME NEW l \in Other, MovesTo(w, l) PROVE FALSE
  BY <1>1 DEF MovesTo
<1>2. ASSUME NEW l \in Other, Goto(w, l) PROVE FALSE
  BY <1>0, <1>1, <1>2, GotoMoves
<1>3. ~Finish(w)
  BY <1>0, <1>1, <1>p, FinishMoves
<1>4. ASSUME NEW g \in Goals, NEW m \in Modes, Run(w, g, m) PROVE FALSE
  BY <1>0, <1>1, <1>4, <1>p, RunMoves
<1>5. ASSUME NEW l \in Other, wk' = [wk EXCEPT ![w].snap = owner', ![w].pc = l] PROVE FALSE
  BY <1>0, <1>1, <1>5, SnapMoves
<1>6. ASSUME NEW l \in Other, NEW d \in Drains \cup {None},
             wk' = [wk EXCEPT ![w].intent = d, ![w].pc = l]
      PROVE  FALSE
  BY <1>0, <1>1, <1>6, IntentMoves
<1> HIDE DEF Other
<1>7. ~Rehydrate(w)
  <2>1. ~(ListRollouts(w) \/ AdoptRollout(w) \/ AdoptDrain(w) \/ ScanSources(w))
    BY <1>2, <1>3, <1>p DEF ListRollouts, AdoptRollout, AdoptDrain, ScanSources
  <2>2. ~ReadOwner(w)
    BY <1>3, <1>5, <1>p DEF ReadOwner
  <2> QED
    BY <2>1, <2>2 DEF Rehydrate
<1>8. ~NodeReconcile(w)
  BY <1>2, <1>3, <1>4, <1>p DEF NodeReconcile, NodeWaitsForDrain, NodeFinalizes,
     NodePreparesDrain, NodeReconcilesRole, RemoveFinalizer, Modes, Goals
<1>9. ~ClusterReconcile(w)
  <2>1. ~WaitRollout(w)
    <3>1. ASSUME WaitRollout(w), ~Finish(w) PROVE MovesTo(w, "ordinary")
      BY <1>0, <3>1, OrdinaryMoves DEF WaitRollout
    <3> QED
      BY <1>1, <1>3, <1>p, <3>1
  <2>2. ~Converge(w)
    BY <1>3, <1>5, <1>p DEF Converge
  <2>3. ~(ClusterPreparesDrain(w) \/ ClusterRecoversOrphan(w) \/ ClusterRecoversRollout(w))
    BY <1>2, <1>3, <1>4, <1>p DEF ClusterPreparesDrain, ClusterRecoversOrphan,
       ClusterRecoversRollout, Goals, Modes
  <2>4. ~(ClusterProceeds(w) \/ ReconcileStorageRollout(w) \/ FinishNodeLocalPoolRollout(w)
          \/ OrdinaryReconcile(w))
    BY <1>2, <1>3, <1>4, <1>p DEF ClusterProceeds, ReconcileStorageRollout,
       FinishNodeLocalPoolRollout, OrdinaryReconcile, Goals, Modes
  <2> QED
    BY <2>1, <2>2, <2>3, <2>4 DEF ClusterReconcile
<1>10. ~(Mutex(w) \/ WriteRole(w))
  BY <1>2, <1>3, <1>p DEF Mutex, CheckExclusions, TryAcquire, Release, Refused, WriteRole
<1>11. ~DrainTransaction(w)
  <2>a. AfterIntent(wk[w].obj) \in Other
    BY <1>p DEF AfterIntent
  <2>d. Snap(w).drain \in Drains \cup {None}
    BY <1>0 DEF OwnerObjects
  <2>1. ~BeginIntent(w)
    <3> SUFFICES ASSUME BeginIntent(w) PROVE FALSE
      OBVIOUS
    <3> DEFINE next == [actor |-> wk[w].obj, tx |-> NewTransactionID, done |-> FALSE]
    <3>1. next \in Drains
      BY <1>0 DEF BeginIntent, NewTransactionID, Drains, TypeOK, Reconciles
    <3>2. \/ wk' = [wk EXCEPT ![w].intent = next, ![w].pc = "casDrain"]
          \/ Goto(w, "release")
      BY DEF BeginIntent
    <3> HIDE DEF next
    <3> QED
      BY <1>2, <1>6, <1>p, <3>1, <3>2
  <2>2. ~(ResumeIntent(w) \/ ConfirmIntent(w))
    BY <1>2, <1>6, <1>p, <2>a, <2>d DEF ResumeIntent, ConfirmIntent
  <2>3. ~(PersistIntent(w) \/ RecoverApplyFailure(w) \/ ProveMigration(w))
    BY <1>2, <1>5, <1>p DEF PersistIntent, RecoverApplyFailure, ProveMigration
  <2>4. ~(RequireStorageDrainBeforeApply(w) \/ StagingFails(w) \/ ApplyFails(w)
          \/ EndAborted(w) \/ MarkDone(w) \/ ObservationFails(w) \/ ApplyRemoval(w))
    BY <1>2, <1>p DEF RequireStorageDrainBeforeApply, StagingFails, ApplyFails, EndAborted,
       MarkDone, ObservationFails, ApplyRemoval
  <2>5. ~ClearCompletedStorageDrain(w)
    <3>1. ASSUME ClearCompletedStorageDrain(w), ~Finish(w) PROVE MovesTo(w, "endCleared")
      BY <1>0, <3>1, ClearMoves DEF ClearCompletedStorageDrain
    <3> QED
      BY <1>1, <1>3, <1>p, <3>1
  <2>6. ~EndCleared(w)
    BY <1>3, <1>6, <1>p DEF EndCleared
  <2> QED
    BY <2>1, <2>2, <2>3, <2>4, <2>5, <2>6 DEF DrainTransaction
<1>12. ~(BeginRollout(w) \/ DeletePod(w) \/ EndRollout(w))
  <2>1. ASSUME NEW n \in Nodes, wk' = [wk EXCEPT ![w].cand = n, ![w].pc = "casRollout"] PROVE FALSE
    BY <1>0, <1>1, <1>p, <2>1, CandMoves DEF Other
  <2>2. outdated \cap roles \subseteq Nodes
    BY <1>0 DEF TypeOK
  <2>3. ~BeginRollout(w)
    BY <1>2, <1>p, <2>1, <2>2 DEF BeginRollout
  <2> QED
    BY <1>2, <1>p, <2>3 DEF DeletePod, EndRollout
<1> QED
  BY <1>7, <1>8, <1>9, <1>10, <1>11, <1>12 DEF Step, RolloutTransaction

\* A step of the cluster controller keeps the record of the handoff ahead of the Pod.
LEMMA ClusterStepHandoff ==
  ASSUME TypeInv, HandoffInv, NEW w \in Workers, w = ClusterWorker, Step(w)
  PROVE  HandoffInv'
<1>0. /\ TypeOK /\ wk[w].pc # "idle" /\ wk[w].snap.rollout = owner.rollout
      /\ owner \in OwnerObjects /\ owner' \in OwnerObjects /\ down \subseteq {owner.rollout}
  BY StepPoint, NextTypeInv DEF TypeInv, TypeOK, Next, HandoffInv, RolloutIsKnown, HandoffIsDurable
<1>p. {"confirmRollout", "endRollout", "deletePod", "release"} \subseteq Points
  BY DEF Points, LockedPoints
<1>d. down \subseteq Nodes /\ None \notin Nodes
  BY <1>0, ConstantsAssumption DEF TypeOK
<1>n. NodesDoNotRoll'
  <2>1. NodeWorker \in Workers \ {w}
    BY ConstantsAssumption DEF Workers
  <2>2. wk'[NodeWorker] = wk[NodeWorker]
    BY <2>1, StepMutexStep DEF MutexStep, MovesTo
  <2> QED
    BY <2>2 DEF HandoffInv, NodesDoNotRoll
<1>c. wk'[w] = IdleWorker \/ wk'[w].snap \in {wk[w].snap, owner'}
  BY StepMutexStep DEF MutexStep, Continues
<1>i. IdleWorker.pc = "idle"
  BY DEF IdleWorker
<1>1. CASE PersistRollout(w)
  <2>1. CASE owner' = owner
    <3>1. Goto(w, "release") \/ wk' = [wk EXCEPT ![w].snap = owner', ![w].pc = "confirmRollout"]
      BY <1>1 DEF PersistRollout
    <3>2. CASE Goto(w, "release")
      <4>1. MovesTo(w, "release") /\ wk'[w].snap = wk[w].snap
        BY <1>0, <1>p, <3>2, GotoMoves DEF KeepsSnap
      <4>2. down' = down
        BY <1>1 DEF PersistRollout, pods
      <4> QED
        BY <1>0, <1>n, <2>1, <4>1, <4>2
           DEF HandoffInv, RolloutIsKnown, CandidateIsRecorded, HandoffIsDurable, MovesTo
    <3>3. CASE wk' = [wk EXCEPT ![w].snap = owner', ![w].pc = "confirmRollout"]
      <4>1. /\ MovesTo(w, "confirmRollout") /\ wk'[w].snap = owner' /\ wk'[w].cand = wk[w].cand
        BY <1>0, <1>p, <3>3, SnapMoves DEF KeepsCand
      <4>2. ~Goto(w, "release")
        BY <1>0, <1>p, <4>1, GotoMoves DEF MovesTo
      <4>3. owner'.rollout = wk[w].cand /\ down' = down
        BY <1>0, <1>1, <4>2 DEF PersistRollout, OwnerObjects, pods
      <4> QED
        BY <1>0, <1>n, <2>1, <4>1, <4>3
           DEF HandoffInv, RolloutIsKnown, CandidateIsRecorded, HandoffIsDurable, MovesTo
    <3> QED
      BY <3>1, <3>2, <3>3
  <2>2. CASE owner' # owner
    <3>1. /\ owner.rollout = None /\ owner'.rollout = wk[w].cand /\ down' = down
          /\ wk' = [wk EXCEPT ![w].snap = owner', ![w].pc = "confirmRollout"]
      BY <1>0, <1>1, <2>2 DEF PersistRollout, OwnerObjects, pods
    <3>2. MovesTo(w, "confirmRollout") /\ wk'[w].snap = owner' /\ wk'[w].cand = wk[w].cand
      BY <1>0, <1>p, <3>1, SnapMoves DEF KeepsCand
    <3> QED
      BY <1>0, <1>d, <1>n, <3>1, <3>2
         DEF HandoffInv, RolloutIsKnown, CandidateIsRecorded, HandoffIsDurable, MovesTo
  <2> QED
    BY <2>1, <2>2
<1>2. CASE RecoverRollout(w)
  <2>1. down' = down /\ Snap(w).rollout = owner.rollout /\ owner.rollout \in Nodes \cup {None}
    BY <1>0, <1>2 DEF RecoverRollout, Snap, pods, OwnerObjects
  <2>2. CASE wk' = [wk EXCEPT ![w].cand = Snap(w).rollout, ![w].pc = "deletePod"] /\ owner' = owner
    <3>1. MovesTo(w, "deletePod") /\ wk'[w].cand = owner.rollout /\ wk'[w].snap = wk[w].snap
      BY <1>0, <1>p, <2>1, <2>2, CandMoves DEF KeepsSnap
    <3> QED
      BY <1>0, <1>n, <2>1, <2>2, <3>1
         DEF HandoffInv, RolloutIsKnown, CandidateIsRecorded, HandoffIsDurable, MovesTo
  <2>3. CASE /\ down = {} /\ wk' = [wk EXCEPT ![w].snap = owner', ![w].pc = "endRollout"]
    <3>0. /\ wk' = [wk EXCEPT ![w].snap = owner', ![w].pc = "endRollout"]
          /\ "endRollout" \in Points /\ owner' \in OwnerObjects /\ TypeOK
      BY <1>0, <1>p, <2>3
    <3>1. MovesTo(w, "endRollout") /\ wk'[w].snap = owner'
      BY <3>0, SnapMoves
    <3> QED
      BY <1>n, <2>1, <2>3, <3>1
         DEF HandoffInv, RolloutIsKnown, CandidateIsRecorded, HandoffIsDurable, MovesTo
  <2>4. CASE Goto(w, "release") /\ owner' = owner
    <3>1. MovesTo(w, "release") /\ wk'[w].snap = wk[w].snap
      BY <1>0, <1>p, <2>4, GotoMoves DEF KeepsSnap
    <3> QED
      BY <1>0, <1>n, <2>1, <2>4, <3>1
         DEF HandoffInv, RolloutIsKnown, CandidateIsRecorded, HandoffIsDurable, MovesTo
  <2> QED
    BY <1>2, <2>2, <2>3, <2>4 DEF RecoverRollout
<1>3. CASE DeletePod(w)
  <2>1. MovesTo(w, "release") /\ wk'[w].snap = wk[w].snap
    BY <1>0, <1>3, <1>p, GotoMoves DEF DeletePod, KeepsSnap
  <2>2. wk[w].cand = owner.rollout
    BY <1>3 DEF DeletePod, At, HandoffInv, CandidateIsRecorded
  <2>3. owner' = owner /\ down' \subseteq down \cup {owner.rollout}
    BY <1>3, <2>2 DEF DeletePod, pods
  <2> QED
    BY <1>0, <1>n, <2>1, <2>3
       DEF HandoffInv, RolloutIsKnown, CandidateIsRecorded, HandoffIsDurable, MovesTo
<1>4. CASE ~(PersistRollout(w) \/ RecoverRollout(w) \/ DeletePod(w))
  <2>1. owner'.rollout = owner.rollout /\ down' \subseteq down
    BY <1>4, OnlyRolloutsTouchPods
  <2>2. RolloutIsKnown' /\ HandoffIsDurable'
    BY <1>0, <1>c, <1>i, <2>1 DEF RolloutIsKnown, HandoffIsDurable
  <2>3. CandidateIsRecorded'
    <3> SUFFICES ASSUME wk'[w].pc \in {"confirmRollout", "deletePod"} PROVE wk'[w].cand = owner'.rollout
      BY DEF CandidateIsRecorded
    <3>1. ConfirmRollout(w)
      BY <1>4, OnlyRolloutsChoose
    <3>2. wk'[w].cand = wk[w].cand /\ wk[w].pc = "confirmRollout"
      BY <1>0, <1>p, <3>1, GotoMoves DEF ConfirmRollout, KeepsCand, At
    <3> QED
      BY <2>1, <3>2 DEF HandoffInv, CandidateIsRecorded
  <2> QED
    BY <1>n, <2>2, <2>3 DEF HandoffInv
<1> QED
  BY <1>1, <1>2, <1>3, <1>4

\* Initially no Pod is being replaced.
LEMMA InitHandoffInv == Init => HandoffInv
<1> SUFFICES ASSUME Init PROVE HandoffInv
  OBVIOUS
<1>1. wk[ClusterWorker] = IdleWorker /\ wk[NodeWorker] = IdleWorker /\ down = {}
  BY DEF Init, Workers
<1> QED
  BY <1>1 DEF HandoffInv, NodesDoNotRoll, RolloutIsKnown, CandidateIsRecorded, HandoffIsDurable,
     IdleWorker, RolloutPoints, RolloutGoals

\* Every step keeps HandoffInv.
LEMMA NextHandoffInv == TypeInv /\ AuthInv /\ HandoffInv /\ [Next]_vars => HandoffInv'
<1> SUFFICES ASSUME TypeInv, AuthInv, HandoffInv, [Next]_vars PROVE HandoffInv'
  OBVIOUS
<1>w. ClusterWorker \in Workers /\ NodeWorker \in Workers /\ ClusterWorker # NodeWorker
      /\ Workers = {ClusterWorker, NodeWorker}
  BY ConstantsAssumption DEF Workers
<1>i. /\ IdleWorker.pc = "idle" /\ IdleWorker.goal = "none"
      /\ "idle" \notin RolloutPoints /\ "listRollouts" \notin RolloutPoints /\ "none" \notin RolloutGoals
  BY DEF IdleWorker, RolloutPoints, RolloutGoals
<1>1. CASE Step(ClusterWorker)
  BY <1>1, <1>w, ClusterStepHandoff
<1>2. CASE Step(NodeWorker)
  <2>1. NodesDoNotRoll' /\ owner'.rollout = owner.rollout /\ down' \subseteq down
    BY <1>2, <1>w, NodeStepStaysOut DEF HandoffInv
  <2>2. wk'[ClusterWorker] = wk[ClusterWorker]
    BY <1>2, <1>w, StepMutexStep DEF MutexStep, MovesTo
  <2> QED
    BY <2>1, <2>2 DEF HandoffInv, RolloutIsKnown, CandidateIsRecorded, HandoffIsDurable
<1>3. ASSUME NEW w \in Workers, NEW o \in Actors, StartReconcile(w, o) PROVE HandoffInv'
  <2>1. /\ MovesTo(w, "listRollouts") /\ wk'[w].snap = owner /\ wk'[w].goal = "none"
        /\ owner' = owner /\ down' = down
    BY <1>3, StartReconcileMoves DEF StartReconcile, pods, TypeInv
  <2> QED
    BY <1>i, <1>w, <2>1
       DEF HandoffInv, NodesDoNotRoll, RolloutIsKnown, CandidateIsRecorded, HandoffIsDurable, MovesTo
<1>4. CASE Environment
  <2>1. CASE wk' = wk /\ owner'.rollout = owner.rollout /\ down' \subseteq down
    BY <2>1 DEF HandoffInv, NodesDoNotRoll, RolloutIsKnown, CandidateIsRecorded, HandoffIsDurable
  <2>2. CASE SpecChange
    BY <2>1, <2>2 DEF SpecChange, TypeInv, TypeOK, OwnerObjects
  <2>3. CASE OwnerRecreated
    <3>1. wk' = wk /\ wk[ClusterWorker].pc = "idle" /\ down' = {}
      BY <2>3 DEF OwnerRecreated, At
    <3> QED
      BY <3>1 DEF HandoffInv, NodesDoNotRoll, RolloutIsKnown, CandidateIsRecorded, HandoffIsDurable
  <2>4. CASE Crash
    <3>1. wk'[ClusterWorker] = IdleWorker /\ wk'[NodeWorker] = IdleWorker /\ owner' = owner /\ down' = down
      BY <1>w, <2>4 DEF Crash, pods
    <3> QED
      BY <1>i, <3>1
         DEF HandoffInv, NodesDoNotRoll, RolloutIsKnown, CandidateIsRecorded, HandoffIsDurable
  <2>5. CASE ~(SpecChange \/ OwnerRecreated \/ Crash)
    <3>1. wk' = wk /\ owner' = owner /\ down' \subseteq down
      BY <1>4, <2>5 DEF Environment, RequestDrain, WithdrawDrain, DeleteNode, BlocksMigrate,
         PodReady, HistorySettles, pods
    <3> QED
      BY <2>1, <3>1
  <2> QED
    BY <2>2, <2>3, <2>4, <2>5
<1>5. CASE UNCHANGED vars
  BY <1>5 DEF vars, HandoffInv, NodesDoNotRoll, RolloutIsKnown, CandidateIsRecorded, HandoffIsDurable
<1> QED
  BY <1>1, <1>2, <1>3, <1>4, <1>5, <1>w DEF Next

\* ensureNodeLocalPoolRolloutExclusion writes status.storageRollout before the Pod is
\* deleted and recoverNodeLocalPoolRolloutExclusion clears it only when no Pod is
\* down.  Whatever the GarageNode controller, the users and restarts of the manager do
\* in between, a Pod that is down is the recorded one, so at most one is.
THEOREM HandoffsAreDurable == Spec => []HandoffIsDurable
<1>1. HandoffInv => HandoffIsDurable
  BY DEF HandoffInv
<1> QED
  BY <1>1, InitTypeInv, NextTypeInv, InitLockInv, NextLockInv, InitAuthInv, NextAuthInv,
     InitHandoffInv, NextHandoffInv, PTL DEF Spec

-----------------------------------------------------------------------------
(* With drains of GarageNodes only, the controllers implement SafeRemoval. *)
(* A drain of the whole GarageCluster does not: AbortKeepsRemovedTargets.  *)

\* Where a reconcile works on a drain transaction of its own object.
DrainWork ==
  {"casDrain", "confirmDrain", "beforeApply", "apply", "revert", "endAborted", "prove", "markDone"}

\* The cluster controller has no drain of its own to run.
ClusterDoesNotDrain ==
  /\ ~wk[ClusterWorker].want /\ wk[ClusterWorker].goal # "drain"
  /\ wk[ClusterWorker].pc \notin DrainWork

NodeDrains ==
  /\ Owner \notin wants
  /\ owner.drain # None => owner.drain.actor \in Nodes
  /\ ClusterDoesNotDrain

\* What the GarageNode controller saw of the durable transaction is still so, or
\* the transaction has been cleared.
ViewIsCurrent ==
  LET r == wk[NodeWorker]
  IN r.pc \notin {"idle", "release"} /\ r.snap.uid = owner.uid =>
       owner.drain = None \/ owner.drain = r.snap.drain

\* A transaction it works on is open until it is proved.
TransactionIsOpen ==
  LET r == wk[NodeWorker]
  IN /\ r.pc = "casDrain" => ~r.intent.done
     /\ r.pc \in {"confirmDrain", "beforeApply", "apply"} => ~r.snap.drain.done
     /\ r.pc \in {"check", "acquire", "locked"} /\ r.goal = "drain" /\ r.snap.drain # None =>
          ~r.snap.drain.done

\* It is admitted past the drain exclusion only for its own transaction.
OrdinarySeesNoDrain ==
  LET r == wk[NodeWorker]
  IN r.pc \in {"acquire", "locked"} /\ r.mode # "ignoreDrain" => r.snap.drain = None

\* It asks for the block proof only when the role is gone.
ProofFollowsRemoval ==
  LET r == wk[NodeWorker]
  IN r.pc = "prove" /\ r.snap.uid = owner.uid => r.obj \notin roles

NodeKnows == TransactionIsOpen /\ OrdinarySeesNoDrain /\ ProofFollowsRemoval

\* Blocks move only from roles that the transaction removed.
BlocksAreCovered ==
  /\ migrating # {} => owner.drain # None /\ migrating \subseteq Target(owner.drain.actor)
  /\ owner.drain # None /\ owner.drain.done => Target(owner.drain.actor) \cap migrating = {}
  /\ migrating \cap roles = {}

DrainInv == NodeDrains /\ ViewIsCurrent /\ NodeKnows /\ BlocksAreCovered

\* The steps of a reconcile that write status.storageDrain.
LEMMA OnlyDrainsWrite ==
  ASSUME TypeInv, NEW w \in Workers, Step(w)
  PROVE  \/ PersistIntent(w) \/ RecoverApplyFailure(w) \/ ProveMigration(w) \/ ObservationFails(w)
         \/ ClearCompletedStorageDrain(w)
         \/ owner'.drain = owner.drain
<1>0. owner \in OwnerObjects
  BY DEF TypeInv, TypeOK
<1>1. CASE Rehydrate(w) \/ NodeReconcile(w) \/ Mutex(w) \/ WriteRole(w)
  BY <1>1 DEF Rehydrate, ListRollouts, AdoptRollout, ReadOwner, AdoptDrain, ScanSources,
     NodeReconcile, NodeWaitsForDrain, NodeFinalizes, NodePreparesDrain, NodeReconcilesRole,
     RemoveFinalizer, Mutex, CheckExclusions, TryAcquire, Release, WriteRole
<1>2. CASE ClusterReconcile(w)
  <2>1. CASE WaitRollout(w) \/ Converge(w)
    BY <1>0, <2>1 DEF WaitRollout, Converge, SetCondition, OwnerObjects
  <2>2. CASE ~(WaitRollout(w) \/ Converge(w))
    BY <1>2, <2>2 DEF ClusterReconcile, ClusterPreparesDrain, ClusterRecoversOrphan,
       ClusterRecoversRollout, ClusterProceeds, ReconcileStorageRollout,
       FinishNodeLocalPoolRollout, OrdinaryReconcile
  <2> QED
    BY <2>1, <2>2
<1>3. CASE RolloutTransaction(w)
  <2>1. CASE PersistRollout(w)
    BY <1>0, <2>1 DEF PersistRollout, OwnerObjects
  <2>2. CASE RecoverRollout(w)
    BY <1>0, <2>2 DEF RecoverRollout, OwnerObjects
  <2>3. CASE ~(PersistRollout(w) \/ RecoverRollout(w))
    BY <1>3, <2>3 DEF RolloutTransaction, BeginRollout, ConfirmRollout, DeletePod, EndRollout
  <2> QED
    BY <2>1, <2>2, <2>3
<1>4. CASE \/ BeginIntent(w) \/ ResumeIntent(w) \/ ConfirmIntent(w)
           \/ RequireStorageDrainBeforeApply(w) \/ StagingFails(w) \/ ApplyRemoval(w)
           \/ ApplyFails(w) \/ EndAborted(w) \/ MarkDone(w) \/ EndCleared(w)
  BY <1>4 DEF BeginIntent, ResumeIntent, ConfirmIntent, RequireStorageDrainBeforeApply,
     StagingFails, ApplyRemoval, ApplyFails, EndAborted, MarkDone, EndCleared
<1> QED
  BY <1>1, <1>2, <1>3, <1>4 DEF Step, DrainTransaction

\* The steps of a reconcile that change the layout.
LEMMA OnlyApplyAndWriteRole ==
  ASSUME NEW w \in Workers, Step(w)
  PROVE  ApplyRemoval(w) \/ WriteRole(w) \/ UNCHANGED <<roles, migrating>>
<1>1. CASE Rehydrate(w) \/ NodeReconcile(w)
  BY <1>1 DEF Rehydrate, ListRollouts, AdoptRollout, ReadOwner, AdoptDrain, ScanSources,
     NodeReconcile, NodeWaitsForDrain, NodeFinalizes, NodePreparesDrain, NodeReconcilesRole,
     RemoveFinalizer, garage
<1>2. CASE ClusterReconcile(w)
  BY <1>2 DEF ClusterReconcile, ClusterPreparesDrain, ClusterRecoversOrphan,
     ClusterRecoversRollout, ClusterProceeds, ReconcileStorageRollout,
     WaitRollout, Converge, FinishNodeLocalPoolRollout, OrdinaryReconcile, garage
<1>3. CASE Mutex(w) \/ RolloutTransaction(w)
  BY <1>3 DEF Mutex, CheckExclusions, TryAcquire, Release, RolloutTransaction,
     BeginRollout, PersistRollout, ConfirmRollout, DeletePod, RecoverRollout, EndRollout, garage
<1>4. CASE DrainTransaction(w)
  BY <1>4 DEF DrainTransaction, BeginIntent, ResumeIntent, PersistIntent, ConfirmIntent,
     RequireStorageDrainBeforeApply, StagingFails, ApplyFails, RecoverApplyFailure,
     EndAborted, ProveMigration, ObservationFails, MarkDone, ClearCompletedStorageDrain,
     EndCleared, garage
<1> QED
  BY <1>1, <1>2, <1>3, <1>4 DEF Step

\* A step of the cluster controller leads to no drain of the GarageCluster.
LEMMA ClusterStepDoesNotDrain ==
  ASSUME TypeInv, AuthInv, ClusterDoesNotDrain, NEW w \in Workers, w = ClusterWorker, Step(w)
  PROVE  ClusterDoesNotDrain'
<1>0. /\ TypeOK /\ Snap(w) \in OwnerObjects /\ owner' \in OwnerObjects
      /\ wk[w].obj = Owner /\ wk[w].obj \notin Nodes
  BY SnapMarkers, NextTypeInv, ConstantsAssumption DEF TypeInv, TypeOK, Next, AuthInv, Assigned
<1>n. wk[w].pc \notin DrainWork /\ wk[w].goal # "drain" /\ ~wk[w].want
  BY DEF ClusterDoesNotDrain
<1> DEFINE Other == Points \ DrainWork
<1> DEFINE Calm == wk'[w].goal # "drain" /\ wk'[w].pc \notin DrainWork
<1>p. {"idle", "adoptRollout", "readOwner", "adoptDrain", "scanSources", "decide", "check",
       "acquire", "removeFinalizer", "clearDrain", "endCleared", "rollout", "waitRollout", "converge",
       "finishRollout", "ordinary", "locked", "casRollout", "confirmRollout", "deletePod",
       "endRollout", "release"} \subseteq Other
  BY DEF Points, FreePoints, LockedPoints, DrainWork
<1>w. ~wk'[w].want
  <2>1. wk'[w] = IdleWorker \/ wk'[w].want = wk[w].want
    BY StepMutexStep DEF MutexStep, Continues, KeepsObject
  <2> QED
    BY <1>n, <2>1 DEF IdleWorker
<1> SUFFICES Calm
  BY <1>w DEF ClusterDoesNotDrain
<1>m. ASSUME NEW l \in Other, MovesTo(w, l), KeepsPurpose(w) PROVE Calm
  BY <1>n, <1>m DEF MovesTo, KeepsPurpose
<1>o. \A l \in Other : l \in Points
  OBVIOUS
<1>2. ASSUME NEW l \in Other, Goto(w, l) PROVE Calm
  <2>1. MovesTo(w, l) /\ KeepsPurpose(w)
    <3> HIDE DEF Other
    <3> QED BY <1>0, <1>2, <1>o, GotoMoves
  <2> QED
    BY <1>m, <2>1
<1>3. ASSUME Finish(w) PROVE Calm
  BY <1>0, <1>3, <1>p, FinishMoves DEF IdleWorker
<1>4. ASSUME NEW g \in {"role", "rollout", "recover"}, NEW m \in Modes, Run(w, g, m) PROVE Calm
  BY <1>0, <1>4, <1>p, RunMoves DEF MovesTo, Goals
<1>5. ASSUME NEW l \in Other, wk' = [wk EXCEPT ![w].snap = owner', ![w].pc = l] PROVE Calm
  <2>1. MovesTo(w, l) /\ KeepsPurpose(w)
    <3> HIDE DEF Other
    <3> QED BY <1>0, <1>5, <1>o, SnapMoves
  <2> QED
    BY <1>m, <2>1
<1>6. ASSUME NEW l \in Other, NEW d \in Drains \cup {None},
             wk' = [wk EXCEPT ![w].intent = d, ![w].pc = l]
      PROVE  Calm
  <2>1. MovesTo(w, l) /\ KeepsPurpose(w)
    <3> HIDE DEF Other
    <3> QED BY <1>0, <1>6, <1>o, IntentMoves
  <2> QED
    BY <1>m, <2>1
<1>7. ASSUME NEW l \in Other, NEW n \in Nodes \cup {None},
             wk' = [wk EXCEPT ![w].cand = n, ![w].pc = l]
      PROVE  Calm
  <2>1. MovesTo(w, l) /\ KeepsPurpose(w)
    <3> HIDE DEF Other
    <3> QED BY <1>0, <1>7, <1>o, CandMoves
  <2> QED
    BY <1>m, <2>1
<1>c. ASSUME MovesTo(w, "endCleared"), KeepsPurpose(w) PROVE Calm
  BY <1>n, <1>p, <1>c DEF MovesTo, KeepsPurpose
<1>z. ASSUME MovesTo(w, "ordinary"), wk'[w].goal = "none" PROVE Calm
  BY <1>p, <1>z DEF MovesTo
<1> HIDE DEF Other, Calm
<1>8. CASE Rehydrate(w)
  <2>1. CASE ListRollouts(w) \/ AdoptRollout(w) \/ AdoptDrain(w) \/ ScanSources(w)
    BY <1>2, <1>3, <1>p, <2>1 DEF ListRollouts, AdoptRollout, AdoptDrain, ScanSources
  <2>2. CASE ReadOwner(w)
    BY <1>3, <1>5, <1>p, <2>2 DEF ReadOwner
  <2> QED
    BY <1>8, <2>1, <2>2 DEF Rehydrate
<1>9. CASE NodeReconcile(w)
  BY <1>0, <1>2, <1>p, <1>9 DEF NodeReconcile, NodeWaitsForDrain, NodeFinalizes, NodeAtDecision,
     NodePreparesDrain, NodeReconcilesRole, RemoveFinalizer
<1>10. CASE ClusterReconcile(w)
  <2>1. CASE WaitRollout(w)
    <3>1. ASSUME ~Finish(w) PROVE MovesTo(w, "ordinary") /\ wk'[w].goal = "none"
      BY <1>0, <2>1, <3>1, OrdinaryMoves DEF WaitRollout
    <3> QED
      BY <1>3, <1>z, <3>1
  <2>2. CASE Converge(w)
    BY <1>3, <1>5, <1>p, <2>2 DEF Converge
  <2>3. CASE ClusterPreparesDrain(w) \/ ClusterRecoversOrphan(w) \/ ClusterRecoversRollout(w)
    BY <1>n, <1>2, <1>3, <1>4, <1>p, <2>3 DEF ClusterPreparesDrain, ClusterRecoversOrphan,
       ClusterRecoversRollout, Modes
  <2>4. CASE \/ ClusterProceeds(w) \/ ReconcileStorageRollout(w) \/ FinishNodeLocalPoolRollout(w)
             \/ OrdinaryReconcile(w)
    BY <1>2, <1>3, <1>4, <1>p, <2>4 DEF ClusterProceeds, ReconcileStorageRollout,
       FinishNodeLocalPoolRollout, OrdinaryReconcile, Modes
  <2> QED
    BY <1>10, <2>1, <2>2, <2>3, <2>4 DEF ClusterReconcile
<1>11. CASE Mutex(w) \/ WriteRole(w)
  BY <1>2, <1>3, <1>p, <1>11 DEF Mutex, CheckExclusions, TryAcquire, Release, Refused, WriteRole
<1>12. CASE DrainTransaction(w)
  <2>1. CASE ClearCompletedStorageDrain(w)
    <3>1. ASSUME ~Finish(w) PROVE MovesTo(w, "endCleared") /\ KeepsPurpose(w)
      BY <1>0, <2>1, <3>1, ClearMoves DEF ClearCompletedStorageDrain
    <3> QED
      BY <1>3, <1>c, <3>1
  <2>2. CASE EndCleared(w)
    BY <1>3, <1>6, <1>p, <2>2 DEF EndCleared
  <2>3. CASE ~(ClearCompletedStorageDrain(w) \/ EndCleared(w))
    BY <1>n, <1>12, <2>3 DEF DrainTransaction, BeginIntent, ResumeIntent, PersistIntent, ConfirmIntent,
       RequireStorageDrainBeforeApply, StagingFails, ApplyRemoval, ApplyFails, RecoverApplyFailure,
       EndAborted, ProveMigration, ObservationFails, MarkDone, At, DrainWork
  <2> QED
    BY <2>1, <2>2, <2>3
<1>13. CASE RolloutTransaction(w)
  <2>1. outdated \cap roles \subseteq Nodes \cup {None} /\ Snap(w).rollout \in Nodes \cup {None}
    BY <1>0 DEF TypeOK, OwnerObjects
  <2>2. CASE BeginRollout(w)
    BY <1>2, <1>7, <1>p, <2>1, <2>2 DEF BeginRollout
  <2>3. CASE PersistRollout(w)
    BY <1>2, <1>5, <1>p, <2>3 DEF PersistRollout
  <2>4. CASE ConfirmRollout(w) \/ DeletePod(w) \/ EndRollout(w)
    BY <1>2, <1>p, <2>4 DEF ConfirmRollout, DeletePod, EndRollout
  <2>5. CASE RecoverRollout(w)
    BY <1>2, <1>5, <1>7, <1>p, <2>1, <2>5 DEF RecoverRollout
  <2> QED
    BY <1>13, <2>2, <2>3, <2>4, <2>5 DEF RolloutTransaction
<1> QED
  BY <1>8, <1>9, <1>10, <1>11, <1>12, <1>13 DEF Step

\* A step of the GarageNode controller leaves its view of the transaction current.
LEMMA NodeStepView ==
  ASSUME TypeInv, AuthInv, NodesDoNotRoll, ViewIsCurrent, NEW w \in Workers, w = NodeWorker, Step(w)
  PROVE  ViewIsCurrent'
<1>0. TypeOK /\ owner' \in OwnerObjects /\ owner'.uid = owner.uid /\ wk[w].pc # "idle"
  BY NextTypeInv, StepPoint, StepOwnerStep DEF TypeInv, TypeOK, Next, OwnerStep
<1>1. CASE wk'[w].pc \in {"idle", "release"}
  BY <1>1 DEF ViewIsCurrent
<1>2. CASE wk'[w].snap = owner'
  BY <1>2 DEF ViewIsCurrent
<1>3. CASE wk'[w].pc \notin {"idle", "release"} /\ wk'[w].snap # owner'
  <2>p. {"release", "endAborted", "confirmDrain", "markDone"} \subseteq Points
    BY DEF Points, LockedPoints
  <2>g. ~Goto(w, "release")
    BY <1>0, <1>3, <2>p, GotoMoves DEF MovesTo
  <2>f. ~Finish(w)
    BY <1>0, <1>3, FinishMoves DEF MovesTo
  <2>s. ASSUME NEW l \in Points, wk' = [wk EXCEPT ![w].snap = owner', ![w].pc = l] PROVE FALSE
    BY <1>0, <1>3, <2>s, SnapMoves
  <2>1. ~(PersistIntent(w) \/ RecoverApplyFailure(w) \/ ProveMigration(w) \/ ObservationFails(w))
    BY <2>g, <2>p, <2>s DEF PersistIntent, RecoverApplyFailure, ProveMigration, ObservationFails
  <2>2. ~ClearCompletedStorageDrain(w)
    <3> SUFFICES ASSUME ClearCompletedStorageDrain(w) PROVE FALSE
      OBVIOUS
    <3>1. wk'[w].snap = owner'
      BY <1>0, <2>f, ClearMoves DEF ClearCompletedStorageDrain
    <3> QED
      BY <1>3, <3>1
  <2>3. owner'.drain = owner.drain
    BY <2>1, <2>2, OnlyDrainsWrite
  <2>4. wk'[w].snap = wk[w].snap
    BY <1>0, <1>3, StepMutexStep DEF MutexStep, Continues, IdleWorker
  <2>5. wk[w].pc # "release"
    <3> SUFFICES ASSUME wk[w].pc = "release" PROVE FALSE
      OBVIOUS
    <3>1. Release(w)
      <4>1. ~Rehydrate(w) /\ ~NodeReconcile(w) /\ ~ClusterReconcile(w)
        BY DEF Rehydrate, ListRollouts, AdoptRollout, ReadOwner, AdoptDrain, ScanSources,
           NodeReconcile, NodeWaitsForDrain, NodeFinalizes, NodePreparesDrain, NodeReconcilesRole,
           NodeAtDecision, RemoveFinalizer, ClusterReconcile, ClusterPreparesDrain,
           ClusterRecoversOrphan, ClusterRecoversRollout, ClusterProceeds, ClusterAtDecision,
           ReconcileStorageRollout, WaitRollout, Converge, FinishNodeLocalPoolRollout,
           OrdinaryReconcile, At
      <4>2. ~WriteRole(w) /\ ~DrainTransaction(w) /\ ~RolloutTransaction(w)
        BY DEF WriteRole, RolloutTransaction, BeginRollout, PersistRollout, ConfirmRollout, DeletePod,
           RecoverRollout, EndRollout, DrainTransaction, BeginIntent, ResumeIntent, PersistIntent,
           ConfirmIntent, RequireStorageDrainBeforeApply, StagingFails, ApplyRemoval, ApplyFails,
           RecoverApplyFailure, EndAborted, ProveMigration, ObservationFails, MarkDone,
           ClearCompletedStorageDrain, EndCleared, At
      <4> QED
        BY <4>1, <4>2 DEF Step, Mutex, CheckExclusions, TryAcquire, At
    <3> QED
      BY <2>f, <3>1 DEF Release, NodesDoNotRoll, RolloutGoals
  <2> QED
    BY <1>0, <2>3, <2>4, <2>5 DEF ViewIsCurrent
<1> QED
  BY <1>1, <1>2, <1>3

\* The program points about which NodeKnows says something.
KnowingPoints ==
  {"check", "acquire", "locked", "casDrain", "confirmDrain", "beforeApply", "apply", "prove"}

\* A move to any other point has nothing to know.
LEMMA QuietKnows ==
  ASSUME NEW w \in Workers, w = NodeWorker, NEW l \in Points \ KnowingPoints, MovesTo(w, l)
  PROVE  NodeKnows'
  BY DEF NodeKnows, TransactionIsOpen, OrdinarySeesNoDrain, ProofFollowsRemoval, MovesTo, KnowingPoints

\* A step of the GarageNode controller outside the mutex.
LEMMA FreeStepKnows ==
  ASSUME TypeInv, AuthInv, NodeKnows, NodesDoNotRoll, NEW w \in Workers, w = NodeWorker,
         Rehydrate(w) \/ NodeReconcile(w) \/ Mutex(w) \/ WriteRole(w)
  PROVE  NodeKnows'
<1>0. TypeOK /\ Snap(w) \in OwnerObjects /\ owner \in OwnerObjects
  BY SnapMarkers DEF TypeInv, TypeOK
<1>p. /\ {"idle", "adoptRollout", "readOwner", "adoptDrain", "scanSources", "decide",
          "removeFinalizer", "clearDrain", "release", "waitRollout"} \subseteq Points \ KnowingPoints
      /\ {"check", "acquire", "locked"} \subseteq Points
  BY DEF Points, FreePoints, LockedPoints, KnowingPoints
<1>n. wk[w].goal # "rollout"
  BY DEF NodesDoNotRoll, RolloutGoals
<1>1. ASSUME NEW l \in Points \ KnowingPoints, Goto(w, l) PROVE NodeKnows'
  BY <1>0, <1>1, GotoMoves, QuietKnows
<1>2. ASSUME Finish(w) PROVE NodeKnows'
  BY <1>0, <1>2, <1>p, FinishMoves, QuietKnows
<1>3. CASE Rehydrate(w)
  <2>1. CASE ListRollouts(w) \/ AdoptRollout(w) \/ AdoptDrain(w) \/ ScanSources(w)
    BY <1>1, <1>2, <1>p, <2>1 DEF ListRollouts, AdoptRollout, AdoptDrain, ScanSources
  <2>2. CASE ReadOwner(w)
    BY <1>0, <1>2, <1>p, <2>2, SnapMoves, QuietKnows DEF ReadOwner
  <2> QED
    BY <1>3, <2>1, <2>2 DEF Rehydrate
<1>4. CASE NodeReconcile(w)
  <2>1. CASE NodeWaitsForDrain(w) \/ NodeFinalizes(w) \/ RemoveFinalizer(w)
    BY <1>1, <1>2, <1>p, <2>1 DEF NodeWaitsForDrain, NodeFinalizes, RemoveFinalizer
  <2>2. CASE NodePreparesDrain(w)
    <3>1. ASSUME ~Finish(w)
          PROVE  /\ \E m \in Modes : Run(w, "drain", m)
                 /\ wk[w].snap.drain # None => ~wk[w].snap.drain.done
      BY <2>2, <3>1 DEF NodePreparesDrain, Modes, FrozenByDrain, NodeIsDrainActor,
         StorageDrainActorMatches, Snap
    <3>2. ASSUME ~Finish(w)
          PROVE  /\ MovesTo(w, "check") /\ wk'[w].snap = wk[w].snap
                 /\ wk[w].snap.drain # None => ~wk[w].snap.drain.done
      BY <1>0, <3>1, <3>2, RunMoves DEF Goals, KeepsSnap
    <3> QED
      BY <1>2, <3>2 DEF NodeKnows, TransactionIsOpen, OrdinarySeesNoDrain, ProofFollowsRemoval, MovesTo
  <2>3. CASE NodeReconcilesRole(w)
    <3>1. ASSUME ~Finish(w) PROVE \E m \in Modes : Run(w, "role", m)
      BY <2>3, <3>1 DEF NodeReconcilesRole, Modes
    <3>2. ASSUME ~Finish(w) PROVE MovesTo(w, "check") /\ wk'[w].goal = "role"
      BY <1>0, <3>1, <3>2, RunMoves DEF Goals
    <3> QED
      BY <1>2, <3>2 DEF NodeKnows, TransactionIsOpen, OrdinarySeesNoDrain, ProofFollowsRemoval, MovesTo
  <2> QED
    BY <1>4, <2>1, <2>2, <2>3 DEF NodeReconcile
<1>5. CASE CheckExclusions(w)
  <2>1. CASE ~Admitted(w)
    BY <1>2, <1>n, <1>5, <2>1 DEF CheckExclusions, Refused
  <2>2. CASE Admitted(w)
    <3>1. wk[w].mode # "ignoreDrain" => wk[w].snap.drain = None
      BY <2>2 DEF Admitted, AcquireLayoutMutation, AcquireIgnoringNodeLocalPoolRollout,
         AcquireDuringStorageRolloutPrepare, AcquireIgnoringStorageDrain, NoDrain,
         StorageDrainConditionActive, Snap
    <3>2. /\ MovesTo(w, "acquire") /\ wk'[w].snap = wk[w].snap /\ wk'[w].goal = wk[w].goal
          /\ wk'[w].mode = wk[w].mode /\ wk[w].pc = "check"
      BY <1>0, <1>5, <1>p, <2>2, GotoMoves DEF CheckExclusions, KeepsSnap, KeepsPurpose, At
    <3> QED
      BY <3>1, <3>2 DEF NodeKnows, TransactionIsOpen, OrdinarySeesNoDrain, ProofFollowsRemoval, MovesTo
  <2> QED
    BY <2>1, <2>2
<1>6. CASE TryAcquire(w)
  <2>1. CASE held
    BY <1>2, <1>n, <1>6, <2>1 DEF TryAcquire, Refused
  <2>2. CASE ~held
    <3>1. /\ MovesTo(w, "locked") /\ wk'[w].snap = wk[w].snap /\ wk'[w].goal = wk[w].goal
          /\ wk'[w].mode = wk[w].mode /\ wk[w].pc = "acquire"
      BY <1>0, <1>6, <1>p, <2>2, GotoMoves DEF TryAcquire, KeepsSnap, KeepsPurpose, At
    <3> QED
      BY <3>1 DEF NodeKnows, TransactionIsOpen, OrdinarySeesNoDrain, ProofFollowsRemoval, MovesTo
  <2> QED
    BY <2>1, <2>2
<1>7. CASE Release(w) \/ WriteRole(w)
  BY <1>1, <1>2, <1>p, <1>7 DEF Release, WriteRole
<1> QED
  BY <1>3, <1>4, <1>5, <1>6, <1>7 DEF Mutex

\* A step of the GarageNode controller inside its drain transaction.
LEMMA DrainStepKnows ==
  ASSUME TypeInv, AuthInv, NodeKnows, NEW w \in Workers, w = NodeWorker, DrainTransaction(w)
  PROVE  NodeKnows'
<1>0. TypeOK /\ Snap(w) \in OwnerObjects /\ owner \in OwnerObjects /\ owner' \in OwnerObjects
  BY SnapMarkers, DrainTransactionTypeInv DEF TypeInv, TypeOK
<1>o. wk[w].obj \in Nodes /\ wk[w].obj # Owner
  <2>1. Step(w)
    BY DEF Step
  <2> QED
    BY <2>1, StepPoint, ConstantsAssumption DEF AuthInv, Assigned
<1>t. Target(wk[w].obj) = {wk[w].obj}
  BY <1>o DEF Target
<1>p. /\ {"idle", "release", "revert", "endAborted", "markDone", "endCleared"} \subseteq Points \ KnowingPoints
      /\ {"casDrain", "confirmDrain", "beforeApply", "apply", "prove"} \subseteq Points
  BY DEF Points, FreePoints, LockedPoints, KnowingPoints
<1>1. ASSUME NEW l \in Points \ KnowingPoints, Goto(w, l) PROVE NodeKnows'
  BY <1>0, <1>1, GotoMoves, QuietKnows
<1>2. ASSUME Finish(w) PROVE NodeKnows'
  BY <1>0, <1>2, <1>p, FinishMoves, QuietKnows
<1>3. ASSUME NEW l \in Points \ KnowingPoints, wk' = [wk EXCEPT ![w].snap = owner', ![w].pc = l]
      PROVE  NodeKnows'
  BY <1>0, <1>3, SnapMoves, QuietKnows
<1>4. ASSUME NEW l \in {"beforeApply", "apply"}, MovesTo(w, l), ~wk'[w].snap.drain.done PROVE NodeKnows'
  BY <1>4 DEF NodeKnows, TransactionIsOpen, OrdinarySeesNoDrain, ProofFollowsRemoval, MovesTo
<1>5. ASSUME MovesTo(w, "prove"), KeepsObject(w), wk[w].obj \notin roles' PROVE NodeKnows'
  BY <1>5 DEF NodeKnows, TransactionIsOpen, OrdinarySeesNoDrain, ProofFollowsRemoval, MovesTo, KeepsObject
<1>a. ASSUME MovesTo(w, AfterIntent(wk[w].obj)), KeepsObject(w), KeepsSnap(w), roles' = roles,
             ~wk[w].snap.drain.done
      PROVE  NodeKnows'
  <2>1. CASE wk[w].obj \in roles
    <3>1. AfterIntent(wk[w].obj) = "beforeApply"
      BY <1>t, <2>1 DEF AfterIntent
    <3> QED
      BY <1>4, <1>a, <3>1 DEF KeepsSnap
  <2>2. CASE wk[w].obj \notin roles
    <3>1. AfterIntent(wk[w].obj) = "prove"
      BY <1>t, <2>2 DEF AfterIntent
    <3> QED
      BY <1>5, <1>a, <2>2, <3>1
  <2> QED
    BY <2>1, <2>2
<1>b. AfterIntent(wk[w].obj) \in Points
  BY <1>p DEF AfterIntent
<1>6. CASE BeginIntent(w)
  <2> DEFINE next == [actor |-> wk[w].obj, tx |-> NewTransactionID, done |-> FALSE]
  <2>1. next \in Drains /\ ~next.done
    BY <1>0, <1>6 DEF BeginIntent, NewTransactionID, Drains, TypeOK, Reconciles
  <2>2. wk' = [wk EXCEPT ![w].intent = next, ![w].pc = "casDrain"] \/ Goto(w, "release")
    BY <1>6 DEF BeginIntent
  <2> HIDE DEF next
  <2>3. ASSUME ~Goto(w, "release") PROVE MovesTo(w, "casDrain") /\ ~wk'[w].intent.done
    BY <1>0, <1>p, <2>1, <2>2, <2>3, IntentMoves
  <2> QED
    BY <1>1, <1>p, <2>3 DEF NodeKnows, TransactionIsOpen, OrdinarySeesNoDrain, ProofFollowsRemoval, MovesTo
<1>7. CASE ResumeIntent(w)
  <2>1. /\ wk[w].pc = "locked" /\ wk[w].goal = "drain" /\ wk[w].snap.drain # None /\ roles' = roles
        /\ Snap(w).drain \in Drains \cup {None}
    BY <1>0, <1>7 DEF ResumeIntent, At, Snap, garage, OwnerObjects
  <2>2. ~wk[w].snap.drain.done
    BY <2>1 DEF NodeKnows, TransactionIsOpen
  <2>3. ASSUME ~Goto(w, "release")
        PROVE  MovesTo(w, AfterIntent(wk[w].obj)) /\ KeepsObject(w) /\ KeepsSnap(w)
    BY <1>0, <1>7, <1>b, <2>1, <2>3, IntentMoves DEF ResumeIntent, KeepsPurpose
  <2> QED
    BY <1>1, <1>a, <1>p, <2>1, <2>2, <2>3
<1>8. CASE PersistIntent(w)
  <2>1. CASE Goto(w, "release")
    BY <1>1, <1>p, <2>1
  <2>2. CASE ~Goto(w, "release")
    <3>1. /\ owner' = [owner EXCEPT !.drain = wk[w].intent] /\ wk[w].pc = "casDrain"
          /\ wk' = [wk EXCEPT ![w].snap = owner', ![w].pc = "confirmDrain"]
      BY <1>8, <2>2 DEF PersistIntent, At
    <3>2. MovesTo(w, "confirmDrain") /\ wk'[w].snap = owner'
      BY <1>0, <1>p, <3>1, SnapMoves
    <3>3. owner'.drain = wk[w].intent /\ ~wk[w].intent.done
      BY <1>0, <3>1 DEF OwnerObjects, NodeKnows, TransactionIsOpen
    <3> QED
      BY <3>2, <3>3 DEF NodeKnows, TransactionIsOpen, OrdinarySeesNoDrain, ProofFollowsRemoval, MovesTo
  <2> QED
    BY <2>1, <2>2
<1>9. CASE ConfirmIntent(w)
  <2>1. wk[w].pc = "confirmDrain" /\ roles' = roles
    BY <1>9 DEF ConfirmIntent, At, garage
  <2>2. ~wk[w].snap.drain.done
    BY <2>1 DEF NodeKnows, TransactionIsOpen
  <2>3. ASSUME ~Goto(w, "release")
        PROVE  MovesTo(w, AfterIntent(wk[w].obj)) /\ KeepsObject(w) /\ KeepsSnap(w)
    BY <1>0, <1>9, <1>b, <2>3, GotoMoves DEF ConfirmIntent, KeepsPurpose
  <2> QED
    BY <1>1, <1>a, <1>p, <2>1, <2>2, <2>3
<1>10. CASE RequireStorageDrainBeforeApply(w)
  <2>1. wk[w].pc = "beforeApply" /\ (Goto(w, "revert") \/ Goto(w, "apply"))
    BY <1>10 DEF RequireStorageDrainBeforeApply, At
  <2>2. ASSUME Goto(w, "apply") PROVE MovesTo(w, "apply") /\ wk'[w].snap = wk[w].snap
    BY <1>0, <1>p, <2>2, GotoMoves DEF KeepsSnap
  <2>3. ~wk[w].snap.drain.done
    BY <2>1 DEF NodeKnows, TransactionIsOpen
  <2> QED
    BY <1>1, <1>4, <1>p, <2>1, <2>2, <2>3
<1>11. CASE ApplyRemoval(w)
  <2>1. wk[w].obj \notin roles' /\ (Goto(w, "revert") \/ Goto(w, "prove"))
    BY <1>11, <1>t DEF ApplyRemoval
  <2>2. ASSUME Goto(w, "prove") PROVE MovesTo(w, "prove") /\ KeepsObject(w)
    BY <1>0, <1>p, <2>2, GotoMoves DEF KeepsPurpose
  <2> QED
    BY <1>1, <1>5, <1>p, <2>1, <2>2
<1>12. CASE \/ StagingFails(w) \/ ApplyFails(w) \/ EndAborted(w) \/ MarkDone(w) \/ ObservationFails(w)
  BY <1>1, <1>p, <1>12 DEF StagingFails, ApplyFails, EndAborted, MarkDone, ObservationFails
<1>13. CASE RecoverApplyFailure(w) \/ ProveMigration(w)
  BY <1>1, <1>3, <1>p, <1>13 DEF RecoverApplyFailure, ProveMigration
<1>14. CASE ClearCompletedStorageDrain(w)
  <2>1. ASSUME ~Finish(w) PROVE MovesTo(w, "endCleared")
    BY <1>0, <1>14, <2>1, ClearMoves DEF ClearCompletedStorageDrain
  <2> QED
    BY <1>2, <1>p, <2>1, QuietKnows
<1>15. CASE EndCleared(w)
  BY <1>2, <1>o, <1>15 DEF EndCleared
<1> QED
  BY <1>6, <1>7, <1>8, <1>9, <1>10, <1>11, <1>12, <1>13, <1>14, <1>15 DEF DrainTransaction

-----------------------------------------------------------------------------
(* The steps as SafeRemoval sees them.                                     *)

SameLayout == UNCHANGED <<roles, migrating>>
SameDrain == owner'.drain = owner.drain

Opens ==
  /\ owner.drain = None /\ migrating = {} /\ SameLayout
  /\ owner'.drain \in Drains /\ ~owner'.drain.done /\ owner'.drain.actor \in Nodes
Removes ==
  /\ owner.drain \in Drains /\ ~owner.drain.done /\ SameDrain
  /\ \E gone \in SUBSET (Target(owner.drain.actor) \cap roles) :
       roles' = roles \ gone /\ migrating' = migrating \cup gone
Rejoins ==
  /\ owner.drain = None /\ SameDrain
  /\ \E n \in Nodes : roles' = roles \cup {n} /\ migrating' = migrating \ {n}
Arrives ==
  /\ SameDrain /\ roles' = roles
  /\ \E n \in Nodes : migrating' = migrating \ {n}
Judges ==
  /\ owner.drain \in Drains /\ SameLayout
  /\ \E b \in BOOLEAN :
       /\ owner'.drain = [owner.drain EXCEPT !.done = b]
       /\ b => Target(owner.drain.actor) \cap (roles \cup migrating) = {}
Closes == owner.drain \in Drains /\ migrating = {} /\ owner'.drain = None /\ SameLayout
Replaces == owner.drain = None /\ owner'.drain = None /\ roles' = Nodes /\ migrating' = {}
Stutters == SameDrain /\ SameLayout

RemovalStep ==
  Opens \/ Removes \/ Rejoins \/ Arrives \/ Judges \/ Closes \/ Replaces \/ Stutters

\* What the durable transaction may be.
DrainOfNode == owner.drain # None => owner.drain.actor \in Nodes

\* A step of those kinds keeps the blocks on the move covered by the transaction.
LEMMA RemovalStepCovers ==
  ASSUME TypeOK, DrainOfNode, BlocksAreCovered, RemovalStep
  PROVE  DrainOfNode' /\ BlocksAreCovered'
<1>0. owner.drain \in Drains \cup {None} /\ None \notin Drains
  BY NoneAssumption DEF TypeOK, OwnerObjects
<1> USE DEF DrainOfNode, BlocksAreCovered, SameLayout, SameDrain
<1>1. CASE Opens
  BY <1>0, <1>1 DEF Opens
<1>2. CASE Removes
  BY <1>0, <1>2 DEF Removes
<1>3. CASE Rejoins
  BY <1>0, <1>3 DEF Rejoins
<1>4. CASE Arrives
  BY <1>0, <1>4 DEF Arrives
<1>5. CASE Judges
  <2>1. PICK b \in BOOLEAN :
          /\ owner'.drain = [owner.drain EXCEPT !.done = b]
          /\ b => Target(owner.drain.actor) \cap (roles \cup migrating) = {}
    BY <1>5 DEF Judges
  <2>2. owner.drain \in Drains /\ owner'.drain.actor = owner.drain.actor /\ owner'.drain.done = b
        /\ owner'.drain \in Drains
    BY <1>5, <2>1 DEF Judges, Drains
  <2> QED
    BY <1>0, <1>5, <2>1, <2>2 DEF Judges
<1>6. CASE Closes
  BY <1>0, <1>6 DEF Closes
<1>7. CASE Replaces
  BY <1>0, <1>7 DEF Replaces
<1>8. CASE Stutters
  BY <1>0, <1>8 DEF Stutters
<1> QED
  BY <1>1, <1>2, <1>3, <1>4, <1>5, <1>6, <1>7, <1>8 DEF RemovalStep

\* The record of SafeRemoval.
Record ==
  IF owner.drain = None THEN None
  ELSE [names |-> Target(owner.drain.actor), tx |-> owner.drain.tx, proven |-> owner.drain.done]

\* A step of those kinds is a step of SafeRemoval.
LEMMA RemovalStepImplements ==
  ASSUME TypeOK, DrainOfNode, BlocksAreCovered, RemovalStep
  PROVE  [Removal!Next]_(Removal!vars)
<1>0. owner.drain \in Drains \cup {None} /\ None \notin Drains /\ roles \subseteq Nodes
  BY NoneAssumption DEF TypeOK, OwnerObjects
<1>1. ASSUME owner.drain \in Drains
      PROVE  /\ Record = [names |-> Target(owner.drain.actor), tx |-> owner.drain.tx,
                          proven |-> owner.drain.done]
             /\ Record # None /\ Record.names = Target(owner.drain.actor)
             /\ Record.proven = owner.drain.done /\ Record.names \subseteq Nodes
  <2>1. Record = [names |-> Target(owner.drain.actor), tx |-> owner.drain.tx,
                  proven |-> owner.drain.done]
    BY <1>0, <1>1 DEF Record
  <2>2. Target(owner.drain.actor) \subseteq Nodes /\ owner.drain.tx \in Transactions
        /\ owner.drain.done \in BOOLEAN
    BY <1>1 DEF Drains, Target, Actors
  <2>3. Record \in [names : SUBSET Nodes, tx : Transactions, proven : BOOLEAN]
    BY <2>1, <2>2
  <2> QED
    BY <2>1, <2>2, <2>3, NoneAssumption
<1>n. ASSUME owner.drain = None PROVE Record = None
  BY <1>n DEF Record
<1>s. SameDrain => Record' = Record
  BY DEF SameDrain, Record
<1>e. ASSUME owner'.drain = None PROVE Record' = None
  BY <1>e DEF Record
<1>2. CASE Opens
  <2> DEFINE d == owner'.drain
  <2>1. /\ Target(d.actor) \in SUBSET Nodes /\ d.tx \in Transactions /\ d.done = FALSE /\ d # None
    BY <1>0, <1>2 DEF Opens, Drains, Target, Actors
  <2>2. Record' = [names |-> Target(d.actor), tx |-> d.tx, proven |-> FALSE]
    BY <2>1 DEF Record
  <2>3. Removal!Open(Target(d.actor), d.tx)
    BY <1>2, <1>n, <2>2 DEF Removal!Open, Opens, SameLayout, Record
  <2> QED
    BY <2>1, <2>3 DEF Removal!Next
<1>3. CASE Removes
  <2>1. PICK gone \in SUBSET (Target(owner.drain.actor) \cap roles) :
          roles' = roles \ gone /\ migrating' = migrating \cup gone
    BY <1>3 DEF Removes
  <2>2. /\ Record # None /\ ~Record.proven /\ gone \subseteq Record.names /\ Record' = Record
        /\ gone \cap roles = gone /\ gone \in SUBSET Nodes
    BY <1>0, <1>1, <1>3, <1>s, <2>1 DEF Removes
  <2>3. Removal!Remove(gone)
    BY <2>1, <2>2 DEF Removal!Remove, Record
  <2> QED
    BY <2>2, <2>3 DEF Removal!Next
<1>4. CASE Rejoins
  <2>1. PICK n \in Nodes : roles' = roles \cup {n} /\ migrating' = migrating \ {n}
    BY <1>4 DEF Rejoins
  <2>2. Record = None /\ Record' = Record
    BY <1>4, <1>n, <1>s DEF Rejoins
  <2>3. Removal!Rejoin(n)
    BY <2>1, <2>2 DEF Removal!Rejoin, Record
  <2> QED
    BY <2>3 DEF Removal!Next
<1>5. CASE Arrives
  <2>1. PICK n \in Nodes : migrating' = migrating \ {n}
    BY <1>5 DEF Arrives
  <2>2. Record' = Record /\ roles' = roles
    BY <1>5, <1>s DEF Arrives
  <2>3. Removal!Arrive(n)
    BY <2>1, <2>2 DEF Removal!Arrive, Record
  <2> QED
    BY <2>3 DEF Removal!Next
<1>6. CASE Judges
  <2>1. PICK b \in BOOLEAN :
          /\ owner'.drain = [owner.drain EXCEPT !.done = b]
          /\ b => Target(owner.drain.actor) \cap (roles \cup migrating) = {}
    BY <1>6 DEF Judges
  <2>d. owner.drain \in Drains /\ roles' = roles /\ migrating' = migrating
    BY <1>6 DEF Judges, SameLayout
  <2>2. /\ owner'.drain # None /\ owner'.drain.actor = owner.drain.actor
        /\ owner'.drain.tx = owner.drain.tx /\ owner'.drain.done = b
    BY <1>0, <2>1, <2>d DEF Drains
  <2>3. Record' = [Record EXCEPT !.proven = b]
    <3>1. Record' = [names |-> Target(owner.drain.actor), tx |-> owner.drain.tx, proven |-> b]
      BY <2>2 DEF Record
    <3> QED
      BY <1>1, <2>d, <3>1
  <2>4. CASE b
    <3>1. Removal!Prove
      <4>1. Record # None /\ Record.names \cap (roles \cup migrating) = {}
        BY <1>1, <2>1, <2>4, <2>d
      <4>2. Record' = [Record EXCEPT !.proven = TRUE]
        BY <2>3, <2>4
      <4> QED
        BY <2>d, <4>1, <4>2 DEF Removal!Prove, Record
    <3> QED
      BY <3>1 DEF Removal!Next
  <2>5. CASE ~b
    <3>1. Removal!Doubt
      <4>1. Record # None
        BY <1>1, <2>d
      <4>2. Record' = [Record EXCEPT !.proven = FALSE]
        BY <2>3, <2>5
      <4> QED
        BY <2>d, <4>1, <4>2 DEF Removal!Doubt, Record
    <3> QED
      BY <3>1 DEF Removal!Next
  <2> QED
    BY <2>4, <2>5
<1>7. CASE Closes
  <2>1. Record # None /\ Record' = None /\ migrating = {} /\ roles' = roles /\ migrating' = migrating
    BY <1>1, <1>7, <1>e DEF Closes, SameLayout
  <2>2. Removal!Close
    BY <2>1 DEF Removal!Close, Record
  <2> QED
    BY <2>2 DEF Removal!Next
<1>8. CASE Replaces
  <2>1. Record = None /\ Record' = None /\ roles' = Nodes /\ migrating' = {}
    BY <1>8, <1>n, <1>e DEF Replaces
  <2>2. Removal!Replaced
    BY <2>1 DEF Removal!Replaced, Record
  <2> QED
    BY <2>2 DEF Removal!Next
<1>9. CASE Stutters
  <2>1. Record' = Record /\ roles' = roles /\ migrating' = migrating
    BY <1>9, <1>s DEF Stutters, SameLayout
  <2> QED
    BY <2>1 DEF Removal!vars, Record
<1> QED
  BY <1>2, <1>3, <1>4, <1>5, <1>6, <1>7, <1>8, <1>9 DEF RemovalStep

\* A cleared transaction was complete, so nothing it removed is still on the move.
LEMMA ClearingCloses ==
  ASSUME TypeInv, AuthInv, BlocksAreCovered, NEW w \in Workers, ClearCompletedStorageDrain(w)
  PROVE  RemovalStep
<1>0. owner \in OwnerObjects /\ OwnCompletion(w)
  BY DEF TypeInv, TypeOK, AuthInv
<1>1. SameLayout
  BY DEF ClearCompletedStorageDrain, garage, SameLayout
<1>2. CASE SameDrainRevision(w)
  <2>1. /\ owner.drain = wk[w].snap.drain /\ wk[w].pc = "clearDrain"
        /\ owner' = [owner EXCEPT !.drain = None]
    BY <1>2 DEF ClearCompletedStorageDrain, SameDrainRevision, Snap, At
  <2>2. owner'.drain = None /\ owner.drain \in Drains /\ owner.drain.done
    BY <1>0, <2>1 DEF OwnerObjects, OwnCompletion
  <2>3. migrating = {}
    BY <2>2, NoneAssumption DEF BlocksAreCovered
  <2> QED
    BY <1>1, <2>2, <2>3 DEF RemovalStep, Closes
<1>3. CASE ~SameDrainRevision(w)
  BY <1>1, <1>3 DEF ClearCompletedStorageDrain, RemovalStep, Stutters, SameDrain
<1> QED
  BY <1>2, <1>3

\* The cluster controller only clears completed transactions.
LEMMA ClusterStepRemoval ==
  ASSUME TypeInv, AuthInv, DrainInv, NEW w \in Workers, w = ClusterWorker, Step(w)
  PROVE  RemovalStep
<1>0. wk[w].pc \notin DrainWork /\ wk[w].obj = Owner /\ Owner \notin Nodes
      /\ roles \subseteq Nodes /\ migrating \subseteq Nodes /\ BlocksAreCovered
  BY ConstantsAssumption DEF DrainInv, NodeDrains, ClusterDoesNotDrain, AuthInv, Assigned, TypeInv, TypeOK
<1>1. /\ ~PersistIntent(w) /\ ~RecoverApplyFailure(w) /\ ~ProveMigration(w) /\ ~ObservationFails(w)
      /\ ~ApplyRemoval(w)
  BY <1>0 DEF PersistIntent, RecoverApplyFailure, ProveMigration, ObservationFails, ApplyRemoval,
     At, DrainWork
<1>2. CASE ClearCompletedStorageDrain(w)
  BY <1>0, <1>2, ClearingCloses
<1>3. CASE ~ClearCompletedStorageDrain(w)
  <2>1. SameDrain
    BY <1>1, <1>3, OnlyDrainsWrite DEF SameDrain
  <2>2. SameLayout
    <3>1. CASE WriteRole(w)
      BY <1>0, <3>1 DEF WriteRole, SameLayout, garage
    <3> QED
      BY <1>1, <3>1, OnlyApplyAndWriteRole DEF SameLayout
  <2> QED
    BY <2>1, <2>2 DEF RemovalStep, Stutters
<1> QED
  BY <1>2, <1>3

\* Every step of the GarageNode controller is a step of SafeRemoval.
LEMMA NodeStepRemoval ==
  ASSUME TypeInv, AuthInv, DrainInv, NEW w \in Workers, w = NodeWorker, Step(w)
  PROVE  RemovalStep
<1>0. /\ TypeOK /\ owner \in OwnerObjects /\ BlocksAreCovered /\ DrainKnown(w)
      /\ OwnDrain(w) /\ ApplyIsCurrent(w) /\ wk[w].snap \in OwnerObjects
      /\ wk[w].intent \in Drains \cup {None}
  BY SnapMarkers DEF TypeInv, TypeOK, DrainInv, AuthInv, Snap, Reconciles
<1>o. wk[w].obj \in Nodes /\ wk[w].obj # Owner /\ wk[w].pc # "idle"
  BY StepPoint, ConstantsAssumption DEF AuthInv, Assigned
<1>t. Target(wk[w].obj) = {wk[w].obj}
  BY <1>o DEF Target
<1>k. TransactionIsOpen /\ OrdinarySeesNoDrain /\ ProofFollowsRemoval /\ ViewIsCurrent
  BY DEF DrainInv, NodeKnows
<1>c. wk[w].pc \in CoveredPoints => wk[w].snap.drain # None /\ wk[w].snap.drain.actor = wk[w].obj
  BY <1>0 DEF OwnDrain
<1>l. ~ApplyRemoval(w) /\ ~WriteRole(w) => SameLayout
  BY OnlyApplyAndWriteRole DEF SameLayout
<1>1. CASE PersistIntent(w)
  <2>1. SameLayout /\ wk[w].pc = "casDrain"
    BY <1>1 DEF PersistIntent, garage, At, SameLayout
  <2>2. CASE SameDrainRevision(w)
    <3>1. /\ owner.drain = None /\ wk[w].intent \in Drains /\ wk[w].intent.actor = wk[w].obj
          /\ ~wk[w].intent.done
      BY <1>0, <1>k, <2>1, <2>2 DEF SameDrainRevision, Snap, OwnDrain, DrainKnown, TransactionIsOpen
    <3>2. owner'.drain = wk[w].intent
      BY <1>0, <1>1, <2>2 DEF PersistIntent, OwnerObjects
    <3>3. migrating = {}
      BY <1>0, <3>1 DEF BlocksAreCovered
    <3> QED
      BY <1>o, <2>1, <3>1, <3>2, <3>3 DEF RemovalStep, Opens
  <2>3. CASE ~SameDrainRevision(w)
    BY <1>1, <2>1, <2>3 DEF PersistIntent, RemovalStep, Stutters, SameDrain
  <2> QED
    BY <2>2, <2>3
<1>2. CASE RecoverApplyFailure(w)
  <2>1. SameLayout /\ wk[w].pc = "revert"
    BY <1>2 DEF RecoverApplyFailure, garage, At, SameLayout
  <2>2. CASE owner' = owner
    BY <2>1, <2>2 DEF RemovalStep, Stutters, SameDrain
  <2>3. CASE owner' # owner
    <3>1. wk[w].obj \in roles /\ owner.drain = wk[w].snap.drain /\ owner' = [owner EXCEPT !.drain = None]
      BY <1>2, <1>t, <2>3 DEF RecoverApplyFailure, SameDrainRevision, Snap
    <3>2. owner.drain # None /\ owner.drain.actor = wk[w].obj
      BY <1>c, <2>1, <3>1 DEF CoveredPoints
    <3>3. owner'.drain = None /\ owner.drain \in Drains
      BY <1>0, <3>1, <3>2 DEF OwnerObjects
    <3>4. migrating = {}
      BY <1>0, <1>t, <3>1, <3>2 DEF BlocksAreCovered
    <3> QED
      BY <2>1, <3>3, <3>4 DEF RemovalStep, Closes
  <2> QED
    BY <2>2, <2>3
<1>3. CASE ProveMigration(w) \/ ObservationFails(w)
  <2>1. SameLayout /\ wk[w].pc = "prove"
    BY <1>3 DEF ProveMigration, ObservationFails, garage, At, SameLayout
  <2>2. CASE ~MayObserve(w)
    BY <1>3, <2>1, <2>2 DEF ProveMigration, ObservationFails, RemovalStep, Stutters, SameDrain
  <2>3. CASE MayObserve(w)
    <3>1. owner.drain = wk[w].snap.drain /\ owner.uid = wk[w].snap.uid
      BY <2>3 DEF MayObserve, SameDrainRevision, Snap
    <3>2. owner.drain \in Drains /\ owner.drain.actor = wk[w].obj /\ wk[w].obj \notin roles
      BY <1>0, <1>c, <1>k, <2>1, <3>1 DEF OwnerObjects, CoveredPoints, ProofFollowsRemoval
    <3>3. PICK b \in BOOLEAN :
            /\ owner' = [owner EXCEPT !.drain.done = b]
            /\ b => Target(wk[w].obj) \cap migrating = {}
      BY <1>3, <2>3 DEF ProveMigration, ObservationFails
    <3>4. owner'.drain = [owner.drain EXCEPT !.done = b]
      BY <1>0, <3>3 DEF OwnerObjects
    <3>5. b => Target(owner.drain.actor) \cap (roles \cup migrating) = {}
      BY <1>t, <3>2, <3>3
    <3> QED
      BY <2>1, <3>2, <3>4, <3>5 DEF RemovalStep, Judges
  <2> QED
    BY <2>2, <2>3
<1>4. CASE ClearCompletedStorageDrain(w)
  BY <1>0, <1>4, ClearingCloses
<1>5. CASE ApplyRemoval(w)
  <2>1. /\ wk[w].pc = "apply" /\ owner.uid = wk[w].snap.uid /\ owner' = owner
        /\ roles' = roles \ (Target(wk[w].obj) \cap roles)
        /\ migrating' = migrating \cup (Target(wk[w].obj) \cap roles)
    BY <1>5 DEF ApplyRemoval, At, Snap
  <2>2. owner.drain = wk[w].snap.drain /\ owner.drain # None /\ owner.drain.actor = wk[w].obj
        /\ ~owner.drain.done
    BY <1>0, <1>c, <1>k, <2>1 DEF ApplyIsCurrent, CoveredPoints, TransactionIsOpen
  <2>3. owner.drain \in Drains
    BY <1>0, <2>2 DEF OwnerObjects
  <2> DEFINE gone == Target(owner.drain.actor) \cap roles
  <2>4. gone \in SUBSET (Target(owner.drain.actor) \cap roles)
        /\ roles' = roles \ gone /\ migrating' = migrating \cup gone
    BY <2>1, <2>2
  <2> QED
    BY <2>1, <2>2, <2>3, <2>4 DEF RemovalStep, Removes, SameDrain
<1>6. CASE WriteRole(w)
  <2>1. owner' = owner /\ wk[w].pc = "locked"
    BY <1>6 DEF WriteRole, At
  <2>2. CASE SameLayout
    BY <2>1, <2>2 DEF RemovalStep, Stutters, SameDrain
  <2>3. CASE ~SameLayout
    <3>1. /\ wk[w].mode # "ignoreDrain" /\ owner.uid = wk[w].snap.uid
          /\ roles' = roles \cup ({wk[w].obj} \cap Nodes) /\ migrating' = migrating \ {wk[w].obj}
      BY <1>6, <2>3 DEF WriteRole, Snap, SameLayout, garage
    <3>2. owner.drain = None
      BY <1>k, <2>1, <3>1 DEF OrdinarySeesNoDrain, ViewIsCurrent
    <3>3. roles' = roles \cup {wk[w].obj}
      BY <1>o, <3>1
    <3> QED
      BY <1>o, <2>1, <3>1, <3>2, <3>3 DEF RemovalStep, Rejoins, SameDrain
  <2> QED
    BY <2>2, <2>3
<1>7. CASE ~(\/ PersistIntent(w) \/ RecoverApplyFailure(w) \/ ProveMigration(w) \/ ObservationFails(w)
             \/ ClearCompletedStorageDrain(w) \/ ApplyRemoval(w) \/ WriteRole(w))
  BY <1>7, <1>l, OnlyDrainsWrite DEF RemovalStep, Stutters, SameDrain
<1> QED
  BY <1>1, <1>2, <1>3, <1>4, <1>5, <1>6, <1>7

\* So is every step of the users, Garage, kubelet and the process.
LEMMA EnvironmentRemoval ==
  ASSUME TypeInv, DrainInv, Environment
  PROVE  RemovalStep
<1>0. owner \in OwnerObjects /\ Owner \notin Nodes /\ (owner.drain # None => owner.drain.actor \in Nodes)
  BY ConstantsAssumption DEF TypeInv, TypeOK, DrainInv, NodeDrains
<1>1. CASE OwnerRecreated
  BY <1>0, <1>1 DEF OwnerRecreated, FreshOwner, RemovalStep, Replaces
<1>2. CASE \E n \in Nodes : BlocksMigrate(n)
  BY <1>2 DEF BlocksMigrate, RemovalStep, Arrives, SameDrain
<1>3. CASE SpecChange
  BY <1>0, <1>3 DEF SpecChange, RemovalStep, Stutters, SameDrain, SameLayout, garage, OwnerObjects
<1>4. CASE ~(OwnerRecreated \/ SpecChange \/ \E n \in Nodes : BlocksMigrate(n))
  BY <1>4 DEF Environment, RequestDrain, WithdrawDrain, DeleteNode, PodReady, HistorySettles, Crash,
     garage, RemovalStep, Stutters, SameDrain, SameLayout
<1> QED
  BY <1>1, <1>2, <1>3, <1>4

\* Every step, given what is known before it.
LEMMA NextRemoval ==
  ASSUME TypeInv, AuthInv, DrainInv, [Next]_vars
  PROVE  RemovalStep
<1>1. ASSUME NEW w \in Workers, Step(w) PROVE RemovalStep
  BY <1>1, ClusterStepRemoval, NodeStepRemoval DEF Workers
<1>2. ASSUME NEW w \in Workers, NEW o \in Actors, StartReconcile(w, o) PROVE RemovalStep
  BY <1>2 DEF StartReconcile, garage, RemovalStep, Stutters, SameDrain, SameLayout
<1>3. CASE Environment
  BY <1>3, EnvironmentRemoval
<1>4. CASE UNCHANGED vars
  BY <1>4 DEF vars, RemovalStep, Stutters, SameDrain, SameLayout
<1> QED
  BY <1>1, <1>2, <1>3, <1>4 DEF Next

-----------------------------------------------------------------------------
(* The invariant under the whole next-state relation.                      *)

\* Initially there is no drain.
LEMMA InitDrainInv == Init => DrainInv
<1> SUFFICES ASSUME Init PROVE DrainInv
  OBVIOUS
<1>1. /\ wk[ClusterWorker] = IdleWorker /\ wk[NodeWorker] = IdleWorker
      /\ owner.drain = None /\ wants = {} /\ migrating = {}
  BY DEF Init, Workers, FreshOwner
<1>2. IdleWorker.pc = "idle" /\ IdleWorker.goal = "none" /\ ~IdleWorker.want
  BY DEF IdleWorker
<1>3. NodeDrains
  BY <1>1, <1>2 DEF NodeDrains, ClusterDoesNotDrain, DrainWork
<1>4. ViewIsCurrent /\ NodeKnows
  BY <1>1, <1>2 DEF ViewIsCurrent, NodeKnows, TransactionIsOpen, OrdinarySeesNoDrain, ProofFollowsRemoval
<1>5. BlocksAreCovered
  BY <1>1 DEF BlocksAreCovered
<1> QED
  BY <1>3, <1>4, <1>5 DEF DrainInv

\* Nobody annotates the GarageCluster.
LEMMA OwnerIsNotWanted ==
  ASSUME Owner \notin Requestable, TypeInv, Owner \notin wants, [Next]_vars
  PROVE  Owner \notin wants'
<1>1. CASE \E w \in Workers : Step(w)
  <2>1. PICK w \in Workers : Step(w)
    BY <1>1
  <2>2. wants' \subseteq wants
    <3>1. CASE Rehydrate(w) \/ NodeReconcile(w)
      BY <3>1 DEF Rehydrate, ListRollouts, AdoptRollout, ReadOwner, AdoptDrain, ScanSources,
         NodeReconcile, NodeWaitsForDrain, NodeFinalizes, NodePreparesDrain, NodeReconcilesRole,
         RemoveFinalizer, objects
    <3>2. CASE ClusterReconcile(w)
      BY <3>2 DEF ClusterReconcile, ClusterPreparesDrain, ClusterRecoversOrphan,
         ClusterRecoversRollout, ClusterProceeds, ReconcileStorageRollout,
         WaitRollout, Converge, FinishNodeLocalPoolRollout, OrdinaryReconcile, objects
    <3>3. CASE Mutex(w) \/ WriteRole(w) \/ RolloutTransaction(w)
      BY <3>3 DEF Mutex, CheckExclusions, TryAcquire, Release, WriteRole, RolloutTransaction,
         BeginRollout, PersistRollout, ConfirmRollout, DeletePod, RecoverRollout, EndRollout, objects
    <3>4. CASE DrainTransaction(w)
      BY <3>4 DEF DrainTransaction, BeginIntent, ResumeIntent, PersistIntent, ConfirmIntent,
         RequireStorageDrainBeforeApply, StagingFails, ApplyRemoval, ApplyFails, RecoverApplyFailure,
         EndAborted, ProveMigration, ObservationFails, MarkDone, ClearCompletedStorageDrain,
         EndCleared, objects
    <3> QED
      BY <2>1, <3>1, <3>2, <3>3, <3>4 DEF Step
  <2> QED
    BY <2>2
<1>2. CASE \E w \in Workers, o \in Actors : StartReconcile(w, o)
  BY <1>2 DEF StartReconcile, objects
<1>3. CASE Environment
  BY <1>3 DEF Environment, RequestDrain, WithdrawDrain, DeleteNode, BlocksMigrate, PodReady,
     SpecChange, OwnerRecreated, HistorySettles, Crash, objects
<1>4. CASE UNCHANGED vars
  BY <1>4 DEF vars
<1> QED
  BY <1>1, <1>2, <1>3, <1>4 DEF Next

\* What the GarageNode controller knows survives the steps of the others.
LEMMA OthersKeepNodeKnows ==
  ASSUME NodeKnows, ViewIsCurrent, wk'[NodeWorker] = wk[NodeWorker], owner'.uid = owner.uid,
         owner'.drain \in {owner.drain, None}, roles' = roles
  PROVE  NodeKnows' /\ ViewIsCurrent'
  BY DEF NodeKnows, ViewIsCurrent, TransactionIsOpen, OrdinarySeesNoDrain, ProofFollowsRemoval

\* Every step keeps DrainInv.
LEMMA NextDrainInv ==
  ASSUME Owner \notin Requestable
  PROVE  TypeInv /\ AuthInv /\ HandoffInv /\ DrainInv /\ [Next]_vars => DrainInv'
<1> SUFFICES ASSUME TypeInv, AuthInv, HandoffInv, DrainInv, [Next]_vars PROVE DrainInv'
  OBVIOUS
<1>0. /\ TypeOK /\ owner \in OwnerObjects /\ DrainOfNode /\ BlocksAreCovered /\ NodesDoNotRoll
      /\ ClusterDoesNotDrain /\ ViewIsCurrent /\ NodeKnows /\ Owner \notin wants
  BY DEF TypeInv, TypeOK, DrainInv, NodeDrains, DrainOfNode, HandoffInv
<1>w. ClusterWorker \in Workers /\ NodeWorker \in Workers /\ ClusterWorker # NodeWorker
      /\ Workers = {ClusterWorker, NodeWorker}
  BY ConstantsAssumption DEF Workers
<1>r. DrainOfNode' /\ BlocksAreCovered' /\ Owner \notin wants'
  BY <1>0, NextRemoval, RemovalStepCovers, OwnerIsNotWanted
<1> SUFFICES ClusterDoesNotDrain' /\ ViewIsCurrent' /\ NodeKnows'
  BY <1>r DEF DrainInv, NodeDrains, DrainOfNode
<1>i. IdleWorker.pc = "idle" /\ IdleWorker.goal = "none" /\ ~IdleWorker.want /\ "idle" \notin DrainWork
      /\ "listRollouts" \notin DrainWork
  BY DEF IdleWorker, DrainWork
<1>1. CASE Step(ClusterWorker)
  <2>1. ClusterDoesNotDrain'
    BY <1>0, <1>1, <1>w, ClusterStepDoesNotDrain
  <2>2. wk'[NodeWorker] = wk[NodeWorker]
    BY <1>1, <1>w, StepMutexStep DEF MutexStep, MovesTo
  <2>3. owner'.uid = owner.uid
    BY <1>1, <1>w, StepOwnerStep DEF OwnerStep
  <2>p. wk[ClusterWorker].pc \notin DrainWork
    BY <1>0 DEF ClusterDoesNotDrain
  <2>4. owner'.drain \in {owner.drain, None}
    <3>1. CASE ClearCompletedStorageDrain(ClusterWorker)
      BY <1>0, <3>1 DEF ClearCompletedStorageDrain, OwnerObjects
    <3>2. CASE ~ClearCompletedStorageDrain(ClusterWorker)
      BY <1>1, <1>w, <2>p, <3>2, OnlyDrainsWrite
         DEF PersistIntent, RecoverApplyFailure, ProveMigration, ObservationFails, At, DrainWork
    <3> QED
      BY <3>1, <3>2
  <2>5. roles' = roles
    <3>1. ~ApplyRemoval(ClusterWorker)
      BY <2>p DEF ApplyRemoval, At, DrainWork
    <3>2. CASE WriteRole(ClusterWorker)
      <4>1. wk[ClusterWorker].obj = Owner /\ Owner \notin Nodes
        BY ConstantsAssumption DEF AuthInv, Assigned
      <4> QED
        BY <3>2, <4>1 DEF WriteRole, garage
    <3> QED
      BY <1>1, <1>w, <3>1, <3>2, OnlyApplyAndWriteRole
  <2> QED
    BY <1>0, <2>1, <2>2, <2>3, <2>4, <2>5, OthersKeepNodeKnows
<1>2. CASE Step(NodeWorker)
  <2>1. wk'[ClusterWorker] = wk[ClusterWorker]
    BY <1>2, <1>w, StepMutexStep DEF MutexStep, MovesTo
  <2>2. ClusterDoesNotDrain'
    BY <1>0, <2>1 DEF ClusterDoesNotDrain
  <2>3. ViewIsCurrent'
    BY <1>0, <1>2, <1>w, NodeStepView
  <2>4. ~ClusterReconcile(NodeWorker) /\ ~RolloutTransaction(NodeWorker)
    <3>1. wk[NodeWorker].obj # Owner
      BY <1>2, <1>w, StepPoint, ConstantsAssumption DEF AuthInv, Assigned
    <3> QED
      BY <1>0, <3>1 DEF NodesDoNotRoll, ClusterReconcile, ClusterPreparesDrain, ClusterRecoversOrphan,
         ClusterRecoversRollout, ClusterProceeds, ClusterAtDecision, ReconcileStorageRollout,
         WaitRollout, Converge, FinishNodeLocalPoolRollout, OrdinaryReconcile, At, RolloutPoints,
         RolloutTransaction, BeginRollout, PersistRollout, ConfirmRollout, DeletePod,
         RecoverRollout, EndRollout, RolloutGoals
  <2>5. NodeKnows'
    BY <1>0, <1>2, <1>w, <2>4, FreeStepKnows, DrainStepKnows DEF Step
  <2> QED
    BY <2>2, <2>3, <2>5
<1>3. ASSUME NEW o \in Actors, StartReconcile(ClusterWorker, o)
      PROVE  ClusterDoesNotDrain' /\ ViewIsCurrent' /\ NodeKnows'
  <2>1. /\ MovesTo(ClusterWorker, "listRollouts") /\ wk'[ClusterWorker].goal = "none"
        /\ owner' = owner /\ roles' = roles
    BY <1>0, <1>3, <1>w, StartReconcileMoves DEF StartReconcile, garage
  <2>2. wk'[ClusterWorker].want = (Owner \in wants)
    BY <1>0, <1>3, <1>w DEF StartReconcile, TypeOK, IdleWorker
  <2>3. wk'[NodeWorker] = wk[NodeWorker]
    BY <1>w, <2>1 DEF MovesTo
  <2>4. ClusterDoesNotDrain'
    BY <1>0, <1>i, <2>1, <2>2 DEF ClusterDoesNotDrain, MovesTo
  <2> QED
    BY <1>0, <2>1, <2>3, <2>4, OthersKeepNodeKnows
<1>4. ASSUME NEW o \in Actors, StartReconcile(NodeWorker, o)
      PROVE  ClusterDoesNotDrain' /\ ViewIsCurrent' /\ NodeKnows'
  <2>1. MovesTo(NodeWorker, "listRollouts") /\ wk'[NodeWorker].snap = owner /\ owner' = owner
    BY <1>0, <1>4, <1>w, StartReconcileMoves DEF StartReconcile
  <2>2. wk'[ClusterWorker] = wk[ClusterWorker]
    BY <1>w, <2>1 DEF MovesTo
  <2>3. ClusterDoesNotDrain' /\ ViewIsCurrent'
    BY <1>0, <2>1, <2>2 DEF ClusterDoesNotDrain, ViewIsCurrent
  <2>4. "listRollouts" \in Points \ KnowingPoints
    BY DEF Points, FreePoints, KnowingPoints
  <2> QED
    BY <1>w, <2>1, <2>3, <2>4, QuietKnows
<1>5. CASE Environment
  <2>1. CASE OwnerRecreated
    <3>1. /\ wk' = wk /\ owner'.uid = owner.uid + 1 /\ owner.uid \in Nat
          /\ wk[NodeWorker].snap.uid <= owner.uid /\ wk[NodeWorker].snap.uid \in Nat
      BY <1>0, <1>w, <2>1, SnapMarkers DEF OwnerRecreated, FreshOwner, AuthInv, SnapIsPast, OwnerObjects, Snap
    <3>2. owner'.uid # wk[NodeWorker].snap.uid
      BY <3>1
    <3> QED
      BY <1>0, <3>1, <3>2 DEF ClusterDoesNotDrain, ViewIsCurrent, NodeKnows, TransactionIsOpen,
         OrdinarySeesNoDrain, ProofFollowsRemoval
  <2>2. CASE Crash
    <3>1. wk'[ClusterWorker] = IdleWorker /\ wk'[NodeWorker] = IdleWorker
      BY <1>w, <2>2 DEF Crash
    <3> QED
      BY <1>i, <3>1 DEF ClusterDoesNotDrain, ViewIsCurrent, NodeKnows, TransactionIsOpen,
         OrdinarySeesNoDrain, ProofFollowsRemoval
  <2>3. CASE ~(OwnerRecreated \/ Crash)
    <3>1. wk' = wk /\ owner'.uid = owner.uid /\ owner'.drain = owner.drain /\ roles' = roles
      <4>1. CASE SpecChange
        BY <1>0, <4>1 DEF SpecChange, OwnerObjects, garage
      <4>2. CASE ~SpecChange
        BY <1>5, <2>3, <4>2 DEF Environment, RequestDrain, WithdrawDrain, DeleteNode, BlocksMigrate,
           PodReady, HistorySettles, garage
      <4> QED
        BY <4>1, <4>2
    <3> QED
      BY <1>0, <3>1, OthersKeepNodeKnows DEF ClusterDoesNotDrain
  <2> QED
    BY <2>1, <2>2, <2>3
<1>6. CASE UNCHANGED vars
  BY <1>0, <1>6, OthersKeepNodeKnows DEF vars, ClusterDoesNotDrain
<1> QED
  BY <1>1, <1>2, <1>3, <1>4, <1>5, <1>6, <1>w DEF Next

\* Drains of GarageNodes by the two controllers, with their markers, their stale
\* snapshots, lost answers and restarts, are drains as SafeRemoval has them: durable
\* before the role leaves, proved before they are forgotten, one at a time.  A drain
\* of the whole GarageCluster is excluded, because abortStorageDrain forgets a partial
\* removal (AbortKeepsRemovedTargets).
THEOREM NodeDrainsAreSafe ==
  ASSUME Owner \notin Requestable
  PROVE  Spec => RemovalIsSafe
<1>1. Init => Removal!Init
  BY DEF Init, FreshOwner, Removal!Init
<1>2. TypeInv /\ AuthInv /\ DrainInv /\ [Next]_vars => [Removal!Next]_(Removal!vars)
  BY NextRemoval, RemovalStepImplements DEF TypeInv, DrainInv, NodeDrains, DrainOfNode
<1> QED
  BY <1>1, <1>2, InitTypeInv, NextTypeInv, InitLockInv, NextLockInv, InitAuthInv, NextAuthInv,
     InitHandoffInv, NextHandoffInv, InitDrainInv, NextDrainInv, PTL
     DEF Spec, RemovalIsSafe, Removal!Spec

=============================================================================
