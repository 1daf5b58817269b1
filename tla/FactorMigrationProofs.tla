------------------------ MODULE FactorMigrationProofs ------------------------
(***************************************************************************)
(* Theorems about FactorMigration that hold for every number of storage    *)
(* nodes, every set of factors and every bound on the events of a scene.   *)
(*                                                                         *)
(* Each invariant rests on the one before: the types and what the worker   *)
(* knows of itself (TypeInv), the record a phase works under (RecordInv),  *)
(* and on these what the StatefulSets (CleanInv), the suspensions          *)
(* (ReleaseInv), the annotations (KeptInv) and the Pods (SteadyInv,        *)
(* NotPurged, AllNew) look like on the way.  The lemmas come in the groups *)
(* of the model's steps: the steps of reconcileFactorMigration around the  *)
(* phases (Driver), the work of the phases and of the teardown (Work), and *)
(* everything else (Environment).                                          *)
(***************************************************************************)
EXTENDS FactorMigration, TLAPS, WellFoundedInduction

\* Program points at which the snapshot holds a migration in flight.
InFlightPoints ==
  {"consumeInFlight", "dispatch", "suspend", "scaleDown", "count", "config", "init", "verify",
   "scaleUp", "stripRebuilt", "resume", "advance"}

\* The locals of the worker.
Workers ==
  [pc : Points, snap : Clusters \cup {None}, todo : SUBSET Nodes, quiet : BOOLEAN,
   next : InFlight \cup Terminal \cup {None}, node : Nodes \cup {None}, abort : BOOLEAN]

\* What the worker knows of itself.
WorkerOK ==
  /\ cw \in Workers
  /\ cw.pc # "idle" => cw.snap # None /\ cw.todo # {}
  /\ cw.pc \in InFlightPoints => cw.snap.fm # None
  /\ cw.pc = "scaleDown" => cw.node \in cw.todo
  /\ cw.pc = "advance" => cw.next # None

\* Nothing is asked, recorded or read before the first request.
Requested == request # None \/ fm # None \/ cw.snap # None => requests # 0

TypeInv == TypeOK /\ WorkerOK /\ Requested

\* The bounds of a scene are natural numbers.
LEMMA SceneTypes ==
  ASSUME scene \in Scenes
  PROVE  /\ scene.requests \in Nat /\ scene.aborts \in Nat /\ scene.lost \in Nat
         /\ scene.evictions \in Nat /\ scene.failures \in Nat
         /\ scene.stale \in BOOLEAN /\ scene.overlap \in BOOLEAN
  BY MigrationAssumption DEF SceneRecords

\* A record of a migration, a snapshot of the cluster and a Pod are not None.
LEMMA RecordsExist ==
  ASSUME scene \in Scenes
  PROVE  None \notin Migrations /\ None \notin Clusters /\ None \notin Pods
<1>1. IDs \subseteq Nat
  BY SceneTypes DEF IDs
<1>2. Migrations \subseteq [phase : InFlight \cup Terminal, to : AllFactors \cup {None}, id : Nat]
  BY <1>1 DEF Migrations
<1> DEFINE AnyMigration == [phase : InFlight \cup Terminal, to : AllFactors \cup {None}, id : Nat]
<1>3. Clusters \subseteq [factor : AllFactors, request : AllFactors \cup {None, Malformed},
                       abort : BOOLEAN, fm : AnyMigration \cup {None}]
  <2> HIDE DEF AnyMigration
  <2> SUFFICES Migrations \subseteq AnyMigration
    BY DEF Clusters
  <2> QED
    BY <1>2 DEF AnyMigration
<1>4. Pods \subseteq [cfg : AllFactors, purge : Nat \cup {None}, st : {"init", "starting", "up"}]
  BY <1>1 DEF Pods
<1> QED
  BY <1>2, <1>3, <1>4, NoneAssumption

\* A sorted walk visits a node it has left to visit (sort.Slice by name).
LEMMA FirstIn ==
  ASSUME NEW T \in SUBSET Nodes, T # {}
  PROVE  First(T) \in T /\ First(T) \in Nodes
<1>1. Nodes \subseteq Nat
  BY MigrationAssumption DEF Nodes
<1> DEFINE Less == {ss \in Nat \X Nat : ss[1] < ss[2]}
<1>2. IsWellFoundedOn(Less, Nat)
  BY NatLessThanWellFounded, Zenon DEF OpToRel
<1>3. PICK x \in T : \A y \in T : ~(<<y, x>> \in Less)
  <2> HIDE DEF Less
  <2> QED
    BY <1>1, <1>2, WFMin, Zenon
<1>4. \A y \in T : ~(y < x)
  BY <1>1, <1>3
<1>5. \A y \in T : x <= y
  BY <1>1, <1>4
<1> QED
  BY <1>5 DEF First

\* There is a storage node.
LEMMA NodesExist == Nodes # {} /\ 1 \in Nodes
  BY MigrationAssumption DEF Nodes

\* A reconcile that ends leaves the worker idle.
LEMMA ReturnOK ==
  ASSUME Return
  PROVE  WorkerOK' /\ cw'.pc = "idle" /\ cw'.snap = None
  BY DEF Return, Idle, WorkerOK, Workers, Points, InFlightPoints

\* One step of a walk over the nodes keeps the worker's locals in shape.
LEMMA VisitedOK ==
  ASSUME WorkerOK, scene' = scene, NEW n \in cw.todo, NEW l \in Points, NEW end \in Points,
         ~At("idle"),
         {l, end} \cap {"scaleDown", "advance"} = {},
         {l, end} \cap InFlightPoints # {} => cw.snap.fm # None,
         Visited(n, l, end)
  PROVE  /\ WorkerOK' /\ cw'.snap = cw.snap
         /\ \/ cw.todo = {n} /\ cw'.pc = end /\ cw'.todo = Nodes
            \/ cw.todo # {n} /\ cw'.pc = l /\ cw'.todo = cw.todo \ {n}
<1>1. cw \in Workers /\ cw.todo # {}
  BY DEF WorkerOK, At
<1>2. cw' = [cw EXCEPT !.todo = IF cw.todo = {n} THEN Nodes ELSE cw.todo \ {n},
                       !.pc = IF cw.todo = {n} THEN end ELSE l]
  BY <1>1 DEF Visited, Workers
<1>3. CASE cw.todo = {n}
  <2>1. cw' = [cw EXCEPT !.todo = Nodes, !.pc = end]
    BY <1>2, <1>3
  <2> QED
    BY <1>1, <1>3, <2>1, NodesExist DEF WorkerOK, Workers, At, Clusters, Migrations, IDs
<1>4. CASE cw.todo # {n}
  <2>1. cw' = [cw EXCEPT !.todo = cw.todo \ {n}, !.pc = l]
    BY <1>2, <1>4
  <2>2. cw.todo \ {n} # {} /\ cw.todo \ {n} \in SUBSET Nodes
    BY <1>1, <1>4 DEF Workers
  <2> QED
    BY <1>1, <1>4, <2>1, <2>2 DEF WorkerOK, Workers, At, Clusters, Migrations, IDs
<1> QED
  BY <1>3, <1>4

\* Recording the next phase keeps the worker's locals in shape.
LEMMA AdvanceOK ==
  ASSUME WorkerOK, scene' = scene, NEW p \in InFlight \cup Terminal, ~At("idle"),
         cw.snap.fm # None, Advance(p)
  PROVE  WorkerOK' /\ cw'.snap = cw.snap /\ cw'.pc = "advance" /\ cw'.next = p
<1>1. p # None
  BY NoneAssumption
<1> QED
  BY <1>1 DEF WorkerOK, Workers, Advance, At, Points, Clusters, Migrations, IDs

\* Starting a walk over all nodes keeps the worker's locals in shape.
LEMMA PassOK ==
  ASSUME WorkerOK, scene' = scene, NEW l \in Points, ~At("idle"), l # "scaleDown", l # "advance",
         l \in InFlightPoints => cw.snap.fm # None,
         Pass(l)
  PROVE  WorkerOK' /\ cw'.snap = cw.snap /\ cw'.pc = l /\ cw'.todo = Nodes
  BY NodesExist DEF WorkerOK, Workers, Pass, At, Clusters, Migrations, IDs

\* One walk step, whatever the worker knows.
LEMMA VisitedMoves ==
  ASSUME cw \in Workers, NEW n, NEW l \in Points, NEW end \in Points, Visited(n, l, end)
  PROVE  /\ cw'.snap = cw.snap /\ cw'.abort = cw.abort /\ cw'.pc \in {l, end}
         /\ \/ cw.todo = {n} /\ cw'.pc = end /\ cw'.todo = Nodes
            \/ cw.todo # {n} /\ cw'.pc = l /\ cw'.todo = cw.todo \ {n}
<1>1. cw' = [cw EXCEPT !.todo = IF cw.todo = {n} THEN Nodes ELSE cw.todo \ {n},
                       !.pc = IF cw.todo = {n} THEN end ELSE l]
  BY DEF Visited, Workers
<1> QED
  BY <1>1 DEF Workers

\* Writing the record ends the reconcile or moves on.
LEMMA SetMoves ==
  ASSUME cw \in Workers, NEW record, NEW l, SetFactorMigration(record, l)
  PROVE  cw'.pc = l
<1>1. \/ l = "idle" /\ cw' = Idle
      \/ \E x : cw' = [cw EXCEPT !.pc = l, !.snap = x]
      \/ cw' = [cw EXCEPT !.pc = l]
  BY Zenon DEF SetFactorMigration
<1>2. ASSUME NEW x, cw' = [cw EXCEPT !.pc = l, !.snap = x] PROVE cw'.pc = l
  BY <1>2 DEF Workers
<1>3. ASSUME cw' = [cw EXCEPT !.pc = l] PROVE cw'.pc = l
  BY <1>3 DEF Workers
<1>4. Idle.pc = "idle"
  BY DEF Idle
<1> QED
  BY <1>1, <1>2, <1>3, <1>4

\* A step that moves only the worker.
LEMMA WorkerOnly ==
  ASSUME TypeInv, UNCHANGED <<spec, fm, late, annotations, workloads, nw, counters>>,
         WorkerOK', cw'.snap # None => cw.snap # None \/ request # None \/ fm # None
  PROVE  TypeInv'
<1>1. TypeOK'
  <2>1. /\ factor' = factor /\ request' = request /\ abort' = abort /\ fm' = fm /\ late' = late
        /\ susp' = susp /\ cached' = cached /\ sts' = sts /\ observed' = observed /\ pod' = pod
        /\ disk' = disk /\ marks' = marks /\ nw' = nw /\ scene' = scene /\ requests' = requests
        /\ aborts' = aborts /\ lost' = lost /\ evictions' = evictions /\ failures' = failures
    BY DEF spec, annotations, workloads, counters
  <2>2. (cw \in Workers)'
    BY DEF WorkerOK
  <2> QED
    BY <2>1, <2>2 DEF TypeInv, TypeOK, IDs, Migrations, StatefulSets, Pods, Clusters, Workers
<1>2. Requested'
  BY DEF TypeInv, Requested, spec, counters
<1> QED
  BY <1>1, <1>2 DEF TypeInv

\* A step of the worker that writes StatefulSets.
LEMMA StatefulSetStep ==
  ASSUME TypeInv,
         UNCHANGED <<spec, fm, late, annotations, observed, pod, disk, marks, nw, counters>>,
         WorkerOK', cw'.snap = cw.snap, sts' \in [Nodes -> StatefulSets]
  PROVE  TypeInv'
<1>1. /\ factor' = factor /\ request' = request /\ abort' = abort /\ fm' = fm /\ late' = late
      /\ susp' = susp /\ cached' = cached /\ observed' = observed /\ pod' = pod
      /\ disk' = disk /\ marks' = marks /\ nw' = nw /\ scene' = scene /\ requests' = requests
      /\ aborts' = aborts /\ lost' = lost /\ evictions' = evictions /\ failures' = failures
  BY DEF spec, annotations, counters
<1>2. TypeOK'
  <2>1. (cw \in Workers)'
    BY DEF WorkerOK
  <2> QED
    BY <1>1, <2>1 DEF TypeInv, TypeOK, IDs, Migrations, StatefulSets, Pods, Clusters, Workers
<1>3. Requested'
  BY <1>1 DEF TypeInv, Requested
<1> QED
  BY <1>2, <1>3 DEF TypeInv

\* A step of the worker that writes GarageNodes.
LEMMA AnnotationStep ==
  ASSUME TypeInv, UNCHANGED <<spec, fm, late, workloads, nw, counters>>,
         WorkerOK', cw'.snap = cw.snap,
         susp' \in [Nodes -> IDs \cup {None}], cached' \in {cached, susp'}
  PROVE  TypeInv'
<1>1. /\ factor' = factor /\ request' = request /\ abort' = abort /\ fm' = fm /\ late' = late
      /\ sts' = sts /\ observed' = observed /\ pod' = pod
      /\ disk' = disk /\ marks' = marks /\ nw' = nw /\ scene' = scene /\ requests' = requests
      /\ aborts' = aborts /\ lost' = lost /\ evictions' = evictions /\ failures' = failures
  BY DEF spec, workloads, counters
<1>2. TypeOK'
  <2>1. (cw \in Workers)'
    BY DEF WorkerOK
  <2> QED
    BY <1>1, <2>1 DEF TypeInv, TypeOK, IDs, Migrations, StatefulSets, Pods, Clusters, Workers
<1>3. Requested'
  BY <1>1 DEF TypeInv, Requested
<1> QED
  BY <1>2, <1>3 DEF TypeInv

\* setFactorMigration writes a record of a migration, or nothing.
LEMMA RecordStep ==
  ASSUME TypeInv, NEW record \in Migrations, NEW l \in {"idle", "consume", "dropAnnotations"},
         ~At("idle"), SetFactorMigration(record, l),
         UNCHANGED <<spec, annotations, workloads, nw, scene, requests, aborts, evictions, failures>>
  PROVE  TypeInv'
<1>1. /\ factor' = factor /\ request' = request /\ abort' = abort
      /\ susp' = susp /\ cached' = cached /\ sts' = sts /\ observed' = observed /\ pod' = pod
      /\ disk' = disk /\ marks' = marks /\ nw' = nw /\ scene' = scene /\ requests' = requests
      /\ aborts' = aborts /\ evictions' = evictions /\ failures' = failures
  BY DEF spec, annotations, workloads
<1>2. requests # 0 /\ cw \in Workers /\ cw.snap # None /\ cw.todo # {}
  BY DEF TypeInv, WorkerOK, Requested, At
<1>3. lost' \in 0..scene.lost /\ fm' \in Migrations \cup {None} /\ late' \in BOOLEAN
  <2>1. lost \in 0..scene.lost /\ scene.lost \in Nat
    BY SceneTypes DEF TypeInv, TypeOK
  <2>2. lost' = lost \/ (lost < scene.lost /\ lost' = lost + 1)
    BY DEF SetFactorMigration
  <2>3. lost' \in 0..scene.lost
    BY <2>1, <2>2
  <2> QED
    BY <2>3 DEF TypeInv, TypeOK, SetFactorMigration
<1>4. WorkerOK'
  <2>1. CASE cw' = Idle
    BY <2>1, ReturnOK DEF Return
  <2>2. CASE l # "idle" /\ cw' = [cw EXCEPT !.pc = l, !.snap = [Cluster EXCEPT !.fm = record]]
    <3>1. [Cluster EXCEPT !.fm = record] \in Clusters
      BY DEF TypeInv, TypeOK, Cluster, Clusters
    <3>2. [Cluster EXCEPT !.fm = record] # None
      BY <3>1, RecordsExist DEF TypeInv, TypeOK
    <3> QED
      BY <1>1, <1>2, <2>2, <3>1, <3>2 DEF WorkerOK, Workers, Points, InFlightPoints, Clusters, Migrations, IDs
  <2>3. CASE l # "idle" /\ cw' = [cw EXCEPT !.pc = l]
    BY <1>1, <1>2, <2>3 DEF WorkerOK, Workers, Points, InFlightPoints, Clusters, Migrations, IDs
  <2> QED
    BY <2>1, <2>2, <2>3 DEF SetFactorMigration
<1>5. TypeOK'
  <2>1. (cw \in Workers)'
    BY <1>4 DEF WorkerOK
  <2> QED
    BY <1>1, <1>3, <2>1 DEF TypeInv, TypeOK, IDs, Migrations, StatefulSets, Pods, Clusters, Workers
<1> QED
  BY <1>1, <1>2, <1>4, <1>5 DEF TypeInv, Requested

\* Reading and returning: the steps of reconcileFactorMigration that write no workload.
LEMMA DriverTypeInv ==
  ASSUME TypeInv,
         StartReconcile \/ Start \/ Consume \/ SetPhase \/ Fail \/ DropAnnotations \/ Refused
         \/ Abandon
  PROVE  TypeInv'
<1>0. scene \in Scenes /\ cw \in Workers /\ Cluster \in Clusters /\ Cluster # None
  BY RecordsExist DEF TypeInv, TypeOK, WorkerOK, Cluster, Clusters
<1>1. ASSUME StartReconcile PROVE TypeInv'
  <2>1. scene' = scene /\ cw'.snap = Cluster /\ FactorMigrationActive(Cluster) /\ cw'.todo = Nodes
        /\ cw'.pc \in {"strip", "start", "dispatch", "consumeInFlight", "consume"}
        /\ (cw'.pc \in {"dispatch", "consumeInFlight"} => Cluster.fm # None)
    BY <1>1 DEF StartReconcile, counters, FactorMigrationActive, InFlight
  <2>2. cw' \in Workers
    BY <1>0, <1>1, <2>1 DEF StartReconcile, Workers, Points, Clusters
  <2>3. WorkerOK'
    BY <1>0, <2>1, <2>2, NodesExist DEF WorkerOK, Workers, Points, InFlightPoints, Clusters, Migrations, IDs
  <2>4. request # None \/ fm # None
    BY <2>1 DEF FactorMigrationActive, Cluster
  <2> QED
    BY <1>1, <2>3, <2>4, WorkerOnly DEF StartReconcile
<1>2. ASSUME Start PROVE TypeInv'
  <2>1. cw.snap \in Clusters /\ requests \in IDs
    BY <1>2, SceneTypes DEF Start, At, TypeInv, TypeOK, WorkerOK, Workers, Requested, IDs
  <2>2. [phase |-> IF Snap.request = Malformed THEN "Failed" ELSE "Validating",
         to |-> IF Snap.request = Malformed THEN None ELSE Snap.request, id |-> requests]
        \in Migrations
    BY <2>1 DEF Snap, Clusters, Migrations, InFlight, Terminal
  <2> QED
    BY <1>2, <2>2, RecordStep DEF Start, At
<1>3. ASSUME Consume PROVE TypeInv'
  <2>1. WorkerOK' /\ (cw'.snap # None => cw.snap # None)
    <3>1. CASE Return
      BY <3>1, ReturnOK
    <3>2. CASE At("consumeInFlight") /\ cw' = [cw EXCEPT !.pc = "dispatch", !.snap.request = None]
      <4>1. /\ cw.snap \in Clusters /\ cw.snap # None /\ cw.snap.fm # None /\ cw.todo # {}
            /\ scene' = scene
        BY <1>3, <3>2 DEF Consume, At, TypeInv, WorkerOK, Workers, InFlightPoints, counters
      <4> DEFINE snap == [cw.snap EXCEPT !.request = None]
      <4>2. snap \in Clusters /\ snap.fm = cw.snap.fm
        BY <4>1 DEF Clusters
      <4>3. cw' = [cw EXCEPT !.pc = "dispatch", !.snap = snap]
        BY <1>0, <3>2, <4>1 DEF Workers
      <4>4. snap # None
        BY <1>0, <4>2, RecordsExist
      <4> HIDE DEF snap
      <4>5. cw' \in Workers /\ cw'.snap = snap /\ cw'.pc = "dispatch" /\ cw'.todo = cw.todo
        BY <1>0, <4>2, <4>3 DEF Workers, Points
      <4>6. Workers' = Workers
        BY <4>1 DEF Workers, Clusters, Migrations, IDs
      <4> QED
        BY <4>1, <4>2, <4>4, <4>5, <4>6 DEF WorkerOK
    <3> QED
      BY <1>3, <3>1, <3>2 DEF Consume
  <2>2. TypeOK'
    <3>1. (cw \in Workers)'
      BY <2>1 DEF WorkerOK
    <3>2. scene' = scene /\ request' = None /\ susp' = susp /\ cached' = cached
      BY <1>3 DEF Consume, counters, annotations
    <3> QED
      BY <1>3, <3>1, <3>2 DEF Consume, TypeInv, TypeOK, workloads, counters, IDs, Migrations,
         StatefulSets, Pods, Clusters, Workers
  <2>3. Requested'
    BY <1>3, <2>1 DEF Consume, counters, TypeInv, Requested
  <2> QED
    BY <2>1, <2>2, <2>3 DEF TypeInv
<1>4. ASSUME SetPhase PROVE TypeInv'
  <2>1. cw.snap \in Clusters /\ cw.snap.fm \in Migrations /\ cw.next \in InFlight \cup Terminal
    BY <1>4 DEF SetPhase, At, TypeInv, WorkerOK, Workers, InFlightPoints, Clusters
  <2>2. [Snap.fm EXCEPT !.phase = cw.next] \in Migrations
    BY <2>1 DEF Snap, Migrations
  <2> QED
    BY <1>4, <2>2, RecordStep DEF SetPhase, At
<1>5. ASSUME Fail PROVE TypeInv'
  <2>1. cw.snap \in Clusters /\ requests \in IDs
    BY <1>5, SceneTypes DEF Fail, At, TypeInv, TypeOK, WorkerOK, Workers, Requested, IDs
  <2>2. (IF Snap.fm = None THEN [phase |-> "Failed", to |-> None, id |-> requests]
                ELSE [Snap.fm EXCEPT !.phase = "Failed"]) \in Migrations
    BY <2>1 DEF Snap, Clusters, Migrations, Terminal
  <2> QED
    BY <1>5, <2>2, RecordStep DEF Fail, At
<1>6. ASSUME DropAnnotations PROVE TypeInv'
  <2>1. WorkerOK' /\ cw'.snap = None
    BY <1>6, ReturnOK DEF DropAnnotations
  <2>2. TypeOK'
    <3>1. (cw \in Workers)'
      BY <2>1 DEF WorkerOK
    <3>2. scene' = scene /\ request' = None /\ susp' = susp /\ cached' = cached /\ abort' = FALSE
      BY <1>6 DEF DropAnnotations, counters, annotations
    <3> QED
      BY <1>6, <3>1, <3>2 DEF DropAnnotations, TypeInv, TypeOK, workloads, counters, IDs, Migrations,
         StatefulSets, Pods, Clusters, Workers
  <2>3. Requested'
    BY <1>6, <2>1 DEF DropAnnotations, counters, TypeInv, Requested
  <2> QED
    BY <2>1, <2>2, <2>3 DEF TypeInv
<1>7. ASSUME Refused PROVE TypeInv'
  BY <1>7, ReturnOK, WorkerOnly DEF Refused
<1>8. ASSUME Abandon PROVE TypeInv'
  <2>1. WorkerOK' /\ cw'.snap = None
    BY <1>8, ReturnOK DEF Abandon
  <2>2. (cw \in Workers)'
    BY <2>1 DEF WorkerOK
  <2>3. scene' = scene /\ failures' \in 0..scene.failures
    BY <1>0, <1>8, SceneTypes DEF Abandon, TypeInv, TypeOK
  <2>4. TypeOK'
    BY <1>8, <2>2, <2>3 DEF Abandon, TypeInv, TypeOK, spec, annotations, workloads, IDs, Migrations,
       StatefulSets, Pods, Clusters, Workers
  <2> QED
    BY <1>8, <2>1, <2>4 DEF Abandon, TypeInv, Requested, spec
<1> QED
  BY <1>1, <1>2, <1>3, <1>4, <1>5, <1>6, <1>7, <1>8

\* The steps of the phases.
LEMMA PhaseTypeInv ==
  ASSUME TypeInv,
         FmValidate \/ FmCheckStuck \/ FmScaleDown \/ CountStoragePods \/ FmPurge
         \/ VerifyPreparation \/ FmVerify \/ FmConverge
  PROVE  TypeInv'
<1>0. scene \in Scenes /\ WorkerOK /\ cw \in Workers
  BY DEF TypeInv, TypeOK, WorkerOK
<1>a. ASSUME At("dispatch") \/ At("count") PROVE cw.snap # None /\ cw.snap.fm # None /\ ~At("idle")
  BY <1>0, <1>a DEF WorkerOK, At, InFlightPoints
<1>1. ASSUME FmValidate PROVE TypeInv'
  <2>1. scene' = scene /\ At("dispatch") /\ UNCHANGED <<spec, fm, late, annotations, workloads, nw, counters>>
    BY <1>1 DEF FmValidate, Phase, counters
  <2>2. CASE Return
    BY <2>1, <2>2, ReturnOK, WorkerOnly
  <2>3. CASE Pass("strip")
    BY <1>0, <1>a, <2>1, <2>3, PassOK, WorkerOnly DEF Points
  <2>4. CASE Advance("ScalingDown")
    BY <1>0, <1>a, <2>1, <2>4, AdvanceOK, WorkerOnly DEF InFlight
  <2> QED
    BY <1>1, <2>2, <2>3, <2>4 DEF FmValidate
<1>2. ASSUME FmCheckStuck PROVE TypeInv'
  <2>1. scene' = scene
    BY <1>2 DEF FmCheckStuck, counters
  <2> QED
    BY <1>0, <1>2, <1>a, <2>1, PassOK, WorkerOnly DEF FmCheckStuck, Points
<1>3. ASSUME FmScaleDown PROVE TypeInv'
  <2>1. scene' = scene
    BY <1>3 DEF FmScaleDown, counters
  <2> QED
    BY <1>0, <1>3, <1>a, <2>1, PassOK, WorkerOnly DEF FmScaleDown, Phase, Points
<1>4. ASSUME CountStoragePods PROVE TypeInv'
  <2>1. scene' = scene /\ At("count")
    BY <1>4 DEF CountStoragePods, counters
  <2>2. CASE Advance("Purging")
    BY <1>0, <1>4, <1>a, <2>1, <2>2, AdvanceOK, WorkerOnly DEF CountStoragePods, InFlight
  <2>3. CASE Return
    BY <1>4, <2>3, ReturnOK, WorkerOnly DEF CountStoragePods
  <2> QED
    BY <1>4, <2>2, <2>3 DEF CountStoragePods
<1>5. ASSUME FmPurge PROVE TypeInv'
  <2>1. scene' = scene /\ At("dispatch")
    BY <1>5 DEF FmPurge, Phase, counters
  <2>2. PICK q \in BOOLEAN :
          cw' = [cw EXCEPT !.pc = IF q THEN "config" ELSE "verify", !.quiet = q, !.todo = Nodes]
    BY <1>5 DEF FmPurge
  <2>3. PICK l \in {"config", "verify"} : cw' = [cw EXCEPT !.pc = l, !.quiet = q, !.todo = Nodes]
    BY <2>2
  <2>4. WorkerOK' /\ cw'.snap = cw.snap
    <3>1. /\ cw' \in Workers /\ cw'.pc \in {"config", "verify"} /\ cw'.snap = cw.snap
          /\ cw'.todo = Nodes
      BY <1>0, <2>3 DEF Workers, Points
    <3>2. Workers' = Workers
      BY <2>1 DEF Workers, Clusters, Migrations, IDs
    <3> QED
      BY <1>a, <2>1, <3>1, <3>2, NodesExist DEF WorkerOK
  <2> QED
    BY <1>5, <2>4, WorkerOnly DEF FmPurge
<1>6. ASSUME VerifyPreparation PROVE TypeInv'
  <2>1. scene' = scene /\ At("verify")
    BY <1>6 DEF VerifyPreparation, counters
  <2>2. cw.todo # {} /\ cw.todo \in SUBSET Nodes /\ cw.snap.fm # None
    BY <1>0, <2>1 DEF WorkerOK, At, Workers, InFlightPoints
  <2>3. WorkerOK' /\ cw'.snap = cw.snap
    BY <1>0, <1>6, <2>1, <2>2, FirstIn, VisitedOK DEF VerifyPreparation, At, Points
  <2> QED
    BY <1>6, <2>3, WorkerOnly DEF VerifyPreparation
<1>7. ASSUME FmVerify PROVE TypeInv'
  <2>1. scene' = scene /\ At("dispatch")
    BY <1>7 DEF FmVerify, Phase, counters
  <2>2. CASE Advance("RebuildingLayout")
    BY <1>0, <1>7, <1>a, <2>1, <2>2, AdvanceOK, WorkerOnly DEF FmVerify, InFlight
  <2>3. CASE Return
    BY <1>7, <2>3, ReturnOK, WorkerOnly DEF FmVerify
  <2> QED
    BY <1>7, <2>2, <2>3 DEF FmVerify
<1>8. ASSUME FmConverge PROVE TypeInv'
  <2>1. scene' = scene
    BY <1>8 DEF FmConverge, counters
  <2> QED
    BY <1>0, <1>8, <1>a, <2>1, PassOK, WorkerOnly DEF FmConverge, Phase, Points
<1> QED
  BY <1>1, <1>2, <1>3, <1>4, <1>5, <1>6, <1>7, <1>8

\* The walks that write one StatefulSet after the other.
LEMMA StatefulSetTypeInv ==
  ASSUME TypeInv,
         ScaleDown \/ PatchConfigRevision \/ PatchPurgeInit \/ ScaleUp \/ StripRebuilt \/ Strip \/ Restore
  PROVE  TypeInv'
<1> DEFINE n == First(cw.todo)
<1>0. scene \in Scenes /\ WorkerOK /\ cw \in Workers /\ sts \in [Nodes -> StatefulSets]
  BY DEF TypeInv, TypeOK, WorkerOK
<1>a. ~At("idle") => /\ n \in cw.todo /\ n \in Nodes /\ cw.snap \in Clusters
                     /\ cw.todo \in SUBSET Nodes
  BY <1>0, FirstIn DEF WorkerOK, Workers, At
<1>b. cw.pc \in InFlightPoints => /\ cw.snap.fm \in Migrations /\ cw.snap.fm.id \in IDs
                                   /\ cw.snap.factor \in AllFactors
  BY <1>0 DEF WorkerOK, Workers, Clusters, Migrations, InFlightPoints
<1> HIDE DEF n
<1>1. ASSUME ScaleDown PROVE TypeInv'
  <2>1. scene' = scene /\ ~At("idle") /\ cw.node \in cw.todo /\ cw.snap.fm # None
    BY <1>0, <1>1 DEF ScaleDown, counters, At, WorkerOK, InFlightPoints
  <2>2. WorkerOK' /\ cw'.snap = cw.snap
    BY <1>0, <1>1, <2>1, VisitedOK DEF ScaleDown, Points
  <2>3. sts' \in [Nodes -> StatefulSets]
    BY <1>0, <1>1 DEF ScaleDown, StatefulSets
  <2> QED
    BY <1>1, <2>2, <2>3, StatefulSetStep DEF ScaleDown
<1>2. ASSUME PatchConfigRevision PROVE TypeInv'
  <2>1. scene' = scene /\ ~At("idle") /\ cw.pc = "config" /\ cw.snap.fm # None
    BY <1>0, <1>2 DEF PatchConfigRevision, counters, At, WorkerOK, InFlightPoints
  <2>4. sts' \in [Nodes -> StatefulSets]
    BY <1>0, <1>2, <1>a, <1>b, <2>1 DEF PatchConfigRevision, n, StatefulSets, Snap, InFlightPoints
  <2>2. WorkerOK' /\ cw'.snap = cw.snap
    <3>1. Visited(n, "config", "init")
      BY <1>2 DEF PatchConfigRevision, n
    <3> QED
      BY <1>0, <1>a, <2>1, <3>1, VisitedOK DEF Points
  <2> QED
    BY <1>2, <2>2, <2>4, StatefulSetStep DEF PatchConfigRevision
<1>3. ASSUME PatchPurgeInit PROVE TypeInv'
  <2>1. scene' = scene /\ ~At("idle") /\ cw.pc = "init" /\ cw.snap.fm # None
    BY <1>0, <1>3 DEF PatchPurgeInit, counters, At, WorkerOK, InFlightPoints
  <2>4. sts' \in [Nodes -> StatefulSets]
    BY <1>0, <1>3, <1>a, <1>b, <2>1 DEF PatchPurgeInit, n, StatefulSets, Snap, InFlightPoints
  <2>2. WorkerOK' /\ cw'.snap = cw.snap
    <3>1. Visited(n, "init", "verify")
      BY <1>3 DEF PatchPurgeInit, n
    <3> QED
      BY <1>0, <1>a, <2>1, <3>1, VisitedOK DEF Points
  <2> QED
    BY <1>3, <2>2, <2>4, StatefulSetStep DEF PatchPurgeInit
<1>4. ASSUME ScaleUp PROVE TypeInv'
  <2>1. scene' = scene /\ ~At("idle") /\ cw.pc = "scaleUp" /\ cw.snap.fm # None
    BY <1>0, <1>4 DEF ScaleUp, counters, At, WorkerOK, InFlightPoints
  <2>4. sts' \in [Nodes -> StatefulSets]
    BY <1>0, <1>4, <1>a, <1>b, <2>1 DEF ScaleUp, n, StatefulSets, Snap, InFlightPoints
  <2>2. CASE Visited(n, "scaleUp", "scaleUp")
    <3>1. WorkerOK' /\ cw'.snap = cw.snap
      BY <1>0, <1>a, <2>1, <2>2, VisitedOK DEF Points
    <3> QED
      BY <1>4, <2>4, <3>1, StatefulSetStep DEF ScaleUp
  <2>3. CASE Advance("Verifying")
    <3>1. WorkerOK' /\ cw'.snap = cw.snap
      BY <1>0, <2>1, <2>3, AdvanceOK DEF InFlight
    <3> QED
      BY <1>4, <2>4, <3>1, StatefulSetStep DEF ScaleUp
  <2> QED
    BY <1>4, <2>2, <2>3 DEF ScaleUp, n
<1>5. ASSUME StripRebuilt PROVE TypeInv'
  <2>1. scene' = scene /\ ~At("idle") /\ cw.pc = "stripRebuilt" /\ cw.snap.fm # None
    BY <1>0, <1>5 DEF StripRebuilt, counters, At, WorkerOK, InFlightPoints
  <2>4. sts' \in [Nodes -> StatefulSets]
    BY <1>0, <1>5, <1>a, <1>b, <2>1 DEF StripRebuilt, n, StatefulSets, Snap, InFlightPoints
  <2>2. CASE Visited(n, "stripRebuilt", "stripRebuilt")
    <3>1. WorkerOK' /\ cw'.snap = cw.snap
      BY <1>0, <1>a, <2>1, <2>2, VisitedOK DEF Points
    <3> QED
      BY <1>5, <2>4, <3>1, StatefulSetStep DEF StripRebuilt
  <2>3. CASE Advance("Converging")
    <3>1. WorkerOK' /\ cw'.snap = cw.snap
      BY <1>0, <2>1, <2>3, AdvanceOK DEF InFlight
    <3> QED
      BY <1>5, <2>4, <3>1, StatefulSetStep DEF StripRebuilt
  <2> QED
    BY <1>5, <2>2, <2>3 DEF StripRebuilt, n
<1>6. ASSUME Strip PROVE TypeInv'
  <2>1. scene' = scene /\ ~At("idle") /\ cw.pc = "strip"
    BY <1>0, <1>6 DEF Strip, counters, At
  <2>4. sts' \in [Nodes -> StatefulSets]
    BY <1>0, <1>6, <1>a, <2>1 DEF Strip, n, StatefulSets, Snap, InFlightPoints
  <2>2. WorkerOK' /\ cw'.snap = cw.snap
    BY <1>0, <1>6, <2>1 DEF Strip, Goto, At, WorkerOK, Workers, Points, InFlightPoints, Clusters,
       Migrations, IDs
  <2> QED
    BY <1>6, <2>2, <2>4, StatefulSetStep DEF Strip
<1>7. ASSUME Restore PROVE TypeInv'
  <2>1. scene' = scene /\ ~At("idle") /\ cw.pc = "restore"
    BY <1>0, <1>7 DEF Restore, counters, At
  <2>4. sts' \in [Nodes -> StatefulSets]
    BY <1>0, <1>7, <1>a, <2>1 DEF Restore, n, StatefulSets, Snap, InFlightPoints
  <2>2. WorkerOK' /\ cw'.snap = cw.snap
    <3>1. Visited(n, "strip", "release")
      BY <1>7 DEF Restore, n
    <3> QED
      BY <1>0, <1>a, <2>1, <3>1, VisitedOK DEF Points, InFlightPoints
  <2> QED
    BY <1>7, <2>2, <2>4, StatefulSetStep DEF Restore
<1> QED
  BY <1>1, <1>2, <1>3, <1>4, <1>5, <1>6, <1>7

\* The walks that write one GarageNode after the other.
LEMMA SuspensionTypeInv ==
  ASSUME TypeInv, NEW n \in Nodes, Suspend(n) \/ Resume(n) \/ ReleaseSuspension(n)
  PROVE  TypeInv'
<1>0. /\ scene \in Scenes /\ WorkerOK /\ cw \in Workers
      /\ susp \in [Nodes -> IDs \cup {None}] /\ cached \in [Nodes -> IDs \cup {None}]
  BY DEF TypeInv, TypeOK, WorkerOK
<1>1. ASSUME Suspend(n) PROVE TypeInv'
  <2>1. /\ scene' = scene /\ cw.pc = "suspend" /\ cw.snap # None /\ cw.snap.fm # None
        /\ n \in cw.todo /\ cw.snap.fm.id \in IDs
    BY <1>0, <1>1 DEF Suspend, counters, At, WorkerOK, Workers, InFlightPoints, Clusters, Migrations
  <2>2. cw' \in Workers /\ cw'.snap = cw.snap /\ cw'.pc = "scaleDown" /\ cw'.node = n /\ cw'.todo = cw.todo
    BY <1>0, <1>1 DEF Suspend, Workers, Points
  <2>3. WorkerOK'
    <3>1. Workers' = Workers
      BY <2>1 DEF Workers, Clusters, Migrations, IDs
    <3> QED
      BY <2>1, <2>2, <3>1 DEF WorkerOK
  <2>4. susp' \in [Nodes -> IDs \cup {None}] /\ cached' \in {cached, susp'}
    BY <1>0, <1>1, <2>1 DEF Suspend, Snap
  <2> QED
    BY <1>1, <2>2, <2>3, <2>4, AnnotationStep DEF Suspend
<1>a. ASSUME ClearSuspension(n)
      PROVE  n \in cw.todo /\ susp' \in [Nodes -> IDs \cup {None}] /\ cached' \in {cached, susp'}
  BY <1>0, <1>a DEF ClearSuspension
<1>2. ASSUME Resume(n) PROVE TypeInv'
  <2>1. scene' = scene /\ ~At("idle") /\ cw.snap.fm # None /\ ClearSuspension(n)
    BY <1>0, <1>2 DEF Resume, counters, At, WorkerOK, InFlightPoints
  <2>2. WorkerOK' /\ cw'.snap = cw.snap
    <3>1. CASE Advance("Completed")
      BY <1>0, <2>1, <3>1, AdvanceOK DEF Terminal
    <3>2. CASE Visited(n, "resume", "resume")
      BY <1>0, <1>a, <2>1, <3>2, VisitedOK DEF Points
    <3> QED
      BY <1>2, <3>1, <3>2 DEF Resume
  <2> QED
    BY <1>2, <1>a, <2>1, <2>2, AnnotationStep DEF Resume
<1>3. ASSUME ReleaseSuspension(n) PROVE TypeInv'
  <2>1. scene' = scene /\ ~At("idle") /\ ClearSuspension(n)
    BY <1>0, <1>3 DEF ReleaseSuspension, counters, At
  <2>2. WorkerOK' /\ cw'.snap = cw.snap
    BY <1>0, <1>3, <1>a, <2>1, VisitedOK DEF ReleaseSuspension, Points, InFlightPoints
  <2> QED
    BY <1>3, <1>a, <2>1, <2>2, AnnotationStep DEF ReleaseSuspension
<1> QED
  BY <1>1, <1>2, <1>3

\* A step that leaves the worker alone.
LEMMA OutsideStep ==
  ASSUME TypeInv, TypeOK', cw' = cw, scene' = scene,
         request' # None \/ fm' # None => request # None \/ fm # None \/ requests' # 0,
         requests' = requests \/ requests' # 0
  PROVE  TypeInv'
<1>1. WorkerOK'
  BY DEF TypeInv, WorkerOK, Workers, Clusters, Migrations, IDs
<1>2. Requested'
  BY DEF TypeInv, Requested
<1> QED
  BY <1>1, <1>2 DEF TypeInv

\* The layout is rebuilt on the disks of the processes that are up.
LEMMA RebuildTypeInv ==
  ASSUME TypeInv, FmRebuildLayout
  PROVE  TypeInv'
<1>0. /\ scene \in Scenes /\ WorkerOK /\ cw \in Workers
      /\ pod \in [Nodes -> Pods \cup {None}] /\ disk \in [Nodes -> AllFactors \cup {None}]
  BY DEF TypeInv, TypeOK, WorkerOK
<1>1. /\ factor' = factor /\ request' = request /\ abort' = abort /\ fm' = fm /\ late' = late
      /\ susp' = susp /\ cached' = cached /\ sts' = sts /\ observed' = observed /\ pod' = pod
      /\ marks' = marks /\ nw' = nw /\ scene' = scene /\ requests' = requests
      /\ aborts' = aborts /\ lost' = lost /\ evictions' = evictions /\ failures' = failures
      /\ At("dispatch")
  BY DEF FmRebuildLayout, Phase, spec, annotations, counters
<1>2. disk' \in [Nodes -> AllFactors \cup {None}]
  BY <1>0 DEF FmRebuildLayout, Ready, Pods
<1>3. WorkerOK' /\ (cw'.snap # None => cw.snap # None)
  <2>1. CASE Return
    BY <2>1, ReturnOK
  <2>2. CASE Pass("stripRebuilt")
    BY <1>0, <1>1, <2>2, PassOK DEF At, WorkerOK, InFlightPoints, Points
  <2> QED
    BY <2>1, <2>2 DEF FmRebuildLayout
<1>4. TypeOK'
  <2>1. (cw \in Workers)'
    BY <1>3 DEF WorkerOK
  <2> QED
    BY <1>1, <1>2, <2>1 DEF TypeInv, TypeOK, IDs, Migrations, StatefulSets, Pods, Clusters, Workers
<1> QED
  BY <1>1, <1>3, <1>4 DEF TypeInv, Requested

\* The GarageNode controller, Kubernetes, Garage and users.
LEMMA EnvironmentTypeInv ==
  ASSUME TypeInv,
         \/ ReconcileStatefulSet
         \/ \E n \in Nodes :
              \/ StartNodeReconcile(n) \/ RollOut(n)
              \/ Observe(n) \/ CreatePod(n) \/ RemovePod(n) \/ Evict(n)
              \/ PurgeInit(n) \/ Boot(n) \/ LearnLayout(n) \/ SyncCache(n)
         \/ \E f \in Factors \cup {Malformed} : Request(f)
         \/ RequestAbort \/ ClearStatus \/ Expire
  PROVE  TypeInv'
<1>0. /\ scene \in Scenes /\ sts \in [Nodes -> StatefulSets] /\ observed \in [Nodes -> StatefulSets]
      /\ pod \in [Nodes -> Pods \cup {None}] /\ disk \in [Nodes -> AllFactors \cup {None}]
      /\ marks \in [Nodes -> SUBSET IDs] /\ nw \in [obj : Nodes, factor : AllFactors] \cup {None}
      /\ susp \in [Nodes -> IDs \cup {None}] /\ cached \in [Nodes -> IDs \cup {None}]
      /\ factor \in AllFactors /\ fm \in Migrations \cup {None}
  BY DEF TypeInv, TypeOK
<1> USE DEF spec, annotations, workloads, counters
<1>1. ASSUME ReconcileStatefulSet PROVE TypeInv'
  <2>0. sts' \in [Nodes -> StatefulSets]
    BY <1>0, <1>1 DEF ReconcileStatefulSet, StatefulSets
  <2>1. TypeOK'
    BY <1>0, <1>1, <2>0 DEF ReconcileStatefulSet, TypeInv, TypeOK, IDs, Migrations, StatefulSets, Pods, Clusters
  <2> QED
    BY <1>1, <2>1, OutsideStep DEF ReconcileStatefulSet
<1>2. ASSUME NEW n \in Nodes, StartNodeReconcile(n) PROVE TypeInv'
  <2>0. nw' \in [obj : Nodes, factor : AllFactors]
    BY <1>0, <1>2 DEF StartNodeReconcile
  <2>1. TypeOK'
    BY <1>0, <1>2, <2>0 DEF StartNodeReconcile, TypeInv, TypeOK, IDs, Migrations, StatefulSets, Pods, Clusters
  <2> QED
    BY <1>2, <2>1, OutsideStep DEF StartNodeReconcile
<1>3. ASSUME NEW n \in Nodes, RollOut(n) PROVE TypeInv'
  <2>0. pod' \in [Nodes -> Pods \cup {None}]
    BY <1>0, <1>3 DEF RollOut
  <2>1. TypeOK'
    BY <1>0, <1>3, <2>0 DEF RollOut, TypeInv, TypeOK, IDs, Migrations, StatefulSets, Pods, Clusters
  <2> QED
    BY <1>3, <2>1, OutsideStep DEF RollOut
<1>4. ASSUME NEW n \in Nodes, Observe(n) PROVE TypeInv'
  <2>0. observed' \in [Nodes -> StatefulSets]
    BY <1>0, <1>4 DEF Observe
  <2>1. TypeOK'
    BY <1>0, <1>4, <2>0 DEF Observe, TypeInv, TypeOK, IDs, Migrations, StatefulSets, Pods, Clusters
  <2> QED
    BY <1>4, <2>1, OutsideStep DEF Observe
<1>5. ASSUME NEW n \in Nodes, CreatePod(n) PROVE TypeInv'
  <2>0. pod' \in [Nodes -> Pods \cup {None}]
    BY <1>0, <1>5 DEF CreatePod, Pods, StatefulSets
  <2>1. TypeOK'
    BY <1>0, <1>5, <2>0 DEF CreatePod, TypeInv, TypeOK, IDs, Migrations, StatefulSets, Pods, Clusters
  <2> QED
    BY <1>5, <2>1, OutsideStep DEF CreatePod
<1>6. ASSUME NEW n \in Nodes, RemovePod(n) PROVE TypeInv'
  <2>0. pod' \in [Nodes -> Pods \cup {None}]
    BY <1>0, <1>6 DEF RemovePod
  <2>1. TypeOK'
    BY <1>0, <1>6, <2>0 DEF RemovePod, TypeInv, TypeOK, IDs, Migrations, StatefulSets, Pods, Clusters
  <2> QED
    BY <1>6, <2>1, OutsideStep DEF RemovePod
<1>7. ASSUME NEW n \in Nodes, Evict(n) PROVE TypeInv'
  <2>0. pod' \in [Nodes -> Pods \cup {None}] /\ evictions' \in 0..scene.evictions
    BY <1>0, <1>7, SceneTypes DEF Evict, TypeInv, TypeOK
  <2>1. TypeOK'
    BY <1>0, <1>7, <2>0 DEF Evict, TypeInv, TypeOK, IDs, Migrations, StatefulSets, Pods, Clusters
  <2> QED
    BY <1>7, <2>1, OutsideStep DEF Evict
<1>8. ASSUME NEW n \in Nodes, PurgeInit(n) PROVE TypeInv'
  <2>a. pod[n] \in Pods
    BY <1>0, <1>8 DEF PurgeInit
  <2>b. pod' \in [Nodes -> Pods \cup {None}]
    BY <1>0, <1>8, <2>a DEF PurgeInit, Pods
  <2>c. pod[n].purge # None => pod[n].purge \in IDs
    BY <2>a DEF Pods
  <2>d. disk' \in [Nodes -> AllFactors \cup {None}]
    BY <1>0, <1>8 DEF PurgeInit
  <2>e. marks' \in [Nodes -> SUBSET IDs]
    BY <1>0, <1>8, <2>c DEF PurgeInit
  <2>0. /\ pod' \in [Nodes -> Pods \cup {None}] /\ disk' \in [Nodes -> AllFactors \cup {None}]
        /\ marks' \in [Nodes -> SUBSET IDs]
    BY <2>b, <2>d, <2>e
  <2>1. TypeOK'
    BY <1>0, <1>8, <2>0 DEF PurgeInit, TypeInv, TypeOK, IDs, Migrations, StatefulSets, Pods, Clusters
  <2> QED
    BY <1>8, <2>1, OutsideStep DEF PurgeInit
<1>9. ASSUME NEW n \in Nodes, Boot(n) PROVE TypeInv'
  <2>0. pod' \in [Nodes -> Pods \cup {None}]
    BY <1>0, <1>9 DEF Boot, Pods
  <2>1. TypeOK'
    BY <1>0, <1>9, <2>0 DEF Boot, TypeInv, TypeOK, IDs, Migrations, StatefulSets, Pods, Clusters
  <2> QED
    BY <1>9, <2>1, OutsideStep DEF Boot
<1>10. ASSUME NEW n \in Nodes, LearnLayout(n) PROVE TypeInv'
  <2>0. disk' \in [Nodes -> AllFactors \cup {None}]
    BY <1>0, <1>10 DEF LearnLayout, Ready, Pods
  <2>1. TypeOK'
    BY <1>0, <1>10, <2>0 DEF LearnLayout, TypeInv, TypeOK, IDs, Migrations, StatefulSets, Pods, Clusters
  <2> QED
    BY <1>10, <2>1, OutsideStep DEF LearnLayout
<1>11. ASSUME NEW n \in Nodes, SyncCache(n) PROVE TypeInv'
  <2>0. cached' \in [Nodes -> IDs \cup {None}]
    BY <1>0, <1>11 DEF SyncCache
  <2>1. TypeOK'
    BY <1>0, <1>11, <2>0 DEF SyncCache, TypeInv, TypeOK, IDs, Migrations, StatefulSets, Pods, Clusters
  <2> QED
    BY <1>11, <2>1, OutsideStep DEF SyncCache
<1>12. ASSUME NEW f \in Factors \cup {Malformed}, Request(f) PROVE TypeInv'
  <2>a. requests' \in 0..scene.requests /\ requests' # 0
    BY <1>0, <1>12, SceneTypes DEF Request, TypeInv, TypeOK
  <2>b. /\ factor' \in AllFactors /\ request' \in AllFactors \cup {None, Malformed}
    BY <1>0, <1>12 DEF Request, AllFactors
  <2>0. /\ requests' \in 0..scene.requests /\ requests' # 0
        /\ factor' \in AllFactors /\ request' \in AllFactors \cup {None, Malformed}
    BY <2>a, <2>b
  <2>1. TypeOK'
    BY <1>0, <1>12, <2>0 DEF Request, TypeInv, TypeOK, IDs, Migrations, StatefulSets, Pods, Clusters
  <2> QED
    BY <1>12, <2>0, <2>1, OutsideStep DEF Request
<1>13. ASSUME RequestAbort PROVE TypeInv'
  <2>0. aborts' \in 0..scene.aborts
    BY <1>0, <1>13, SceneTypes DEF RequestAbort, TypeInv, TypeOK
  <2>1. TypeOK'
    BY <1>0, <1>13, <2>0 DEF RequestAbort, TypeInv, TypeOK, IDs, Migrations, StatefulSets, Pods, Clusters
  <2> QED
    BY <1>13, <2>1, OutsideStep DEF RequestAbort
<1>14. ASSUME ClearStatus PROVE TypeInv'
  <2>0. fm' \in Migrations' \cup {None} /\ late' \in BOOLEAN /\ scene' = scene
    BY <1>14 DEF ClearStatus
  <2>1. TypeOK'
    BY <1>0, <1>14, <2>0 DEF ClearStatus, TypeInv, TypeOK, IDs, Migrations, StatefulSets, Pods, Clusters
  <2> QED
    BY <1>14, <2>1, OutsideStep DEF ClearStatus
<1>15. ASSUME Expire PROVE TypeInv'
  <2>1. TypeOK'
    BY <1>0, <1>15 DEF Expire, TypeInv, TypeOK, IDs, Migrations, StatefulSets, Pods, Clusters
  <2> QED
    BY <1>15, <2>1, OutsideStep DEF Expire
<1> QED
  BY <1>1, <1>2, <1>3, <1>4, <1>5, <1>6, <1>7, <1>8, <1>9, <1>10, <1>11, <1>12, <1>13, <1>14, <1>15

\* Every step keeps the types.
LEMMA NextTypeInv == TypeInv /\ [Next]_vars => TypeInv'
<1> SUFFICES ASSUME TypeInv, [Next]_vars PROVE TypeInv'
  OBVIOUS
<1>1. CASE UNCHANGED vars
  BY <1>1, WorkerOnly DEF vars, spec, annotations, workloads, counters, TypeInv, WorkerOK, Workers,
     Clusters, Migrations, IDs
<1>2. CASE Next
  BY <1>2, DriverTypeInv, PhaseTypeInv, StatefulSetTypeInv, SuspensionTypeInv, RebuildTypeInv,
     EnvironmentTypeInv DEF Next, ClusterStep
<1> QED
  BY <1>1, <1>2

\* The initial state has the types.
LEMMA InitTypeInv == Init => TypeInv
<1> SUFFICES ASSUME Init PROVE TypeInv
  OBVIOUS
<1>1. WorkerOK /\ cw \in Workers /\ cw.snap = None
  BY DEF Init, Idle, WorkerOK, Workers, Points, InFlightPoints
<1>2. requests = 0 /\ request = None /\ fm = None
  BY DEF Init
<1>3. TypeOK
  <2>1. scene \in Scenes
    BY DEF Init
  <2>2. /\ requests \in 0..scene.requests /\ aborts \in 0..scene.aborts /\ lost \in 0..scene.lost
        /\ evictions \in 0..scene.evictions /\ failures \in 0..scene.failures
    BY <2>1, SceneTypes DEF Init
  <2>3. /\ susp \in [Nodes -> IDs \cup {None}] /\ cached \in [Nodes -> IDs \cup {None}]
        /\ disk \in [Nodes -> AllFactors \cup {None}] /\ marks \in [Nodes -> SUBSET IDs]
        /\ factor \in AllFactors
    BY DEF Init, AllFactors
  <2>4. /\ sts \in [Nodes -> StatefulSets] /\ observed \in [Nodes -> StatefulSets]
        /\ pod \in [Nodes -> Pods \cup {None}]
    BY DEF Init, AllFactors, StatefulSets, Pods
  <2>5. abort \in BOOLEAN /\ late \in BOOLEAN /\ nw = None
    BY DEF Init
  <2> QED
    BY <1>1, <1>2, <2>1, <2>2, <2>3, <2>4, <2>5 DEF TypeOK, Workers
<1> QED
  BY <1>1, <1>2, <1>3 DEF TypeInv, Requested

\* Every variable holds a value of its kind.
THEOREM TypeCorrect == Spec => []TypeOK
<1>1. Spec => []TypeInv
  BY InitTypeInv, NextTypeInv, PTL DEF Spec
<1>2. TypeInv => TypeOK
  BY DEF TypeInv
<1> QED
  BY <1>1, <1>2, PTL

-----------------------------------------------------------------------------
(* The worker is the only writer of the record while a migration runs.     *)

\* Each phase hands over to the next.
Advances ==
  {<<"Validating", "ScalingDown">>, <<"ScalingDown", "Purging">>, <<"Purging", "Verifying">>,
   <<"Verifying", "RebuildingLayout">>, <<"RebuildingLayout", "Converging">>,
   <<"Converging", "Completed">>}

\* Inside a phase the snapshot's record is the record in the status, and it has the
\* phase whose work the worker does.
RecordInv ==
  /\ cw.pc \in InFlightPoints => fm # None /\ fm = cw.snap.fm /\ fm.phase \in InFlight
  /\ cw.pc \in {"suspend", "scaleDown", "count"} => fm.phase = "ScalingDown"
  /\ cw.pc \in {"config", "init", "verify", "scaleUp"} => fm.phase = "Purging"
  /\ cw.pc = "stripRebuilt" => fm.phase = "RebuildingLayout"
  /\ cw.pc = "resume" => fm.phase = "Converging"
  /\ cw.pc = "advance" => <<fm.phase, cw.next>> \in Advances
  /\ cw.pc = "start" => fm = None /\ cw.snap.fm = None

\* The next program point of a reconcile that did not advance.
LEMMA DriverRecordInv ==
  ASSUME TypeInv, RecordInv,
         StartReconcile \/ Start \/ Consume \/ SetPhase \/ Fail \/ DropAnnotations \/ Refused
         \/ Abandon
  PROVE  RecordInv'
<1>0. cw \in Workers
  BY DEF TypeInv, WorkerOK
<1>1. ASSUME cw'.pc \in Points \ (InFlightPoints \cup {"start"}) PROVE RecordInv'
  BY <1>1 DEF RecordInv, InFlightPoints
<1>2. ASSUME Return PROVE RecordInv'
  BY <1>1, <1>2, ReturnOK DEF Points, InFlightPoints
<1>3. ASSUME NEW record, NEW l \in {"idle", "consume", "dropAnnotations"}, SetFactorMigration(record, l)
      PROVE  RecordInv'
  <2>1. cw'.pc = l
    BY <1>0, <1>3, SetMoves
  <2> QED
    BY <1>1, <2>1 DEF Points, InFlightPoints
<1>4. ASSUME StartReconcile PROVE RecordInv'
  <2>1. /\ fm' = fm /\ cw'.snap = Cluster
        /\ cw'.pc \in {"strip", "start", "dispatch", "consumeInFlight", "consume"}
        /\ (cw'.pc = "start" => fm = None)
        /\ (cw'.pc \in {"dispatch", "consumeInFlight"} => fm # None /\ fm.phase \in InFlight)
    BY <1>4 DEF StartReconcile, FactorMigrationActive, Cluster
  <2>2. Cluster.fm = fm
    BY DEF Cluster
  <2> QED
    BY <2>1, <2>2 DEF RecordInv, InFlightPoints
<1>5. ASSUME Consume PROVE RecordInv'
  <2>1. CASE Return
    BY <1>2, <2>1
  <2>2. CASE At("consumeInFlight") /\ cw' = [cw EXCEPT !.pc = "dispatch", !.snap.request = None]
    <3>1. cw.snap \in Clusters /\ fm' = fm
      BY <1>5, <2>2 DEF Consume, At, TypeInv, WorkerOK, Workers
    <3>2. cw'.pc = "dispatch" /\ cw'.snap.fm = cw.snap.fm
      BY <1>0, <2>2, <3>1 DEF Workers, Clusters
    <3> QED
      BY <2>2, <3>1, <3>2 DEF RecordInv, At, InFlightPoints
  <2> QED
    BY <1>5, <2>1, <2>2 DEF Consume
<1>6. ASSUME Start PROVE RecordInv'
  BY <1>3, <1>6 DEF Start
<1>7. ASSUME SetPhase PROVE RecordInv'
  BY <1>3, <1>7 DEF SetPhase
<1>8. ASSUME Fail PROVE RecordInv'
  BY <1>3, <1>8 DEF Fail
<1> QED
  BY <1>2, <1>4, <1>5, <1>6, <1>7, <1>8 DEF DropAnnotations, Refused, Abandon

\* The work of the phases stays in the phase of the record.
LEMMA WorkRecordInv ==
  ASSUME TypeInv, RecordInv,
         \/ FmValidate \/ FmCheckStuck \/ FmScaleDown \/ CountStoragePods \/ FmPurge
         \/ VerifyPreparation \/ FmVerify \/ FmConverge \/ FmRebuildLayout
         \/ ScaleDown \/ PatchConfigRevision \/ PatchPurgeInit \/ ScaleUp \/ StripRebuilt
         \/ Strip \/ Restore
         \/ \E n \in Nodes : Suspend(n) \/ Resume(n) \/ ReleaseSuspension(n)
  PROVE  RecordInv'
<1>0. cw \in Workers /\ WorkerOK
  BY DEF TypeInv, WorkerOK
<1>a. fm' = fm /\ scene' = scene
  BY DEF FmValidate, FmCheckStuck, FmScaleDown, CountStoragePods, FmPurge, VerifyPreparation, FmVerify,
     FmConverge, FmRebuildLayout, ScaleDown, PatchConfigRevision, PatchPurgeInit, ScaleUp,
     StripRebuilt, Strip, Restore, Suspend, Resume, ReleaseSuspension, counters
<1>b. ASSUME cw'.pc \in {"idle", "strip", "restore", "release", "fail"} PROVE RecordInv'
  BY <1>b DEF RecordInv, InFlightPoints
<1>c. ASSUME NEW l \in Points, Pass(l), ~At("idle") PROVE cw'.pc = l /\ cw'.snap = cw.snap
  BY <1>0, <1>c DEF Pass, Workers
<1>d. ASSUME NEW p \in InFlight \cup Terminal, Advance(p), cw.pc \in InFlightPoints,
             <<fm.phase, p>> \in Advances
      PROVE  RecordInv'
  <2>1. cw'.pc = "advance" /\ cw'.snap = cw.snap /\ cw'.next = p
    BY <1>0, <1>d DEF Advance, Workers
  <2> QED
    BY <1>a, <1>d, <2>1 DEF RecordInv, InFlightPoints
<1>e. ASSUME NEW n, NEW l \in Points, NEW end \in Points, Visited(n, l, end)
      PROVE  cw'.pc \in {l, end} /\ cw'.snap = cw.snap
  BY <1>0, <1>e, VisitedMoves
<1>f. ASSUME Return PROVE RecordInv'
  BY <1>b, <1>f, ReturnOK
<1>g. At("dispatch") => fm # None /\ fm = cw.snap.fm /\ fm.phase \in InFlight
  BY DEF RecordInv, At, InFlightPoints
<1>1. ASSUME FmValidate PROVE RecordInv'
  <2>1. At("dispatch") /\ fm.phase = "Validating" /\ ~At("idle")
    BY <1>1, <1>g DEF FmValidate, Phase, Snap, At
  <2>2. CASE Pass("strip")
    BY <1>b, <1>c, <2>1, <2>2 DEF Points
  <2>3. CASE Advance("ScalingDown")
    BY <1>d, <2>1, <2>3 DEF InFlight, InFlightPoints, At, Advances
  <2> QED
    BY <1>1, <1>f, <2>2, <2>3 DEF FmValidate
<1>2. ASSUME FmCheckStuck PROVE RecordInv'
  BY <1>2, <1>b, <1>c DEF FmCheckStuck, Points, At
<1>3. ASSUME FmScaleDown PROVE RecordInv'
  <2>1. cw'.pc = "suspend" /\ cw'.snap = cw.snap /\ At("dispatch") /\ cw.snap.fm.phase = "ScalingDown"
    BY <1>3, <1>c DEF FmScaleDown, Points, At, Phase, Snap
  <2> QED
    BY <1>a, <1>g, <2>1 DEF RecordInv, InFlightPoints
<1>4. ASSUME CountStoragePods PROVE RecordInv'
  <2>1. cw.pc = "count" /\ fm.phase = "ScalingDown"
    BY <1>4 DEF CountStoragePods, At, RecordInv
  <2>2. CASE Advance("Purging")
    BY <1>d, <2>1, <2>2 DEF InFlight, InFlightPoints, Advances
  <2> QED
    BY <1>4, <1>f, <2>2 DEF CountStoragePods
<1>5. ASSUME FmPurge PROVE RecordInv'
  <2>1. cw'.pc \in {"config", "verify"} /\ cw'.snap = cw.snap /\ At("dispatch")
        /\ cw.snap.fm.phase = "Purging"
    BY <1>0, <1>5 DEF FmPurge, Phase, Snap, Workers
  <2> QED
    BY <1>a, <1>g, <2>1 DEF RecordInv, InFlightPoints
<1>6. ASSUME VerifyPreparation \/ PatchConfigRevision \/ PatchPurgeInit PROVE RecordInv'
  <2>1. cw.pc \in {"config", "init", "verify"} /\ cw'.pc \in {"config", "init", "verify", "scaleUp"}
        /\ cw'.snap = cw.snap
    BY <1>6, <1>e DEF VerifyPreparation, PatchConfigRevision, PatchPurgeInit, At, Points
  <2> QED
    BY <1>a, <2>1 DEF RecordInv, InFlightPoints
<1>7. ASSUME FmVerify PROVE RecordInv'
  <2>1. At("dispatch") /\ fm.phase = "Verifying"
    BY <1>7, <1>g DEF FmVerify, Phase, Snap, At
  <2>2. CASE Advance("RebuildingLayout")
    BY <1>d, <2>1, <2>2 DEF InFlight, InFlightPoints, At, Advances
  <2> QED
    BY <1>7, <1>f, <2>2 DEF FmVerify
<1>8. ASSUME FmConverge PROVE RecordInv'
  <2>1. cw'.pc = "resume" /\ cw'.snap = cw.snap /\ At("dispatch") /\ cw.snap.fm.phase = "Converging"
    BY <1>8, <1>c DEF FmConverge, Points, At, Phase, Snap
  <2> QED
    BY <1>a, <1>g, <2>1 DEF RecordInv, InFlightPoints
<1>9. ASSUME FmRebuildLayout PROVE RecordInv'
  <2>1. At("dispatch") /\ ~At("idle") /\ cw.snap.fm.phase = "RebuildingLayout"
    BY <1>9 DEF FmRebuildLayout, Phase, Snap, At
  <2>2. CASE Pass("stripRebuilt")
    <3>1. cw'.pc = "stripRebuilt" /\ cw'.snap = cw.snap
      BY <1>c, <2>1, <2>2 DEF Points
    <3> QED
      BY <1>a, <1>g, <2>1, <3>1 DEF RecordInv, InFlightPoints
  <2> QED
    BY <1>9, <1>f, <2>2 DEF FmRebuildLayout
<1>10. ASSUME ScaleDown PROVE RecordInv'
  <2>1. cw.pc = "scaleDown" /\ cw'.pc \in {"suspend", "count"} /\ cw'.snap = cw.snap
    BY <1>10, <1>e DEF ScaleDown, At, Points
  <2> QED
    BY <1>a, <2>1 DEF RecordInv, InFlightPoints
<1>11. ASSUME ScaleUp PROVE RecordInv'
  <2>1. cw.pc = "scaleUp" /\ fm.phase = "Purging"
    BY <1>11 DEF ScaleUp, At, RecordInv
  <2>2. CASE Advance("Verifying")
    BY <1>d, <2>1, <2>2 DEF InFlight, InFlightPoints, Advances
  <2>3. CASE Visited(First(cw.todo), "scaleUp", "scaleUp")
    BY <1>a, <1>e, <2>1, <2>3 DEF RecordInv, InFlightPoints, Points
  <2> QED
    BY <1>11, <2>2, <2>3 DEF ScaleUp
<1>12. ASSUME StripRebuilt PROVE RecordInv'
  <2>1. cw.pc = "stripRebuilt" /\ fm.phase = "RebuildingLayout"
    BY <1>12 DEF StripRebuilt, At, RecordInv
  <2>2. CASE Advance("Converging")
    BY <1>d, <2>1, <2>2 DEF InFlight, InFlightPoints, Advances
  <2>3. CASE Visited(First(cw.todo), "stripRebuilt", "stripRebuilt")
    BY <1>a, <1>e, <2>1, <2>3 DEF RecordInv, InFlightPoints, Points
  <2> QED
    BY <1>12, <2>2, <2>3 DEF StripRebuilt
<1>13. ASSUME Strip PROVE RecordInv'
  BY <1>0, <1>13, <1>b DEF Strip, Goto, Workers
<1>14. ASSUME Restore PROVE RecordInv'
  BY <1>14, <1>b, <1>e DEF Restore, Points
<1>15. ASSUME NEW n \in Nodes, Suspend(n) PROVE RecordInv'
  <2>1. cw.pc = "suspend" /\ cw'.pc = "scaleDown" /\ cw'.snap = cw.snap
    BY <1>0, <1>15 DEF Suspend, At, Workers
  <2> QED
    BY <1>a, <2>1 DEF RecordInv, InFlightPoints
<1>16. ASSUME NEW n \in Nodes, Resume(n) PROVE RecordInv'
  <2>1. cw.pc = "resume" /\ fm.phase = "Converging"
    BY <1>16 DEF Resume, At, RecordInv
  <2>2. CASE Advance("Completed")
    BY <1>d, <2>1, <2>2 DEF Terminal, InFlightPoints, Advances
  <2>3. CASE Visited(n, "resume", "resume")
    BY <1>a, <1>e, <2>1, <2>3 DEF RecordInv, InFlightPoints, Points
  <2> QED
    BY <1>16, <2>2, <2>3 DEF Resume
<1>17. ASSUME NEW n \in Nodes, ReleaseSuspension(n) PROVE RecordInv'
  BY <1>17, <1>b, <1>e DEF ReleaseSuspension, Points
<1> QED
  BY <1>1, <1>2, <1>3, <1>4, <1>5, <1>6, <1>7, <1>8, <1>9, <1>10, <1>11, <1>12, <1>13, <1>14, <1>15,
     <1>16, <1>17

\* Nobody else writes the record of a migration in flight.
LEMMA EnvironmentRecordInv ==
  ASSUME TypeInv, RecordInv, cw' = cw,
         fm' = fm \/ (fm # None /\ fm.phase \in Terminal)
  PROVE  RecordInv'
<1>1. cw.pc \in InFlightPoints \cup {"start"} => fm' = fm
  BY DEF RecordInv, InFlight, Terminal
<1> QED
  BY <1>1 DEF RecordInv, InFlightPoints

\* What happens outside the GarageCluster worker.
Environment ==
  \/ ReconcileStatefulSet
  \/ \E n \in Nodes :
       \/ StartNodeReconcile(n) \/ RollOut(n)
       \/ Observe(n) \/ CreatePod(n) \/ RemovePod(n) \/ Evict(n)
       \/ PurgeInit(n) \/ Boot(n) \/ LearnLayout(n) \/ SyncCache(n)
  \/ \E f \in Factors \cup {Malformed} : Request(f)
  \/ RequestAbort \/ ClearStatus \/ Expire

\* Kubernetes, Garage, users and the GarageNode controller leave the worker alone,
\* and only clearing the status touches the record.
LEMMA EnvironmentLeaves ==
  ASSUME Environment \/ UNCHANGED vars
  PROVE  /\ cw' = cw /\ scene' = scene
         /\ fm' = fm \/ (fm # None /\ fm.phase \in Terminal /\ fm' = None)
  BY DEF Environment, ReconcileStatefulSet, StartNodeReconcile, RollOut, Observe, CreatePod, RemovePod,
     Evict, PurgeInit, Boot, LearnLayout, SyncCache, Request, RequestAbort, ClearStatus, Expire, vars,
     counters

\* RecordInv is inductive.
LEMMA NextRecordInv == TypeInv /\ RecordInv /\ [Next]_vars => RecordInv'
<1> SUFFICES ASSUME TypeInv, RecordInv, [Next]_vars PROVE RecordInv'
  OBVIOUS
<1>1. CASE Environment \/ UNCHANGED vars
  BY <1>1, EnvironmentLeaves, EnvironmentRecordInv
<1>2. CASE ClusterStep \/ Abandon
  BY <1>2, DriverRecordInv, WorkRecordInv DEF ClusterStep
<1> QED
  BY <1>1, <1>2 DEF Next, Environment

\* RecordInv holds in every reachable state.
LEMMA RecordInvariant == Spec => [](TypeInv /\ RecordInv)
<1>1. Init => RecordInv
  BY DEF Init, Idle, RecordInv, InFlightPoints
<1> QED
  BY <1>1, InitTypeInv, NextTypeInv, NextRecordInv, PTL DEF Spec

\* A finished migration never starts again by itself: only the worker writes a
\* record, from a reconcile that found none or one in flight.
THEOREM TerminalStaysFinal == Spec => TerminalIsFinal
<1>1. ASSUME TypeInv, RecordInv, [Next]_vars, fm # None, fm.phase \in Terminal
      PROVE  fm' = None \/ fm'.phase \in Terminal
  <2>1. CASE Environment \/ UNCHANGED vars
    BY <1>1, <2>1, EnvironmentLeaves
  <2>2. ASSUME Start \/ SetPhase PROVE FALSE
    BY <1>1, <2>2 DEF Start, SetPhase, At, RecordInv, InFlightPoints, InFlight, Terminal
  <2>3. ASSUME Fail PROVE fm' = fm \/ fm'.phase = "Failed"
    <3>1. fm' = fm \/ fm' = IF Snap.fm = None THEN [phase |-> "Failed", to |-> None, id |-> requests]
                           ELSE [Snap.fm EXCEPT !.phase = "Failed"]
      BY <2>3 DEF Fail, SetFactorMigration
    <3>2. Snap.fm # None => Snap.fm \in Migrations
      BY <1>1, <2>3 DEF Fail, At, TypeInv, WorkerOK, Workers, Clusters, Snap
    <3> QED
      BY <3>1, <3>2 DEF Migrations
  <2>4. CASE (ClusterStep \/ Abandon) /\ ~(Start \/ SetPhase \/ Fail)
    <3>1. fm' = fm
      BY <2>4 DEF ClusterStep, Abandon, StartReconcile, Consume, DropAnnotations, Refused, FmValidate,
         FmCheckStuck, FmScaleDown, CountStoragePods, FmPurge, VerifyPreparation, FmVerify, FmConverge,
         FmRebuildLayout, ScaleDown, PatchConfigRevision, PatchPurgeInit, ScaleUp, StripRebuilt, Strip,
         Restore, Suspend, Resume, ReleaseSuspension
    <3> QED
      BY <1>1, <3>1
  <2> QED
    BY <1>1, <2>1, <2>2, <2>3, <2>4 DEF Next, Environment, Terminal
<1>2. TypeInv /\ RecordInv /\ [Next]_vars
      => [fm # None /\ fm.phase \in Terminal => fm' = None \/ fm'.phase \in Terminal]_vars
  BY <1>1
<1> QED
  BY <1>2, RecordInvariant, PTL DEF Spec, TerminalIsFinal

-----------------------------------------------------------------------------
(* A failed migration restores the workloads.                              *)

Restored(n) == sts[n].replicas = 1 /\ sts[n].purge = None

\* Outside the phases that scale and purge, every StatefulSet is as the GarageNode
\* controller renders it; the teardown, and the strip after the rebuild, have
\* restored the nodes their walk has left behind.
CleanInv ==
  /\ fm = None \/ fm.phase \in {"Validating", "Converging", "Completed", "Failed"}
       => \A n \in Nodes : Restored(n)
  /\ cw.pc = "stripRebuilt" =>
       \A n \in Nodes : sts[n].replicas = 1 /\ (n \notin cw.todo => sts[n].purge = None)
  /\ cw.pc = "advance" /\ cw.next = "Converging" => \A n \in Nodes : Restored(n)
  /\ cw.pc \in {"strip", "restore"} => \A n \in Nodes \ cw.todo : Restored(n)
  /\ cw.pc = "restore" => sts[First(cw.todo)].purge = None
  /\ cw.pc \in {"release", "fail"} => \A n \in Nodes : Restored(n)

TeardownPoints == {"stripRebuilt", "strip", "restore", "release", "fail"}

\* A step that writes no StatefulSet and no record.
LEMMA CleanMove ==
  ASSUME CleanInv, sts' = sts, fm' = fm, cw'.pc \notin TeardownPoints,
         cw'.pc = "advance" => cw'.next # "Converging"
  PROVE  CleanInv'
  BY DEF CleanInv, Restored, TeardownPoints

\* The teardown starts at the first node.
LEMMA CleanTeardown ==
  ASSUME CleanInv, sts' = sts, fm' = fm, cw'.pc = "strip", cw'.todo = Nodes
  PROVE  CleanInv'
  BY DEF CleanInv, Restored

\* The steps of reconcileFactorMigration around the phases.
LEMMA DriverCleanInv ==
  ASSUME TypeInv, RecordInv, CleanInv,
         StartReconcile \/ Start \/ Consume \/ SetPhase \/ Fail \/ DropAnnotations \/ Refused
         \/ Abandon
  PROVE  CleanInv'
<1>0. cw \in Workers
  BY DEF TypeInv, WorkerOK
<1>a. sts' = sts
  BY DEF StartReconcile, Start, Consume, SetPhase, Fail, DropAnnotations, Refused, Abandon, workloads
<1>1. ASSUME Return, fm' = fm PROVE CleanInv'
  BY <1>1, <1>a, ReturnOK, CleanMove DEF TeardownPoints
<1>2. ASSUME StartReconcile PROVE CleanInv'
  <2>1. /\ fm' = fm /\ cw'.todo = Nodes
        /\ cw'.pc \in {"strip", "start", "dispatch", "consumeInFlight", "consume"}
    BY <1>2 DEF StartReconcile
  <2>2. CASE cw'.pc = "strip"
    BY <1>a, <2>1, <2>2, CleanTeardown
  <2>3. CASE cw'.pc # "strip"
    BY <1>a, <2>1, <2>3, CleanMove DEF TeardownPoints
  <2> QED
    BY <2>2, <2>3
<1>3. ASSUME Consume PROVE CleanInv'
  <2>1. fm' = fm
    BY <1>3 DEF Consume
  <2>2. CASE cw' = [cw EXCEPT !.pc = "dispatch", !.snap.request = None]
    <3>1. cw'.pc = "dispatch"
      BY <1>0, <2>2 DEF Workers
    <3> QED
      BY <1>a, <2>1, <3>1, CleanMove DEF TeardownPoints
  <2> QED
    BY <1>1, <1>3, <2>1, <2>2 DEF Consume
<1>b. ASSUME NEW record, NEW l \in {"idle", "consume", "dropAnnotations"},
             SetFactorMigration(record, l),
             record.phase \in {"Validating", "Converging", "Completed", "Failed"}
               => \A n \in Nodes : Restored(n),
             record # None
      PROVE  CleanInv'
  <2>1. cw'.pc = l
    BY <1>0, <1>b, SetMoves
  <2>2. fm' = fm \/ fm' = record
    BY <1>b DEF SetFactorMigration
  <2> QED
    BY <1>a, <1>b, <2>1, <2>2 DEF CleanInv, Restored
<1>4. ASSUME Start PROVE CleanInv'
  <2>1. \A n \in Nodes : Restored(n)
    BY <1>4 DEF Start, At, RecordInv, CleanInv
  <2>2. PICK record \in Migrations : SetFactorMigration(record, "consume")
    <3>1. cw.snap \in Clusters /\ requests \in IDs
      BY <1>4, SceneTypes DEF Start, At, TypeInv, TypeOK, WorkerOK, Workers, Requested, IDs
    <3>2. [phase |-> IF Snap.request = Malformed THEN "Failed" ELSE "Validating",
           to |-> IF Snap.request = Malformed THEN None ELSE Snap.request, id |-> requests]
          \in Migrations
      BY <3>1 DEF Snap, Clusters, Migrations, InFlight, Terminal
    <3> QED
      BY <1>4, <3>2 DEF Start
  <2>3. record # None
    BY RecordsExist DEF TypeInv, TypeOK
  <2> QED
    BY <1>b, <2>1, <2>2, <2>3
<1>5. ASSUME SetPhase PROVE CleanInv'
  <2>1. /\ cw.snap.fm \in Migrations /\ cw.next \in InFlight \cup Terminal
        /\ fm = cw.snap.fm /\ <<fm.phase, cw.next>> \in Advances
    BY <1>5 DEF SetPhase, At, TypeInv, WorkerOK, Workers, InFlightPoints, Clusters, RecordInv
  <2> DEFINE record == [Snap.fm EXCEPT !.phase = cw.next]
  <2>2. record \in Migrations /\ record.phase = cw.next
    BY <2>1 DEF Snap, Migrations
  <2>3. record # None
    BY <2>2, RecordsExist DEF TypeInv, TypeOK
  <2>4. cw.next \in {"Validating", "Converging", "Completed", "Failed"} => \A n \in Nodes : Restored(n)
    BY <1>5, <2>1 DEF SetPhase, At, CleanInv, Advances
  <2>5. SetFactorMigration(record, "idle")
    BY <1>5 DEF SetPhase
  <2> HIDE DEF record
  <2> QED
    BY <1>b, <2>2, <2>3, <2>4, <2>5
<1>6. ASSUME Fail PROVE CleanInv'
  <2>1. \A n \in Nodes : Restored(n)
    BY <1>6 DEF Fail, At, CleanInv
  <2> DEFINE record == IF Snap.fm = None THEN [phase |-> "Failed", to |-> None, id |-> requests]
                       ELSE [Snap.fm EXCEPT !.phase = "Failed"]
  <2>2. record \in Migrations
    <3>1. cw.snap \in Clusters /\ requests \in IDs
      BY <1>6, SceneTypes DEF Fail, At, TypeInv, TypeOK, WorkerOK, Workers, Requested, IDs
    <3> QED
      BY <3>1 DEF Snap, Clusters, Migrations, Terminal
  <2>3. record # None
    BY <2>2, RecordsExist DEF TypeInv, TypeOK
  <2>4. SetFactorMigration(record, IF cw.abort THEN "dropAnnotations" ELSE "idle")
    BY <1>6 DEF Fail
  <2> HIDE DEF record
  <2> QED
    BY <1>b, <2>1, <2>3, <2>4
<1> QED
  BY <1>1, <1>2, <1>3, <1>4, <1>5, <1>6 DEF DropAnnotations, Refused, Abandon

\* The work of the phases that writes no StatefulSet.
LEMMA WorkCleanInv ==
  ASSUME TypeInv, RecordInv, CleanInv,
         \/ FmValidate \/ FmCheckStuck \/ FmScaleDown \/ CountStoragePods \/ FmPurge
         \/ VerifyPreparation \/ FmVerify \/ FmConverge \/ FmRebuildLayout
         \/ \E n \in Nodes : Suspend(n) \/ Resume(n) \/ ReleaseSuspension(n)
  PROVE  CleanInv'
<1>0. cw \in Workers /\ WorkerOK
  BY DEF TypeInv, WorkerOK
<1>a. fm' = fm /\ sts' = sts
  BY DEF FmValidate, FmCheckStuck, FmScaleDown, CountStoragePods, FmPurge, VerifyPreparation, FmVerify,
     FmConverge, FmRebuildLayout, Suspend, Resume, ReleaseSuspension, workloads
<1>f. ASSUME Return PROVE CleanInv'
  BY <1>a, <1>f, ReturnOK, CleanMove DEF TeardownPoints
<1>g. ASSUME NEW p \in InFlight \cup Terminal, p # "Converging", Advance(p) PROVE CleanInv'
  <2>1. cw'.pc = "advance" /\ cw'.next = p
    BY <1>0, <1>g DEF Advance, Workers
  <2> QED
    BY <1>a, <1>g, <2>1, CleanMove DEF TeardownPoints
<1>h. ASSUME Pass("strip") PROVE CleanInv'
  <2>1. cw'.pc = "strip" /\ cw'.todo = Nodes
    BY <1>0, <1>h DEF Pass, Workers
  <2> QED
    BY <1>a, <2>1, CleanTeardown
<1>i. ASSUME NEW l \in Points, l \notin TeardownPoints \cup {"advance"},
             Pass(l) \/ \E n \in Nodes : Visited(n, l, l)
      PROVE  CleanInv'
  <2>1. cw'.pc = l
    BY <1>0, <1>i, VisitedMoves DEF Pass, Workers
  <2> QED
    BY <1>a, <1>i, <2>1, CleanMove
<1>1. ASSUME FmValidate PROVE CleanInv'
  BY <1>1, <1>f, <1>g, <1>h DEF FmValidate, InFlight
<1>2. ASSUME FmCheckStuck PROVE CleanInv'
  BY <1>2, <1>h DEF FmCheckStuck
<1>3. ASSUME FmScaleDown PROVE CleanInv'
  BY <1>3, <1>i DEF FmScaleDown, Points, TeardownPoints
<1>4. ASSUME CountStoragePods PROVE CleanInv'
  BY <1>4, <1>f, <1>g DEF CountStoragePods, InFlight
<1>5. ASSUME FmPurge PROVE CleanInv'
  <2>1. cw'.pc \in {"config", "verify"}
    BY <1>0, <1>5 DEF FmPurge, Workers
  <2> QED
    BY <1>a, <2>1, CleanMove DEF TeardownPoints
<1>6. ASSUME VerifyPreparation PROVE CleanInv'
  <2>1. cw'.pc \in {"verify", "scaleUp"}
    BY <1>0, <1>6, VisitedMoves DEF VerifyPreparation, Points
  <2> QED
    BY <1>a, <2>1, CleanMove DEF TeardownPoints
<1>7. ASSUME FmVerify PROVE CleanInv'
  BY <1>7, <1>f, <1>g DEF FmVerify, InFlight
<1>8. ASSUME FmConverge PROVE CleanInv'
  BY <1>8, <1>i DEF FmConverge, Points, TeardownPoints
<1>9. ASSUME FmRebuildLayout PROVE CleanInv'
  <2>1. CASE Pass("stripRebuilt") /\ \A n \in Nodes : sts[n].replicas = 1
    <3>1. cw'.pc = "stripRebuilt" /\ cw'.todo = Nodes
      BY <1>0, <2>1 DEF Pass, Workers
    <3> QED
      BY <1>a, <2>1, <3>1 DEF CleanInv, Restored
  <2> QED
    BY <1>9, <1>f, <2>1 DEF FmRebuildLayout
<1>10. ASSUME NEW n \in Nodes, Suspend(n) PROVE CleanInv'
  <2>1. cw'.pc = "scaleDown"
    BY <1>0, <1>10 DEF Suspend, Workers
  <2> QED
    BY <1>a, <2>1, CleanMove DEF TeardownPoints
<1>11. ASSUME NEW n \in Nodes, Resume(n) PROVE CleanInv'
  BY <1>11, <1>g, <1>i DEF Resume, Terminal, Points, TeardownPoints
<1>12. ASSUME NEW n \in Nodes, ReleaseSuspension(n) PROVE CleanInv'
  <2>1. cw.pc = "release" /\ cw'.pc \in {"release", "fail"}
    BY <1>0, <1>12, VisitedMoves DEF ReleaseSuspension, Points, At
  <2> QED
    BY <1>a, <2>1 DEF CleanInv, Restored
<1> QED
  BY <1>1, <1>2, <1>3, <1>4, <1>5, <1>6, <1>7, <1>8, <1>9, <1>10, <1>11, <1>12

\* The walks that write StatefulSets.
LEMMA StatefulSetCleanInv ==
  ASSUME TypeInv, RecordInv, CleanInv,
         \/ ScaleDown \/ PatchConfigRevision \/ PatchPurgeInit \/ ScaleUp \/ StripRebuilt
         \/ Strip \/ Restore
  PROVE  CleanInv'
<1> DEFINE n == First(cw.todo)
<1>0. cw \in Workers /\ WorkerOK /\ sts \in [Nodes -> StatefulSets]
  BY DEF TypeInv, TypeOK, WorkerOK
<1>a. fm' = fm /\ scene' = scene /\ ~At("idle")
  BY DEF ScaleDown, PatchConfigRevision, PatchPurgeInit, ScaleUp, StripRebuilt, Strip, Restore, counters, At
<1>b. n \in cw.todo /\ n \in Nodes /\ cw.todo \in SUBSET Nodes
  BY <1>0, <1>a, FirstIn DEF WorkerOK, Workers, At
<1> HIDE DEF n
<1>1. ASSUME ScaleDown \/ PatchConfigRevision \/ PatchPurgeInit \/ ScaleUp PROVE CleanInv'
  <2>1. cw.pc \in {"scaleDown", "config", "init", "scaleUp"}
    BY <1>1 DEF ScaleDown, PatchConfigRevision, PatchPurgeInit, ScaleUp, At
  <2>2. fm # None /\ fm.phase \in {"ScalingDown", "Purging"}
    BY <2>1 DEF RecordInv, InFlightPoints
  <2>3. /\ cw'.pc \in {"suspend", "count", "config", "init", "verify", "scaleUp", "advance"}
        /\ (cw'.pc = "advance" => cw'.next = "Verifying")
    <3>1. CASE Advance("Verifying")
      BY <1>0, <3>1 DEF Advance, Workers
    <3>2. \/ \E m : Visited(m, "suspend", "count")
          \/ \E m : Visited(m, "config", "init")
          \/ \E m : Visited(m, "init", "verify")
          \/ \E m : Visited(m, "scaleUp", "scaleUp")
          \/ Advance("Verifying")
      BY <1>1 DEF ScaleDown, PatchConfigRevision, PatchPurgeInit, ScaleUp
    <3>3. ASSUME NEW m, Visited(m, "suspend", "count") PROVE cw'.pc \in {"suspend", "count"}
      BY <1>0, <3>3, VisitedMoves DEF Points
    <3>4. ASSUME NEW m, Visited(m, "config", "init") PROVE cw'.pc \in {"config", "init"}
      BY <1>0, <3>4, VisitedMoves DEF Points
    <3>5. ASSUME NEW m, Visited(m, "init", "verify") PROVE cw'.pc \in {"init", "verify"}
      BY <1>0, <3>5, VisitedMoves DEF Points
    <3>6. ASSUME NEW m, Visited(m, "scaleUp", "scaleUp") PROVE cw'.pc \in {"scaleUp"}
      BY <1>0, <3>6, VisitedMoves DEF Points
    <3> QED
      BY <3>1, <3>2, <3>3, <3>4, <3>5, <3>6
  <2> QED
    BY <1>a, <2>2, <2>3 DEF CleanInv
<1>2. ASSUME StripRebuilt PROVE CleanInv'
  <2>1. /\ cw.pc = "stripRebuilt" /\ fm # None /\ fm.phase = "RebuildingLayout"
        /\ sts' = [sts EXCEPT ![n].purge = None]
    BY <1>2 DEF StripRebuilt, At, RecordInv, InFlightPoints, n
  <2>2. \A m \in Nodes : sts'[m].replicas = 1 /\ (m \notin cw.todo \ {n} => sts'[m].purge = None)
    BY <1>0, <1>b, <2>1 DEF CleanInv, StatefulSets
  <2>3. CASE Advance("Converging") /\ cw.todo = {n}
    <3>1. cw'.pc = "advance"
      BY <1>0, <2>3 DEF Advance, Workers
    <3> QED
      BY <1>a, <2>1, <2>2, <2>3, <3>1 DEF CleanInv, Restored
  <2>4. CASE Visited(n, "stripRebuilt", "stripRebuilt") /\ cw.todo # {n}
    <3>1. cw'.pc = "stripRebuilt" /\ cw'.todo = cw.todo \ {n}
      BY <1>0, <2>4, VisitedMoves DEF Points
    <3> QED
      BY <1>a, <2>1, <2>2, <3>1 DEF CleanInv, Restored
  <2> QED
    BY <1>2, <2>3, <2>4 DEF StripRebuilt, n
<1>3. ASSUME Strip PROVE CleanInv'
  <2>1. /\ cw.pc = "strip" /\ cw'.pc = "restore" /\ cw'.todo = cw.todo
        /\ sts' = [sts EXCEPT ![n].purge = None]
    BY <1>0, <1>3 DEF Strip, Goto, At, Workers, n
  <2>2. /\ \A m \in Nodes : Restored(m) => sts'[m].replicas = 1 /\ sts'[m].purge = None
        /\ sts'[n].purge = None
    BY <1>0, <1>b, <2>1 DEF Restored, StatefulSets
  <2> QED
    BY <1>a, <1>b, <2>1, <2>2 DEF CleanInv, Restored, n
<1>4. ASSUME Restore PROVE CleanInv'
  <2>1. /\ cw.pc = "restore" /\ sts' = [sts EXCEPT ![n].replicas = 1]
        /\ Visited(n, "strip", "release")
    BY <1>4 DEF Restore, At, n
  <2>2. /\ \A m \in Nodes : Restored(m) => sts'[m].replicas = 1 /\ sts'[m].purge = None
        /\ sts'[n].replicas = 1 /\ sts'[n].purge = None
    BY <1>0, <1>b, <2>1 DEF Restored, StatefulSets, CleanInv, n
  <2>3. \/ cw.todo = {n} /\ cw'.pc = "release"
        \/ cw.todo # {n} /\ cw'.pc = "strip" /\ cw'.todo = cw.todo \ {n}
    BY <1>0, <2>1, VisitedMoves DEF Points
  <2> QED
    BY <1>a, <2>1, <2>2, <2>3 DEF CleanInv, Restored
<1> QED
  BY <1>1, <1>2, <1>3, <1>4

\* The GarageNode controller renders a StatefulSet as a teardown leaves it.
LEMMA EnvironmentCleanInv ==
  ASSUME TypeInv, CleanInv, Environment \/ UNCHANGED vars
  PROVE  CleanInv'
<1>0. sts \in [Nodes -> StatefulSets] /\ nw \in [obj : Nodes, factor : AllFactors] \cup {None}
  BY DEF TypeInv, TypeOK
<1>1. cw' = cw /\ (fm' = fm \/ (fm # None /\ fm.phase \in Terminal /\ fm' = None))
  BY EnvironmentLeaves
<1>2. \A m \in Nodes : sts'[m] = sts[m] \/ (sts'[m].replicas = 1 /\ sts'[m].purge = None)
  <2>1. CASE sts' = sts
    BY <2>1
  <2>2. CASE ReconcileStatefulSet
    BY <1>0, <2>2 DEF ReconcileStatefulSet
  <2> QED
    BY <2>1, <2>2 DEF Environment, StartNodeReconcile, RollOut, Observe, CreatePod, RemovePod,
       Evict, PurgeInit, Boot, LearnLayout, SyncCache, Request, RequestAbort, ClearStatus, Expire, vars,
       workloads
<1>3. (fm' = None \/ fm'.phase \in {"Validating", "Converging", "Completed", "Failed"})
      => (fm = None \/ fm.phase \in {"Validating", "Converging", "Completed", "Failed"})
  BY <1>1 DEF Terminal
<1>4. cw.pc = "restore" => First(cw.todo) \in Nodes
  BY FirstIn DEF TypeInv, WorkerOK, Workers
<1> QED
  BY <1>1, <1>2, <1>3, <1>4 DEF CleanInv, Restored

\* CleanInv is inductive.
LEMMA NextCleanInv == TypeInv /\ RecordInv /\ CleanInv /\ [Next]_vars => CleanInv'
<1> SUFFICES ASSUME TypeInv, RecordInv, CleanInv, [Next]_vars PROVE CleanInv'
  OBVIOUS
<1>1. CASE Environment \/ UNCHANGED vars
  BY <1>1, EnvironmentCleanInv
<1>2. CASE ClusterStep \/ Abandon
  BY <1>2, DriverCleanInv, WorkCleanInv, StatefulSetCleanInv DEF ClusterStep
<1> QED
  BY <1>1, <1>2 DEF Next, Environment

\* A failed or aborted migration leaves every storage StatefulSet at one replica and
\* without the purge init container, for any number of nodes, failed reconciles,
\* lost status writes and overlapping GarageNode reconciles.
THEOREM FailureRestoresWorkloads == Spec => []FailedRestoresWorkloads
<1>1. Init => CleanInv
  BY DEF Init, Idle, CleanInv, Restored
<1>2. Spec => [](TypeInv /\ RecordInv /\ CleanInv)
  BY <1>1, RecordInvariant, NextCleanInv, PTL DEF Spec
<1>3. CleanInv => FailedRestoresWorkloads
  BY DEF CleanInv, Restored, FailedRestoresWorkloads
<1> QED
  BY <1>2, <1>3, PTL

-----------------------------------------------------------------------------
(* A finished migration suspends no GarageNode.                            *)

\* With an informer that does not lag: a node is suspended only by a migration whose
\* record says so, and a walk over the nodes has released those it left behind.
ReleaseInv ==
  /\ cached = susp
  /\ fm = None \/ fm.phase \in {"Validating", "Completed", "Failed"}
       => \A n \in Nodes : susp[n] = None
  /\ cw.pc \in {"resume", "release"} => \A n \in Nodes \ cw.todo : susp[n] = None
  /\ cw.pc = "advance" /\ cw.next = "Completed" => \A n \in Nodes : susp[n] = None
  /\ cw.pc = "fail" => \A n \in Nodes : susp[n] = None

ReleasePoints == {"resume", "release", "fail"}

\* A step that writes no suspension and no record, outside the walks that release.
LEMMA ReleaseMove ==
  ASSUME ReleaseInv, susp' = susp, cached' = cached, fm' = fm, cw'.pc \notin ReleasePoints,
         cw'.pc = "advance" => cw'.next # "Completed"
  PROVE  ReleaseInv'
  BY DEF ReleaseInv, ReleasePoints

\* The record becomes terminal only after the walk that releases every GarageNode.
LEMMA DriverReleaseInv ==
  ASSUME TypeInv, RecordInv, ReleaseInv,
         StartReconcile \/ Start \/ Consume \/ SetPhase \/ Fail \/ DropAnnotations \/ Refused
         \/ Abandon
  PROVE  ReleaseInv'
<1>0. cw \in Workers
  BY DEF TypeInv, WorkerOK
<1>a. susp' = susp /\ cached' = cached
  BY DEF StartReconcile, Start, Consume, SetPhase, Fail, DropAnnotations, Refused, Abandon, annotations
<1>1. ASSUME Return, fm' = fm PROVE ReleaseInv'
  BY <1>1, <1>a, ReturnOK, ReleaseMove DEF ReleasePoints
<1>2. ASSUME StartReconcile PROVE ReleaseInv'
  <2>1. fm' = fm /\ cw'.pc \in {"strip", "start", "dispatch", "consumeInFlight", "consume"}
    BY <1>2 DEF StartReconcile
  <2> QED
    BY <1>a, <2>1, ReleaseMove DEF ReleasePoints
<1>3. ASSUME Consume PROVE ReleaseInv'
  <2>1. fm' = fm
    BY <1>3 DEF Consume
  <2>2. CASE cw' = [cw EXCEPT !.pc = "dispatch", !.snap.request = None]
    <3>1. cw'.pc = "dispatch"
      BY <1>0, <2>2 DEF Workers
    <3> QED
      BY <1>a, <2>1, <3>1, ReleaseMove DEF ReleasePoints
  <2> QED
    BY <1>1, <1>3, <2>1, <2>2 DEF Consume
<1>b. ASSUME NEW record, NEW l \in {"idle", "consume", "dropAnnotations"},
             SetFactorMigration(record, l),
             record = None \/ record.phase \in {"Validating", "Completed", "Failed"}
               => \A n \in Nodes : susp[n] = None
      PROVE  ReleaseInv'
  <2>1. cw'.pc = l
    BY <1>0, <1>b, SetMoves
  <2>2. fm' = fm \/ fm' = record
    BY <1>b DEF SetFactorMigration
  <2> QED
    BY <1>a, <1>b, <2>1, <2>2 DEF ReleaseInv
<1>4. ASSUME Start PROVE ReleaseInv'
  <2>1. \A n \in Nodes : susp[n] = None
    BY <1>4 DEF Start, At, RecordInv, ReleaseInv
  <2> QED
    BY <1>4, <1>b, <2>1 DEF Start
<1>5. ASSUME SetPhase PROVE ReleaseInv'
  <2>1. /\ cw.snap.fm \in Migrations /\ cw.next \in InFlight \cup Terminal
        /\ fm = cw.snap.fm /\ <<fm.phase, cw.next>> \in Advances
    BY <1>5 DEF SetPhase, At, TypeInv, WorkerOK, Workers, InFlightPoints, Clusters, RecordInv
  <2> DEFINE record == [Snap.fm EXCEPT !.phase = cw.next]
  <2>2. record \in Migrations /\ record.phase = cw.next
    BY <2>1 DEF Snap, Migrations
  <2>3. record # None
    BY <2>2, RecordsExist DEF TypeInv, TypeOK
  <2>4. cw.next \in {"Validating", "Completed", "Failed"} => \A n \in Nodes : susp[n] = None
    BY <1>5, <2>1 DEF SetPhase, At, ReleaseInv, Advances
  <2>5. SetFactorMigration(record, "idle")
    BY <1>5 DEF SetPhase
  <2> HIDE DEF record
  <2> QED
    BY <1>b, <2>2, <2>3, <2>4, <2>5
<1>6. ASSUME Fail PROVE ReleaseInv'
  <2>1. \A n \in Nodes : susp[n] = None
    BY <1>6 DEF Fail, At, ReleaseInv
  <2> QED
    BY <1>6, <1>b, <2>1 DEF Fail
<1> QED
  BY <1>1, <1>2, <1>3, <1>4, <1>5, <1>6 DEF DropAnnotations, Refused, Abandon

\* The walks of fmConverge and of the teardown release what they leave behind.
LEMMA WorkReleaseInv ==
  ASSUME TypeInv, RecordInv, ReleaseInv, ~scene.stale,
         \/ FmValidate \/ FmCheckStuck \/ FmScaleDown \/ CountStoragePods \/ FmPurge
         \/ VerifyPreparation \/ FmVerify \/ FmConverge \/ FmRebuildLayout
         \/ ScaleDown \/ PatchConfigRevision \/ PatchPurgeInit \/ ScaleUp \/ StripRebuilt
         \/ Strip \/ Restore
         \/ \E n \in Nodes : Suspend(n) \/ Resume(n) \/ ReleaseSuspension(n)
  PROVE  ReleaseInv'
<1>0. cw \in Workers /\ susp \in [Nodes -> IDs \cup {None}]
  BY DEF TypeInv, TypeOK, WorkerOK
<1>a. fm' = fm
  BY DEF FmValidate, FmCheckStuck, FmScaleDown, CountStoragePods, FmPurge, VerifyPreparation, FmVerify,
     FmConverge, FmRebuildLayout, Suspend, Resume, ReleaseSuspension, ScaleDown, PatchConfigRevision,
     PatchPurgeInit, ScaleUp, StripRebuilt, Strip, Restore
<1>b. ASSUME UNCHANGED annotations, cw'.pc \notin ReleasePoints,
             cw'.pc = "advance" => cw'.next # "Completed"
      PROVE  ReleaseInv'
  BY <1>a, <1>b, ReleaseMove DEF annotations
<1>f. ASSUME UNCHANGED annotations, Return PROVE ReleaseInv'
  BY <1>b, <1>f, ReturnOK DEF ReleasePoints
<1>g. ASSUME UNCHANGED annotations, NEW p \in InFlight, Advance(p) PROVE ReleaseInv'
  <2>1. cw'.pc = "advance" /\ cw'.next = p
    BY <1>0, <1>g DEF Advance, Workers
  <2> QED
    BY <1>b, <1>g, <2>1 DEF ReleasePoints, InFlight
<1>h. ASSUME UNCHANGED annotations, NEW l \in Points, NEW end \in Points,
             {l, end} \cap (ReleasePoints \cup {"advance"}) = {},
             Pass(l) \/ \E n : Visited(n, l, end)
      PROVE  ReleaseInv'
  <2>1. cw'.pc \in {l, end}
    BY <1>0, <1>h, VisitedMoves DEF Pass, Workers
  <2> QED
    BY <1>b, <1>h, <2>1
<1>1. ASSUME FmValidate \/ FmCheckStuck \/ FmScaleDown \/ CountStoragePods \/ FmVerify
             \/ FmRebuildLayout
      PROVE  ReleaseInv'
  <2>1. UNCHANGED annotations
    BY <1>1 DEF FmValidate, FmCheckStuck, FmScaleDown, CountStoragePods, FmVerify, FmRebuildLayout
  <2>2. \/ Return
        \/ \E p \in {"ScalingDown", "Purging", "RebuildingLayout"} : Advance(p)
        \/ \E l \in {"strip", "suspend", "stripRebuilt"} : Pass(l)
    BY <1>1 DEF FmValidate, FmCheckStuck, FmScaleDown, CountStoragePods, FmVerify, FmRebuildLayout
  <2> QED
    BY <1>f, <1>g, <1>h, <2>1, <2>2 DEF InFlight, Points, ReleasePoints
<1>2. ASSUME FmPurge PROVE ReleaseInv'
  <2>1. cw'.pc \in {"config", "verify"}
    BY <1>0, <1>2 DEF FmPurge, Workers
  <2> QED
    BY <1>2, <1>b, <2>1 DEF FmPurge, ReleasePoints
<1>3. ASSUME VerifyPreparation \/ PatchConfigRevision \/ PatchPurgeInit \/ ScaleDown
      PROVE  ReleaseInv'
  <2>1. UNCHANGED annotations
    BY <1>3 DEF VerifyPreparation, PatchConfigRevision, PatchPurgeInit, ScaleDown
  <2>2. \E l \in {"verify", "config", "init", "suspend"},
           end \in {"scaleUp", "init", "verify", "count"} : \E n : Visited(n, l, end)
    BY <1>3 DEF VerifyPreparation, PatchConfigRevision, PatchPurgeInit, ScaleDown
  <2> QED
    BY <1>h, <2>1, <2>2 DEF Points, ReleasePoints
<1>4. ASSUME ScaleUp \/ StripRebuilt PROVE ReleaseInv'
  <2>1. UNCHANGED annotations
    BY <1>4 DEF ScaleUp, StripRebuilt
  <2>2. \/ \E p \in {"Verifying", "Converging"} : Advance(p)
        \/ \E l \in {"scaleUp", "stripRebuilt"} : \E n : Visited(n, l, l)
    BY <1>4 DEF ScaleUp, StripRebuilt
  <2> QED
    BY <1>g, <1>h, <2>1, <2>2 DEF InFlight, Points, ReleasePoints
<1>5. ASSUME Strip PROVE ReleaseInv'
  <2>1. cw'.pc = "restore"
    BY <1>0, <1>5 DEF Strip, Goto, Workers
  <2> QED
    BY <1>5, <1>b, <2>1 DEF Strip, ReleasePoints
<1>6. ASSUME Restore PROVE ReleaseInv'
  <2>1. /\ cw'.pc \in {"strip", "release"} /\ susp' = susp /\ cached' = cached
        /\ (cw'.pc = "release" => cw'.todo = Nodes)
    BY <1>0, <1>6, VisitedMoves DEF Restore, Points, annotations
  <2> QED
    BY <1>a, <2>1 DEF ReleaseInv
<1>7. ASSUME FmConverge PROVE ReleaseInv'
  <2>1. cw'.pc = "resume" /\ cw'.todo = Nodes /\ susp' = susp /\ cached' = cached
    BY <1>0, <1>7 DEF FmConverge, Pass, Workers, annotations
  <2> QED
    BY <1>a, <2>1 DEF ReleaseInv
<1>8. ASSUME NEW n \in Nodes, Suspend(n) PROVE ReleaseInv'
  <2>1. cw.pc = "suspend" /\ cw'.pc = "scaleDown" /\ cached' = susp'
    BY <1>0, <1>8 DEF Suspend, At, Workers
  <2>2. fm # None /\ fm.phase = "ScalingDown"
    BY <2>1 DEF RecordInv, InFlightPoints
  <2> QED
    BY <1>a, <2>1, <2>2 DEF ReleaseInv
<1>c. ASSUME NEW n \in Nodes, ClearSuspension(n)
      PROVE  /\ cached' = susp' /\ susp'[n] = None
             /\ \A m \in Nodes : susp[m] = None => susp'[m] = None
  BY <1>0, <1>c DEF ClearSuspension, ReleaseInv
<1>9. ASSUME NEW n \in Nodes, Resume(n) PROVE ReleaseInv'
  <2>1. cw.pc = "resume" /\ ClearSuspension(n) /\ fm # None /\ fm.phase = "Converging"
    BY <1>9 DEF Resume, At, RecordInv, InFlightPoints
  <2>2. CASE Advance("Completed") /\ cw.todo = {n}
    <3>1. cw'.pc = "advance"
      BY <1>0, <2>2 DEF Advance, Workers
    <3> QED
      BY <1>a, <1>c, <2>1, <2>2, <3>1 DEF ReleaseInv
  <2>3. CASE Visited(n, "resume", "resume") /\ cw.todo # {n}
    <3>1. cw'.pc = "resume" /\ cw'.todo = cw.todo \ {n}
      BY <1>0, <2>3, VisitedMoves DEF Points
    <3> QED
      BY <1>a, <1>c, <2>1, <3>1 DEF ReleaseInv
  <2> QED
    BY <1>9, <2>2, <2>3 DEF Resume
<1>10. ASSUME NEW n \in Nodes, ReleaseSuspension(n) PROVE ReleaseInv'
  <2>1. cw.pc = "release" /\ ClearSuspension(n) /\ Visited(n, "release", "fail")
    BY <1>10 DEF ReleaseSuspension, At
  <2>2. \/ cw.todo = {n} /\ cw'.pc = "fail"
        \/ cw.todo # {n} /\ cw'.pc = "release" /\ cw'.todo = cw.todo \ {n}
    BY <1>0, <2>1, VisitedMoves DEF Points
  <2> QED
    BY <1>a, <1>c, <2>1, <2>2 DEF ReleaseInv
<1> QED
  BY <1>1, <1>2, <1>3, <1>4, <1>5, <1>6, <1>7, <1>8, <1>9, <1>10

\* While the informer does not lag, a finished migration leaves no GarageNode
\* suspended, wherever its reconciles ended.
THEOREM TerminalIsReleased ==
  ASSUME \A s \in Scenes : ~s.stale
  PROVE  Spec => []TerminalReleasesNodes
<1>1. Init => ReleaseInv
  BY DEF Init, Idle, ReleaseInv
<1>2. TypeInv /\ RecordInv /\ ReleaseInv /\ [Next]_vars => ReleaseInv'
  <2> SUFFICES ASSUME TypeInv, RecordInv, ReleaseInv, [Next]_vars PROVE ReleaseInv'
    OBVIOUS
  <2>1. CASE Environment \/ UNCHANGED vars
    <3>1. susp' = susp /\ cached' = cached
      BY <2>1 DEF Environment, ReconcileStatefulSet, StartNodeReconcile, RollOut, Observe, CreatePod,
         RemovePod, Evict, PurgeInit, Boot, LearnLayout, SyncCache, Request, RequestAbort, ClearStatus,
         Expire, vars, annotations, ReleaseInv
    <3>2. cw' = cw /\ (fm' = fm \/ (fm # None /\ fm.phase \in Terminal /\ fm' = None))
      BY <2>1, EnvironmentLeaves
    <3> QED
      BY <3>1, <3>2 DEF ReleaseInv, Terminal
  <2>2. CASE ClusterStep \/ Abandon
    <3>1. ~scene.stale
      BY DEF TypeInv, TypeOK
    <3> QED
      BY <2>2, <3>1, DriverReleaseInv, WorkReleaseInv DEF ClusterStep
  <2> QED
    BY <2>1, <2>2 DEF Next, Environment
<1>3. ReleaseInv => TerminalReleasesNodes
  BY DEF ReleaseInv, TerminalReleasesNodes, Terminal
<1> QED
  BY <1>1, <1>2, <1>3, RecordInvariant, PTL DEF Spec

-----------------------------------------------------------------------------
(* A request is recorded before its annotation goes.                       *)

\* While no status write is lost, the annotation is dropped from an object that
\* carries a record.
KeptInv == cw.pc \in {"consume", "dropAnnotations"} => cw.snap.fm # None

\* A reconcile that removes an annotation has read, or written, a record.
LEMMA NextKeptInv ==
  ASSUME \A s \in Scenes : s.lost = 0
  PROVE  TypeInv /\ RecordInv /\ KeptInv /\ [Next]_vars => KeptInv'
<1> SUFFICES ASSUME TypeInv, RecordInv, KeptInv, [Next]_vars PROVE KeptInv'
  OBVIOUS
<1>0. cw \in Workers /\ ~(lost < scene.lost)
  <2>1. scene.lost = 0 /\ lost \in 0..scene.lost
    BY DEF TypeInv, TypeOK
  <2> QED
    BY <2>1 DEF TypeInv, WorkerOK
<1>1. CASE Environment \/ UNCHANGED vars
  BY <1>1, EnvironmentLeaves DEF KeptInv
<1>2. ASSUME cw'.pc \notin {"consume", "dropAnnotations"} PROVE KeptInv'
  BY <1>2 DEF KeptInv
<1>3. ASSUME Return PROVE KeptInv'
  BY <1>2, <1>3, ReturnOK
<1>4. ASSUME NEW record \in Migrations, NEW l \in {"idle", "consume", "dropAnnotations"},
             SetFactorMigration(record, l)
      PROVE  KeptInv'
  <2>1. CASE cw' = Idle
    BY <1>3, <2>1 DEF Return
  <2>2. CASE cw' = [cw EXCEPT !.pc = l, !.snap = [Cluster EXCEPT !.fm = record]]
    <3>1. [Cluster EXCEPT !.fm = record].fm = record
      BY DEF Cluster
    <3>2. record # None
      BY RecordsExist DEF TypeInv, TypeOK
    <3> DEFINE x == [Cluster EXCEPT !.fm = record]
    <3> HIDE DEF x
    <3>3. cw'.snap = x
      BY <1>0, <2>2 DEF Workers, x
    <3> QED
      BY <3>1, <3>2, <3>3 DEF KeptInv, x
  <2> QED
    BY <1>0, <1>4, <2>1, <2>2 DEF SetFactorMigration
<1>5. ASSUME Start PROVE KeptInv'
  <2>1. cw.snap \in Clusters /\ requests \in IDs
    BY <1>5, SceneTypes DEF Start, At, TypeInv, TypeOK, WorkerOK, Workers, Requested, IDs
  <2>2. [phase |-> IF Snap.request = Malformed THEN "Failed" ELSE "Validating",
         to |-> IF Snap.request = Malformed THEN None ELSE Snap.request, id |-> requests]
        \in Migrations
    BY <2>1 DEF Snap, Clusters, Migrations, InFlight, Terminal
  <2> QED
    BY <1>4, <1>5, <2>2 DEF Start
<1>6. ASSUME SetPhase PROVE KeptInv'
  BY <1>0, <1>2, <1>6, SetMoves DEF SetPhase
<1>7. ASSUME Fail PROVE KeptInv'
  <2>1. cw.snap \in Clusters /\ requests \in IDs
    BY <1>7, SceneTypes DEF Fail, At, TypeInv, TypeOK, WorkerOK, Workers, Requested, IDs
  <2>2. (IF Snap.fm = None THEN [phase |-> "Failed", to |-> None, id |-> requests]
                ELSE [Snap.fm EXCEPT !.phase = "Failed"]) \in Migrations
    BY <2>1 DEF Snap, Clusters, Migrations, Terminal
  <2> QED
    BY <1>4, <1>7, <2>2 DEF Fail
<1>8. ASSUME StartReconcile PROVE KeptInv'
  BY <1>8 DEF StartReconcile, KeptInv
<1>9. ASSUME Consume PROVE KeptInv'
  <2>1. CASE cw' = [cw EXCEPT !.pc = "dispatch", !.snap.request = None]
    BY <1>0, <1>2, <2>1 DEF Workers
  <2> QED
    BY <1>3, <1>9, <2>1 DEF Consume
<1>10. CASE ClusterStep \/ Abandon
  <2>1. ASSUME NEW l \in Points \ {"consume", "dropAnnotations"},
               NEW end \in Points \ {"consume", "dropAnnotations"},
               Pass(l) \/ \E n : Visited(n, l, end)
        PROVE  KeptInv'
    <3>1. cw'.pc \in {l, end}
      BY <1>0, <2>1, VisitedMoves DEF Pass, Workers
    <3> QED
      BY <1>2, <3>1
  <2>2. ASSUME NEW p, Advance(p) PROVE KeptInv'
    BY <1>0, <1>2, <2>2 DEF Advance, Workers
  <2>3. ASSUME FmPurge \/ Strip \/ \E n \in Nodes : Suspend(n) PROVE KeptInv'
    <3>1. cw'.pc \in {"config", "verify", "restore", "scaleDown"}
      BY <1>0, <2>3 DEF FmPurge, Strip, Goto, Suspend, Workers
    <3> QED
      BY <1>2, <3>1
  <2>4. ASSUME FmValidate \/ FmCheckStuck \/ FmScaleDown \/ CountStoragePods \/ FmVerify
               \/ FmRebuildLayout \/ FmConverge
        PROVE  KeptInv'
    BY <1>3, <2>1, <2>2, <2>4 DEF FmValidate, FmCheckStuck, FmScaleDown, CountStoragePods, FmVerify,
       FmRebuildLayout, FmConverge, Points
  <2>5. ASSUME VerifyPreparation \/ PatchConfigRevision \/ PatchPurgeInit \/ ScaleDown \/ ScaleUp
               \/ StripRebuilt \/ Restore \/ \E n \in Nodes : Resume(n) \/ ReleaseSuspension(n)
        PROVE  KeptInv'
    <3>1. \/ \E p : Advance(p)
          \/ \E l \in {"verify", "config", "init", "suspend", "scaleUp", "stripRebuilt", "strip",
                       "resume", "release"},
                end \in {"scaleUp", "init", "verify", "count", "stripRebuilt", "release", "resume",
                         "fail"} :
               \E n : Visited(n, l, end)
      BY <2>5 DEF VerifyPreparation, PatchConfigRevision, PatchPurgeInit, ScaleDown, ScaleUp,
         StripRebuilt, Restore, Resume, ReleaseSuspension
    <3> QED
      BY <2>1, <2>2, <3>1 DEF Points
  <2> QED
    BY <1>3, <1>5, <1>6, <1>7, <1>8, <1>9, <1>10, <2>3, <2>4, <2>5
       DEF ClusterStep, DropAnnotations, Refused, Abandon
<1> QED
  BY <1>1, <1>10 DEF Next, Environment

\* While no status write is lost, the annotation that asks for a migration goes only
\* when status.factorMigration tells what became of it.
THEOREM RequestsAreRecorded ==
  ASSUME \A s \in Scenes : s.lost = 0
  PROVE  Spec => RequestIsRecorded
<1>1. Init => KeptInv
  BY DEF Init, Idle, KeptInv
<1>2. Spec => [](TypeInv /\ RecordInv /\ KeptInv)
  BY <1>1, NextKeptInv, RecordInvariant, PTL DEF Spec
<1>3. ASSUME TypeInv, RecordInv, KeptInv, Next, request # None, request' = None
      PROVE  fm # None
  <2>1. CASE Consume \/ DropAnnotations
    <3>1. Cluster.fm = cw.snap.fm /\ cw.pc \in {"consume", "consumeInFlight", "dropAnnotations"}
      BY <2>1 DEF Consume, DropAnnotations, Unchanged, Snap, At
    <3>2. Cluster.fm = fm
      BY DEF Cluster
    <3> QED
      BY <1>3, <3>1, <3>2 DEF KeptInv, RecordInv, InFlightPoints
  <2>2. ASSUME NEW f \in Factors \cup {Malformed}, Request(f) PROVE FALSE
    BY <1>3, <2>2, MigrationAssumption DEF Request
  <2>3. CASE Next /\ ~(Consume \/ DropAnnotations \/ \E f \in Factors \cup {Malformed} : Request(f))
    <3>1. request' = request
      BY <2>3 DEF Next, ClusterStep, Abandon, StartReconcile, Start, SetPhase, Fail, Refused, FmValidate,
         FmCheckStuck, FmScaleDown, CountStoragePods, FmPurge, VerifyPreparation, FmVerify, FmConverge,
         FmRebuildLayout, ScaleDown, PatchConfigRevision, PatchPurgeInit, ScaleUp, StripRebuilt, Strip,
         Restore, Suspend, Resume, ReleaseSuspension, ReconcileStatefulSet, StartNodeReconcile, RollOut,
         Observe, CreatePod, RemovePod, Evict, PurgeInit, Boot, LearnLayout, SyncCache, RequestAbort,
         ClearStatus, Expire, spec
    <3> QED
      BY <1>3, <3>1
  <2> QED
    BY <1>3, <2>1, <2>2, <2>3
<1>4. TypeInv /\ RecordInv /\ KeptInv /\ [Next]_vars
      => [request # None /\ request' = None => fm # None]_vars
  BY <1>3
<1> QED
  BY <1>2, <1>4, PTL DEF Spec, RequestIsRecorded

-----------------------------------------------------------------------------
(* All processes change their factor together.                             *)

\* The steps of the phases and of the teardown.
Work ==
  \/ FmValidate \/ FmCheckStuck \/ FmScaleDown \/ CountStoragePods \/ FmPurge
  \/ VerifyPreparation \/ FmVerify \/ FmConverge \/ FmRebuildLayout
  \/ ScaleDown \/ PatchConfigRevision \/ PatchPurgeInit \/ ScaleUp \/ StripRebuilt
  \/ Strip \/ Restore
  \/ \E n \in Nodes : Suspend(n) \/ Resume(n) \/ ReleaseSuspension(n)

\* They keep the snapshot, or end the reconcile, and write nothing of the GarageCluster.
LEMMA WorkMoves ==
  ASSUME TypeInv, Work
  PROVE  /\ UNCHANGED <<scene, factor, request, abort, fm, late, nw, requests>>
         /\ cw' = Idle \/ (cw'.snap = cw.snap /\ cw'.abort = cw.abort)
<1>0. cw \in Workers
  BY DEF TypeInv, WorkerOK
<1>1. UNCHANGED <<scene, factor, request, abort, fm, late, nw, requests>>
  BY DEF Work, FmValidate, FmCheckStuck, FmScaleDown, CountStoragePods, FmPurge, VerifyPreparation,
     FmVerify, FmConverge, FmRebuildLayout, Suspend, Resume, ReleaseSuspension, ScaleDown,
     PatchConfigRevision, PatchPurgeInit, ScaleUp, StripRebuilt, Strip, Restore, spec, counters
<1> DEFINE Kept == cw'.snap = cw.snap /\ cw'.abort = cw.abort
<1>2. ASSUME NEW l, Pass(l) PROVE Kept
  BY <1>0, <1>2 DEF Pass, Workers
<1>3. ASSUME NEW p, Advance(p) PROVE Kept
  BY <1>0, <1>3 DEF Advance, Workers
<1>4. ASSUME NEW n, NEW l \in Points, NEW end \in Points, Visited(n, l, end) PROVE Kept
  BY <1>0, <1>4, VisitedMoves
<1>5. ASSUME FmPurge PROVE Kept
  <2>1. \E l, q : cw' = [cw EXCEPT !.pc = l, !.quiet = q, !.todo = Nodes]
    BY <1>5, Zenon DEF FmPurge
  <2>2. ASSUME NEW l, NEW q, cw' = [cw EXCEPT !.pc = l, !.quiet = q, !.todo = Nodes] PROVE Kept
    BY <1>0, <2>2 DEF Workers
  <2> QED
    BY <2>1, <2>2
<1>6. ASSUME Strip \/ \E n \in Nodes : Suspend(n) PROVE Kept
  BY <1>0, <1>6 DEF Strip, Goto, Suspend, Workers
<1>7. ASSUME FmValidate \/ FmCheckStuck \/ FmScaleDown \/ CountStoragePods \/ FmVerify
             \/ FmRebuildLayout \/ FmConverge
      PROVE  cw' = Idle \/ Kept
  <2> HIDE DEF Kept
  <2> QED
    BY <1>2, <1>3, <1>7 DEF FmValidate, FmCheckStuck, FmScaleDown, CountStoragePods, FmVerify,
       FmRebuildLayout, FmConverge, Return
<1>8. ASSUME VerifyPreparation \/ PatchConfigRevision \/ PatchPurgeInit \/ ScaleDown \/ ScaleUp
             \/ StripRebuilt \/ Restore \/ \E n \in Nodes : Resume(n) \/ ReleaseSuspension(n)
      PROVE  Kept
  <2>1. \/ \E p : Advance(p)
        \/ \E l \in {"verify", "config", "init", "suspend", "scaleUp", "stripRebuilt", "strip",
                     "resume", "release"},
              end \in {"scaleUp", "init", "verify", "count", "stripRebuilt", "release", "resume",
                       "fail"} :
             \E n : Visited(n, l, end)
    BY <1>8 DEF VerifyPreparation, PatchConfigRevision, PatchPurgeInit, ScaleDown, ScaleUp,
       StripRebuilt, Restore, Resume, ReleaseSuspension
  <2> HIDE DEF Kept
  <2> QED
    BY <1>3, <1>4, <2>1 DEF Points
<1> HIDE DEF Kept
<1>9. cw' = Idle \/ Kept
  BY <1>5, <1>6, <1>7, <1>8 DEF Work
<1> QED
  BY <1>1, <1>9 DEF Kept

\* The events under which the restart is simultaneous: one request, made when no
\* GarageNode reconcile runs; no status write is lost and no Pod vanishes.
Steady ==
  \A s \in Scenes : s.requests <= 1 /\ s.lost = 0 /\ s.evictions = 0 /\ ~s.overlap

TeardownWalk == {"strip", "restore", "release", "fail"}

\* What one request means: the factor is settled when a reconcile or a GarageNode
\* reconcile reads it, the annotation goes only with a record, and a teardown of a
\* migration under way has a reason that outlives the reconcile.
SteadyInv ==
  /\ cw.snap # None => cw.snap.factor = factor
  /\ nw # None => nw.factor = factor /\ ~FactorMigrationActive(Cluster)
  /\ requests = 0 => factor = OldFactor
  /\ fm = None /\ request = None => requests = 0
  /\ cw.pc = "dropAnnotations" => cw.snap.fm # None /\ cw.snap.fm.phase = "Failed"
  /\ cw.pc \in TeardownWalk /\ fm # None /\ fm.phase \in {"ScalingDown", "Purging"}
       => late \/ (abort /\ cw.abort)

\* Where the work leads: never to the annotations, and into the teardown only from
\* the teardown, from Validating, or past a deadline.
LEMMA WorkPoints ==
  ASSUME TypeInv, RecordInv, Work
  PROVE  /\ cw'.pc \notin {"dropAnnotations", "consume", "consumeInFlight", "dispatch", "start"}
         /\ cw'.pc \in TeardownWalk =>
              \/ cw.pc \in TeardownWalk
              \/ cw.pc = "dispatch" /\ fm # None /\ (fm.phase = "Validating" \/ late)
<1>0. cw \in Workers
  BY DEF TypeInv, WorkerOK
<1> DEFINE Goal ==
  /\ cw'.pc \notin {"dropAnnotations", "consume", "consumeInFlight", "dispatch", "start"}
  /\ cw'.pc \in TeardownWalk =>
       \/ cw.pc \in TeardownWalk
       \/ cw.pc = "dispatch" /\ fm # None /\ (fm.phase = "Validating" \/ late)
<1>1. ASSUME Return PROVE Goal
  BY <1>1, ReturnOK DEF TeardownWalk
<1>2. ASSUME NEW p, Advance(p) PROVE Goal
  BY <1>0, <1>2 DEF Advance, Workers, TeardownWalk
<1>3. ASSUME NEW l \in {"suspend", "stripRebuilt", "resume"}, Pass(l) PROVE Goal
  BY <1>0, <1>3 DEF Pass, Workers, TeardownWalk
<1>4. ASSUME Pass("strip"), At("dispatch"), Snap.fm.phase = "Validating" \/ late PROVE Goal
  <2>1. cw'.pc = "strip" /\ cw.pc = "dispatch"
    BY <1>0, <1>4 DEF Pass, Workers, At
  <2>2. fm # None /\ fm = Snap.fm
    BY <2>1 DEF RecordInv, InFlightPoints, Snap
  <2> QED
    BY <1>4, <2>1, <2>2 DEF TeardownWalk
<1>5. ASSUME NEW n, NEW l \in {"verify", "config", "init", "suspend", "scaleUp", "stripRebuilt", "resume"},
             NEW end \in {"scaleUp", "init", "verify", "count", "stripRebuilt", "resume"},
             Visited(n, l, end)
      PROVE  Goal
  <2>1. cw'.pc \in {l, end}
    BY <1>0, <1>5, VisitedMoves DEF Points
  <2> QED
    BY <2>1 DEF TeardownWalk
<1>6. ASSUME Restore \/ \E n \in Nodes : ReleaseSuspension(n) PROVE Goal
  <2>1. cw.pc \in TeardownWalk /\ cw'.pc \in TeardownWalk
    BY <1>0, <1>6, VisitedMoves DEF Restore, ReleaseSuspension, At, Points, TeardownWalk
  <2> QED
    BY <2>1 DEF TeardownWalk
<1>7. ASSUME FmPurge \/ Strip \/ \E n \in Nodes : Suspend(n) PROVE Goal
  <2>1. cw'.pc \in {"config", "verify", "scaleDown"} \/ (cw.pc = "strip" /\ cw'.pc = "restore")
    BY <1>0, <1>7 DEF FmPurge, Strip, Goto, At, Suspend, Workers
  <2> QED
    BY <2>1 DEF TeardownWalk
<1> HIDE DEF Goal
<1>8. ASSUME FmValidate \/ FmCheckStuck \/ FmScaleDown \/ CountStoragePods \/ FmVerify
             \/ FmRebuildLayout \/ FmConverge
      PROVE  Goal
  BY <1>1, <1>2, <1>3, <1>4, <1>8 DEF FmValidate, FmCheckStuck, FmScaleDown, CountStoragePods, FmVerify,
     FmRebuildLayout, FmConverge, Phase
<1>9. ASSUME VerifyPreparation \/ PatchConfigRevision \/ PatchPurgeInit \/ ScaleDown \/ ScaleUp
             \/ StripRebuilt \/ \E n \in Nodes : Resume(n)
      PROVE  Goal
  BY <1>2, <1>5, <1>9 DEF VerifyPreparation, PatchConfigRevision, PatchPurgeInit, ScaleDown, ScaleUp,
     StripRebuilt, Resume
<1>10. Goal
  BY <1>6, <1>7, <1>8, <1>9 DEF Work
<1> QED
  BY <1>10 DEF Goal

\* The work of the phases keeps SteadyInv.
LEMMA WorkSteadyInv ==
  ASSUME TypeInv, RecordInv, SteadyInv, Work
  PROVE  SteadyInv'
<1>0. cw \in Workers
  BY DEF TypeInv, WorkerOK
<1>1. /\ scene' = scene /\ factor' = factor /\ request' = request /\ abort' = abort /\ fm' = fm
      /\ late' = late /\ nw' = nw /\ requests' = requests
      /\ cw' = Idle \/ (cw'.snap = cw.snap /\ cw'.abort = cw.abort)
  BY WorkMoves
<1>2. Idle.pc = "idle" /\ Idle.snap = None
  BY DEF Idle
<1>3. cw'.pc # "dropAnnotations"
  BY <1>1, <1>2, WorkPoints
<1>4. cw'.pc \in TeardownWalk /\ fm # None /\ fm.phase \in {"ScalingDown", "Purging"}
      => cw.pc \in TeardownWalk \/ late
  BY WorkPoints
<1>5. FactorMigrationActive(Cluster)' = FactorMigrationActive(Cluster)
  BY <1>1 DEF FactorMigrationActive, Cluster
<1> QED
  BY <1>1, <1>2, <1>3, <1>4, <1>5 DEF SteadyInv, TeardownWalk

\* The steps of reconcileFactorMigration around the phases keep SteadyInv.
LEMMA DriverSteadyInv ==
  ASSUME TypeInv, RecordInv, KeptInv, SteadyInv, ~(lost < scene.lost),
         StartReconcile \/ Start \/ Consume \/ SetPhase \/ Fail \/ DropAnnotations \/ Refused
         \/ Abandon
  PROVE  SteadyInv'
<1>0. cw \in Workers /\ factor' = factor /\ nw' = nw /\ requests' = requests
  BY DEF TypeInv, WorkerOK, StartReconcile, Start, Consume, SetPhase, Fail, DropAnnotations, Refused,
     Abandon, spec, counters
<1>1. ASSUME Return, request' = request, abort' = abort, fm' = fm PROVE SteadyInv'
  <2>1. cw'.pc = "idle" /\ cw'.snap = None
    BY <1>1, ReturnOK
  <2>2. FactorMigrationActive(Cluster)' = FactorMigrationActive(Cluster)
    BY <1>1 DEF FactorMigrationActive, Cluster
  <2> QED
    BY <1>0, <1>1, <2>1, <2>2 DEF SteadyInv, TeardownWalk
<1>2. ASSUME StartReconcile PROVE SteadyInv'
  <2>1. /\ request' = request /\ abort' = abort /\ fm' = fm /\ late' = late
        /\ cw'.pc \in {"strip", "start", "dispatch", "consumeInFlight", "consume"}
        /\ cw'.snap = Cluster /\ cw'.abort = Cluster.abort
        /\ (cw'.pc = "strip" => Cluster.abort)
    BY <1>2 DEF StartReconcile, spec
  <2>2. Cluster.factor = factor /\ Cluster.abort = abort
    BY DEF Cluster
  <2>3. FactorMigrationActive(Cluster)' = FactorMigrationActive(Cluster)
    BY <1>0, <2>1 DEF FactorMigrationActive, Cluster
  <2> QED
    BY <1>0, <2>1, <2>2, <2>3 DEF SteadyInv, TeardownWalk
<1>3. ASSUME Consume PROVE SteadyInv'
  <2>1. fm' = fm /\ request' = None /\ abort' = abort /\ fm # None
    <3>1. Cluster.fm = cw.snap.fm /\ cw.pc \in {"consume", "consumeInFlight"}
      BY <1>3 DEF Consume, Unchanged, Snap, At
    <3>2. Cluster.fm = fm
      BY DEF Cluster
    <3> QED
      BY <1>3, <3>1, <3>2 DEF Consume, KeptInv, RecordInv, InFlightPoints
  <2>2. nw # None => ~FactorMigrationActive(Cluster)'
    BY <2>1 DEF SteadyInv, FactorMigrationActive, Cluster
  <2>3. cw'.pc \in {"idle", "dispatch"} /\ (cw'.snap # None => cw.snap # None /\ cw'.snap.factor = cw.snap.factor)
    <3>1. CASE Return
      BY <3>1, ReturnOK
    <3>2. CASE At("consumeInFlight") /\ cw' = [cw EXCEPT !.pc = "dispatch", !.snap.request = None]
      <4>1. cw.snap \in Clusters /\ cw.snap # None
        BY <3>2 DEF At, TypeInv, WorkerOK, Workers
      <4> QED
        BY <1>0, <3>2, <4>1 DEF Workers, Clusters
    <3> QED
      BY <1>3, <3>1, <3>2 DEF Consume
  <2> QED
    BY <1>0, <2>1, <2>2, <2>3 DEF SteadyInv, TeardownWalk
<1>4. ASSUME NEW record \in Migrations, NEW l \in {"idle", "consume", "dropAnnotations"},
             SetFactorMigration(record, l), request' = request,
             l = "dropAnnotations" => record.phase = "Failed",
             record.phase \in InFlight => nw = None
      PROVE  SteadyInv'
  <2>1. fm' = record /\ record # None
    BY <1>4, RecordsExist DEF SetFactorMigration, TypeInv, TypeOK
  <2>2. cw'.pc = l
    BY <1>0, <1>4, SetMoves
  <2>3. nw # None => ~FactorMigrationActive(Cluster)'
    BY <1>4, <2>1 DEF SteadyInv, FactorMigrationActive, Cluster
  <2>4. CASE cw' = Idle
    <3>1. cw'.snap = None
      BY <2>4 DEF Idle
    <3> QED
      BY <1>0, <1>4, <2>1, <2>2, <2>3, <2>4, <3>1 DEF SteadyInv, TeardownWalk, Idle
  <2>5. CASE cw' = [cw EXCEPT !.pc = l, !.snap = [Cluster EXCEPT !.fm = record]]
    <3> DEFINE x == [Cluster EXCEPT !.fm = record]
    <3>1. x.fm = record /\ x.factor = factor
      BY DEF Cluster
    <3> HIDE DEF x
    <3>2. cw'.snap = x
      BY <1>0, <2>5 DEF Workers, x
    <3> QED
      BY <1>0, <1>4, <2>1, <2>2, <2>3, <3>1, <3>2 DEF SteadyInv, TeardownWalk
  <2> QED
    BY <1>4, <2>4, <2>5 DEF SetFactorMigration
<1>5. ASSUME Start PROVE SteadyInv'
  <2>1. cw.snap \in Clusters /\ requests \in IDs /\ requests # 0 /\ fm = None
    BY <1>5, SceneTypes DEF Start, At, TypeInv, TypeOK, WorkerOK, Workers, Requested, IDs, RecordInv
  <2> DEFINE record == [phase |-> IF Snap.request = Malformed THEN "Failed" ELSE "Validating",
         to |-> IF Snap.request = Malformed THEN None ELSE Snap.request, id |-> requests]
  <2>2. record \in Migrations
    BY <2>1 DEF Snap, Clusters, Migrations, InFlight, Terminal
  <2>3. nw = None
    BY <2>1 DEF SteadyInv, FactorMigrationActive, Cluster
  <2>4. SetFactorMigration(record, "consume") /\ request' = request
    BY <1>5 DEF Start, spec
  <2> HIDE DEF record
  <2> QED
    BY <1>4, <2>2, <2>3, <2>4
<1>6. ASSUME SetPhase PROVE SteadyInv'
  <2>1. cw.snap \in Clusters /\ cw.snap.fm \in Migrations /\ cw.next \in InFlight \cup Terminal
        /\ fm # None /\ fm.phase \in InFlight
    BY <1>6 DEF SetPhase, At, TypeInv, WorkerOK, Workers, InFlightPoints, Clusters, RecordInv
  <2> DEFINE record == [Snap.fm EXCEPT !.phase = cw.next]
  <2>2. record \in Migrations
    BY <2>1 DEF Snap, Migrations
  <2>3. nw = None
    BY <2>1 DEF SteadyInv, FactorMigrationActive, Cluster
  <2>4. SetFactorMigration(record, "idle") /\ request' = request
    BY <1>6 DEF SetPhase, spec
  <2> HIDE DEF record
  <2> QED
    BY <1>4, <2>2, <2>3, <2>4
<1>7. ASSUME Fail PROVE SteadyInv'
  <2>1. cw.snap \in Clusters /\ requests \in IDs
    BY <1>7, SceneTypes DEF Fail, At, TypeInv, TypeOK, WorkerOK, Workers, Requested, IDs
  <2> DEFINE record == IF Snap.fm = None THEN [phase |-> "Failed", to |-> None, id |-> requests]
                ELSE [Snap.fm EXCEPT !.phase = "Failed"]
  <2>2. record \in Migrations /\ record.phase = "Failed"
    BY <2>1 DEF Snap, Clusters, Migrations, Terminal
  <2>3. SetFactorMigration(record, IF cw.abort THEN "dropAnnotations" ELSE "idle") /\ request' = request
    BY <1>7 DEF Fail, spec
  <2> HIDE DEF record
  <2> QED
    BY <1>4, <2>2, <2>3 DEF InFlight
<1>8. ASSUME DropAnnotations PROVE SteadyInv'
  <2>1. fm' = fm /\ request' = None /\ fm # None
    <3>1. Cluster.fm = cw.snap.fm /\ cw.pc = "dropAnnotations"
      BY <1>8 DEF DropAnnotations, Unchanged, Snap, At
    <3>2. Cluster.fm = fm
      BY DEF Cluster
    <3> QED
      BY <1>8, <3>1, <3>2 DEF DropAnnotations, KeptInv
  <2>2. nw # None => ~FactorMigrationActive(Cluster)'
    BY <2>1 DEF SteadyInv, FactorMigrationActive, Cluster
  <2>3. cw'.pc = "idle" /\ cw'.snap = None
    BY <1>8, ReturnOK DEF DropAnnotations
  <2> QED
    BY <1>0, <2>1, <2>2, <2>3 DEF SteadyInv, TeardownWalk
<1>9. ASSUME Refused \/ Abandon PROVE SteadyInv'
  BY <1>1, <1>9 DEF Refused, Abandon, spec
<1> QED
  BY <1>2, <1>3, <1>5, <1>6, <1>7, <1>8, <1>9

\* Everything outside the migration keeps SteadyInv: one request settles the factor.
LEMMA EnvironmentSteadyInv ==
  ASSUME Steady, TypeInv, RecordInv, KeptInv, SteadyInv, Environment \/ UNCHANGED vars
  PROVE  SteadyInv'
<1>0. cw' = cw /\ scene' = scene
  BY EnvironmentLeaves
<1>1. CASE \/ ReconcileStatefulSet \/ UNCHANGED vars
           \/ \E n \in Nodes :
                \/ RollOut(n)
                \/ Observe(n) \/ CreatePod(n) \/ RemovePod(n) \/ Evict(n)
                \/ PurgeInit(n) \/ Boot(n) \/ LearnLayout(n) \/ SyncCache(n)
  <2>1. /\ factor' = factor /\ request' = request /\ abort' = abort /\ fm' = fm /\ late' = late
        /\ requests' = requests /\ nw' \in {nw, None}
    BY <1>1 DEF ReconcileStatefulSet, RollOut, Observe, CreatePod, RemovePod, Evict, PurgeInit, Boot,
       LearnLayout, SyncCache, spec, counters, vars
  <2>2. FactorMigrationActive(Cluster)' = FactorMigrationActive(Cluster)
    BY <2>1 DEF FactorMigrationActive, Cluster
  <2> QED
    BY <1>0, <2>1, <2>2 DEF SteadyInv
<1>2. ASSUME NEW n \in Nodes, StartNodeReconcile(n) PROVE SteadyInv'
  <2>1. /\ factor' = factor /\ request' = request /\ abort' = abort /\ fm' = fm /\ late' = late
        /\ requests' = requests /\ nw'.factor = factor /\ ~FactorMigrationActive(Cluster)
    BY <1>2 DEF StartNodeReconcile, spec, counters
  <2>2. FactorMigrationActive(Cluster)' = FactorMigrationActive(Cluster)
    BY <2>1 DEF FactorMigrationActive, Cluster
  <2> QED
    BY <1>0, <2>1, <2>2 DEF SteadyInv
<1>3. ASSUME NEW f \in Factors \cup {Malformed}, Request(f) PROVE SteadyInv'
  <2>1. scene.requests <= 1 /\ ~scene.overlap /\ requests \in 0..scene.requests /\ scene.requests \in Nat
    BY SceneTypes DEF Steady, TypeInv, TypeOK
  <2>2. requests = 0 /\ requests' = 1 /\ nw = None /\ nw' = nw /\ fm' = fm /\ request' = f
    BY <1>3, <2>1 DEF Request
  <2>3. fm = None /\ cw.snap = None
    BY <2>2 DEF TypeInv, Requested
  <2>4. f # None
    BY MigrationAssumption
  <2>5. cw.pc = "idle"
    BY <2>3 DEF TypeInv, WorkerOK
  <2> QED
    BY <1>0, <2>2, <2>3, <2>4, <2>5 DEF SteadyInv, TeardownWalk
<1>4. ASSUME RequestAbort \/ Expire PROVE SteadyInv'
  <2>1. /\ factor' = factor /\ request' = request /\ fm' = fm /\ requests' = requests /\ nw' = nw
        /\ (late => late') /\ (abort => abort')
    BY <1>4 DEF RequestAbort, Expire, spec, counters
  <2>2. FactorMigrationActive(Cluster)' = FactorMigrationActive(Cluster)
    BY <2>1 DEF FactorMigrationActive, Cluster
  <2> QED
    BY <1>0, <2>1, <2>2 DEF SteadyInv
<1>5. ASSUME ClearStatus PROVE FALSE
  <2>1. scene.requests <= 1 /\ requests \in 0..scene.requests /\ scene.requests \in Nat /\ requests # 0
    BY <1>5, SceneTypes DEF Steady, TypeInv, TypeOK, Requested, ClearStatus
  <2> QED
    BY <1>5, <2>1 DEF ClearStatus
<1> QED
  BY <1>1, <1>2, <1>3, <1>4, <1>5 DEF Environment

\* No teardown has touched the migration in its current phase.
Untorn ==
  \/ cw.pc \in {"suspend", "scaleDown", "count", "config", "init", "verify", "scaleUp", "advance"}
  \/ cw.pc \in {"consumeInFlight", "dispatch"} /\ ~late
  \/ ~late /\ ~abort

\* A node no purge has reached: its layout has the old factor, and no template that
\* starts a Pod, and no Pod, carries the purge init container.
Fresh(n) ==
  /\ disk[n] = OldFactor
  /\ sts[n].replicas = 1 => sts[n].purge = None
  /\ observed[n].replicas = 1 => observed[n].purge = None
  /\ pod[n] # None => pod[n].purge = None /\ (pod[n].st = "up" => pod[n].cfg = OldFactor)

Quiet(n) == sts[n].replicas = 0 /\ observed[n].replicas = 0 /\ pod[n] = None

EarlyPhase == fm = None \/ fm.phase \in {"Validating", "ScalingDown", "Purging", "Failed"}
EarlyPods ==
  fm = None \/ fm.phase = "Validating" =>
    \A n \in Nodes : observed[n].replicas = 1 /\ pod[n] # None
EarlyConfig ==
  fm = None \/ fm.phase \in {"Validating", "ScalingDown"} =>
    \A n \in Nodes : /\ sts[n].cfg = OldFactor /\ observed[n].cfg = OldFactor
                     /\ pod[n] # None => pod[n].cfg = OldFactor
Draining ==
  fm # None /\ fm.phase = "ScalingDown" /\ Untorn =>
    \A n \in Nodes : /\ pod[n] = None => observed[n].replicas = 0
                     /\ observed[n].replicas = 0 => sts[n].replicas = 0
Drained ==
  /\ cw.pc = "advance" => cw.next \in {"ScalingDown", "Purging"}
  /\ cw.pc = "advance" /\ cw.next = "Purging" => \A n \in Nodes : Quiet(n)
  /\ fm # None /\ fm.phase = "Purging" /\ Untorn => \A n \in Nodes : Quiet(n)
Configured ==
  /\ cw.pc = "config" => \A n \in Nodes \ cw.todo : sts[n].cfg = factor
  /\ cw.pc \in {"init", "verify", "scaleUp"} => \A n \in Nodes : sts[n].cfg = factor

\* Before the first StatefulSet is scaled up: nothing is purged, and every process
\* that is up runs with the old factor.
NotPurged ==
  /\ \A n \in Nodes : Fresh(n)
  /\ EarlyPhase /\ EarlyPods /\ EarlyConfig /\ Draining /\ Drained /\ Configured

\* From then on: whatever runs or will be started has the factor of the spec.
AllNew ==
  /\ fm # None
  /\ \A n \in Nodes : /\ sts[n].cfg = factor
                      /\ observed[n].replicas = 1 => observed[n].cfg = factor
                      /\ pod[n] # None => pod[n].cfg = factor

\* The worker moves and writes no workload and no record.
LEMMA FreshMove ==
  ASSUME NotPurged, UNCHANGED <<sts, observed, pod, disk, factor, fm>>,
         fm # None /\ fm.phase \in {"ScalingDown", "Purging"} /\ Untorn' => Untorn,
         cw'.pc \notin {"advance", "config", "init", "verify", "scaleUp"}
  PROVE  NotPurged'
  BY DEF NotPurged, Fresh, Quiet, EarlyPhase, EarlyPods, EarlyConfig, Draining, Drained, Configured

\* A reconcile that ends leaves a phase untorn only if it was.
LEMMA ReturnUntorn ==
  ASSUME Return, late' = late, abort' = abort
  PROVE  Untorn' => Untorn
<1>1. cw'.pc = "idle"
  BY ReturnOK
<1> QED
  BY <1>1 DEF Untorn

\* Nothing outside the migration starts a process of the new factor before the purge.
LEMMA EnvironmentRestart ==
  ASSUME Steady, TypeInv, RecordInv, CleanInv, SteadyInv, NotPurged, Environment \/ UNCHANGED vars
  PROVE  NotPurged'
<1>0. /\ cw' = cw /\ scene' = scene /\ scene \in Scenes /\ cw \in Workers
      /\ sts \in [Nodes -> StatefulSets] /\ observed \in [Nodes -> StatefulSets]
      /\ pod \in [Nodes -> Pods \cup {None}] /\ disk \in [Nodes -> AllFactors \cup {None}]
      /\ nw \in [obj : Nodes, factor : AllFactors] \cup {None}
  BY EnvironmentLeaves DEF TypeInv, TypeOK, WorkerOK
<1>a. cw.pc \in {"advance", "config", "init", "verify", "scaleUp"} => fm # None /\ fm.phase \in InFlight
  BY DEF RecordInv, InFlightPoints
<1>b. ~FactorMigrationActive(Cluster)
      => /\ fm = None => factor = OldFactor
         /\ fm # None => fm.phase = "Failed"
         /\ cw.pc \notin {"advance", "config", "init", "verify", "scaleUp"}
  BY <1>a DEF FactorMigrationActive, Cluster, SteadyInv, NotPurged, EarlyPhase, InFlight
<1>c. None \notin Pods /\ OldFactor # None
  BY <1>0, RecordsExist, MigrationAssumption
<1>1. ASSUME ReconcileStatefulSet PROVE NotPurged'
  <2>1. /\ nw # None /\ nw.factor = factor /\ ~FactorMigrationActive(Cluster) /\ nw.obj \in Nodes
        /\ observed' = observed /\ pod' = pod /\ disk' = disk /\ factor' = factor /\ fm' = fm
        /\ late' = late /\ abort' = abort
    BY <1>0, <1>1 DEF ReconcileStatefulSet, SteadyInv, spec
  <2>2. \A m \in Nodes : sts'[m] = sts[m] \/ (sts'[m].purge = None /\ sts'[m].cfg = factor)
    BY <1>0, <1>1, <2>1 DEF ReconcileStatefulSet
  <2>3. \A m \in Nodes : Fresh(m)'
    BY <2>1, <2>2 DEF NotPurged, Fresh
  <2>4. EarlyConfig'
    BY <1>b, <2>1, <2>2 DEF NotPurged, EarlyConfig
  <2>5. EarlyPhase' /\ EarlyPods'
    BY <2>1 DEF NotPurged, EarlyPhase, EarlyPods
  <2>6. Draining' /\ Drained' /\ Configured'
    BY <1>0, <1>b, <2>1 DEF Draining, Drained, Configured
  <2> QED
    BY <2>3, <2>4, <2>5, <2>6 DEF NotPurged
<1>2. ASSUME \/ UNCHANGED vars \/ RequestAbort \/ Expire
             \/ \E n \in Nodes : StartNodeReconcile(n) \/ SyncCache(n)
      PROVE  NotPurged'
  <2>1. /\ UNCHANGED <<sts, observed, pod, disk, factor, fm>> /\ (Untorn' => Untorn)
    BY <1>0, <1>2 DEF RequestAbort, Expire, StartNodeReconcile, SyncCache, vars, workloads, spec, Untorn
  <2> QED
    BY <1>0, <2>1 DEF NotPurged, Fresh, Quiet, EarlyPhase, EarlyPods, EarlyConfig, Draining, Drained,
       Configured
<1>3. ASSUME NEW n \in Nodes, RollOut(n) PROVE NotPurged'
  <2>1. /\ ~FactorMigrationActive(Cluster) /\ pod[n] # None /\ pod[n].cfg # factor
        /\ pod' = [pod EXCEPT ![n] = None]
        /\ observed' = observed /\ sts' = sts /\ disk' = disk /\ factor' = factor /\ fm' = fm
        /\ late' = late /\ abort' = abort
    BY <1>0, <1>3 DEF RollOut, Ready, spec
  <2>2. fm # None /\ fm.phase = "Failed"
    BY <1>b, <2>1 DEF NotPurged, EarlyConfig
  <2>3. \A m \in Nodes : Fresh(m)'
    BY <1>0, <2>1 DEF NotPurged, Fresh
  <2> QED
    BY <1>0, <1>b, <2>1, <2>2, <2>3
       DEF NotPurged, EarlyPhase, EarlyPods, EarlyConfig, Draining, Drained, Configured
<1>4. ASSUME NEW n \in Nodes, Observe(n) PROVE NotPurged'
  <2>1. /\ observed' = [observed EXCEPT ![n] = sts[n]]
        /\ pod' = pod /\ sts' = sts /\ disk' = disk /\ factor' = factor /\ fm' = fm
        /\ late' = late /\ abort' = abort
    BY <1>4 DEF Observe, spec
  <2>2. observed'[n] = sts[n] /\ \A m \in Nodes \ {n} : observed'[m] = observed[m]
    BY <1>0, <2>1
  <2>3. \A m \in Nodes : Fresh(m)'
    BY <2>1, <2>2 DEF NotPurged, Fresh
  <2>4. EarlyPhase' /\ EarlyPods' /\ EarlyConfig'
    BY <2>1, <2>2 DEF NotPurged, EarlyPhase, EarlyPods, EarlyConfig, CleanInv, Restored
  <2>5. Untorn' => Untorn
    BY <1>0, <2>1 DEF Untorn
  <2>6. Draining'
    <3> SUFFICES ASSUME fm # None, fm.phase = "ScalingDown", Untorn, NEW m \in Nodes
                 PROVE  /\ pod[m] = None => observed'[m].replicas = 0
                        /\ observed'[m].replicas = 0 => sts[m].replicas = 0
      BY <2>1, <2>5 DEF Draining
    <3>1. observed[m].replicas \in {0, 1} /\ sts[m].replicas \in {0, 1}
      BY <1>0 DEF StatefulSets
    <3>2. /\ pod[m] = None => observed[m].replicas = 0
          /\ observed[m].replicas = 0 => sts[m].replicas = 0
      BY DEF NotPurged, Draining
    <3> QED
      BY <2>2, <3>1, <3>2
  <2>7. Drained' /\ Configured'
    BY <1>0, <2>1, <2>2, <2>5 DEF NotPurged, Drained, Quiet, Configured
  <2> QED
    BY <2>3, <2>4, <2>6, <2>7 DEF NotPurged
<1>5. ASSUME NEW n \in Nodes, NEW p \in Pods \cup {None}, pod' = [pod EXCEPT ![n] = p],
             UNCHANGED <<sts, observed, disk, factor, fm, late, abort>>,
             p # None => /\ p.purge = None /\ (p.st = "up" => p.cfg = OldFactor)
                         /\ \/ pod[n] # None /\ p.cfg = pod[n].cfg
                            \/ observed[n].replicas = 1 /\ p.cfg = observed[n].cfg,
             p = None => observed[n].replicas = 0
      PROVE  NotPurged'
  <2>1. pod'[n] = p /\ \A m \in Nodes \ {n} : pod'[m] = pod[m]
    BY <1>0, <1>5
  <2>2. \A m \in Nodes : Fresh(m)'
    BY <1>5, <2>1 DEF NotPurged, Fresh
  <2>3. EarlyPhase' /\ EarlyPods' /\ EarlyConfig'
    BY <1>5, <2>1 DEF NotPurged, EarlyPhase, EarlyPods, EarlyConfig
  <2>4. Untorn' => Untorn
    BY <1>0, <1>5 DEF Untorn
  <2>5. Draining'
    BY <1>5, <2>1, <2>4 DEF NotPurged, Draining
  <2>6. Drained' /\ Configured'
    BY <1>0, <1>5, <2>1, <2>4 DEF NotPurged, Drained, Quiet, Configured
  <2> QED
    BY <2>2, <2>3, <2>5, <2>6 DEF NotPurged
<1>6. ASSUME NEW n \in Nodes, CreatePod(n) PROVE NotPurged'
  <2> DEFINE p == [cfg |-> observed[n].cfg, purge |-> observed[n].purge, st |-> "init"]
  <2>1. p \in Pods
    BY <1>0 DEF Pods, StatefulSets
  <2>2. p.purge = None /\ p.st = "init" /\ p.cfg = observed[n].cfg /\ observed[n].replicas = 1
    BY <1>6 DEF CreatePod, NotPurged, Fresh
  <2>3. pod' = [pod EXCEPT ![n] = p] /\ UNCHANGED <<sts, observed, disk, factor, fm, late, abort>>
    BY <1>6 DEF CreatePod, spec
  <2>4. p # None
    BY <1>c, <2>1
  <2> HIDE DEF p
  <2> QED
    BY <1>5, <2>1, <2>2, <2>3, <2>4
<1>7. ASSUME NEW n \in Nodes, RemovePod(n) PROVE NotPurged'
  BY <1>5, <1>7 DEF RemovePod, spec
<1>8. ASSUME NEW n \in Nodes, Evict(n) PROVE FALSE
  <2>1. scene.evictions = 0 /\ evictions \in 0..scene.evictions
    BY <1>0 DEF Steady, TypeInv, TypeOK
  <2> QED
    BY <1>8, <2>1 DEF Evict
<1>9. ASSUME NEW n \in Nodes, PurgeInit(n) \/ Boot(n) PROVE NotPurged'
  <2>1. pod[n] \in Pods /\ pod[n] # None /\ pod[n].purge = None /\ disk[n] = OldFactor
    BY <1>0, <1>9 DEF PurgeInit, Boot, NotPurged, Fresh
  <2>2. PICK st \in {"starting", "up"} :
          /\ pod' = [pod EXCEPT ![n] = [pod[n] EXCEPT !.st = st]]
          /\ st = "up" => pod[n].cfg = OldFactor
    BY <1>0, <1>9, <1>c, <2>1 DEF PurgeInit, Boot
  <2>3. UNCHANGED <<sts, observed, disk, factor, fm, late, abort>>
    BY <1>9, <2>1 DEF PurgeInit, Boot, spec
  <2> DEFINE p == [pod[n] EXCEPT !.st = st]
  <2>4. p \in Pods /\ p.purge = None /\ p.cfg = pod[n].cfg /\ p.st = st
    BY <2>1 DEF Pods
  <2>5. p # None
    BY <1>c, <2>4
  <2>6. pod' = [pod EXCEPT ![n] = p]
    BY <2>2
  <2> HIDE DEF p
  <2> QED
    BY <1>5, <2>1, <2>2, <2>3, <2>4, <2>5, <2>6
<1>10. ASSUME NEW n \in Nodes, LearnLayout(n) PROVE FALSE
  BY <1>10, <1>c DEF LearnLayout, NotPurged, Fresh
<1>11. ASSUME NEW f \in Factors \cup {Malformed}, Request(f) PROVE NotPurged'
  <2>1. scene.requests <= 1 /\ requests \in 0..scene.requests /\ scene.requests \in Nat
    BY <1>0, SceneTypes DEF Steady, TypeInv, TypeOK
  <2>2. requests = 0
    BY <1>11, <2>1 DEF Request
  <2>3. cw.pc = "idle" /\ fm = None
    BY <2>2 DEF TypeInv, Requested, WorkerOK
  <2>4. UNCHANGED <<sts, observed, pod, disk, fm>>
    BY <1>11 DEF Request, workloads
  <2> QED
    BY <1>0, <2>3, <2>4 DEF NotPurged, Fresh, EarlyPhase, EarlyPods, EarlyConfig, Draining, Drained,
       Configured
<1>12. ASSUME ClearStatus PROVE FALSE
  <2>1. scene.requests <= 1 /\ requests \in 0..scene.requests /\ scene.requests \in Nat /\ requests # 0
    BY <1>0, <1>12, SceneTypes DEF Steady, TypeInv, TypeOK, Requested, ClearStatus
  <2> QED
    BY <1>12, <2>1 DEF ClearStatus
<1> QED
  BY <1>1, <1>2, <1>3, <1>4, <1>6, <1>7, <1>8, <1>9, <1>10, <1>11, <1>12 DEF Environment

\* A StatefulSet is written: never to start a Pod that would purge, with another
\* configuration only while purging, and not scaled up while the phase is untorn.
LEMMA StatefulSetRestart ==
  ASSUME TypeInv, NotPurged, NEW n \in Nodes, NEW s, sts' = [sts EXCEPT ![n] = s],
         UNCHANGED <<observed, pod, disk, factor, fm>>,
         s.replicas = 1 => s.purge = None,
         s.cfg = sts[n].cfg \/ (fm # None /\ fm.phase = "Purging"),
         fm # None /\ fm.phase \in {"ScalingDown", "Purging"} /\ Untorn'
           => Untorn /\ s.replicas \in {0, sts[n].replicas},
         cw'.pc # "advance", Configured'
  PROVE  NotPurged'
<1>1. sts'[n] = s /\ \A m \in Nodes \ {n} : sts'[m] = sts[m]
  BY DEF TypeInv, TypeOK
<1>2. \A m \in Nodes : Fresh(m)'
  BY <1>1 DEF NotPurged, Fresh
<1>3. EarlyPhase' /\ EarlyPods'
  BY DEF NotPurged, EarlyPhase, EarlyPods
<1>4. EarlyConfig'
  BY <1>1 DEF NotPurged, EarlyConfig
<1>5. Draining'
  BY <1>1 DEF NotPurged, Draining
<1>6. Drained'
  BY <1>1 DEF NotPurged, Drained, Quiet
<1> QED
  BY <1>2, <1>3, <1>4, <1>5, <1>6 DEF NotPurged

\* The record is written while the workloads stand as they were drained.
LEMMA DriverRestart ==
  ASSUME Steady, TypeInv, RecordInv, SteadyInv, NotPurged,
         StartReconcile \/ Start \/ Consume \/ SetPhase \/ Fail \/ DropAnnotations \/ Refused
         \/ Abandon
  PROVE  NotPurged'
<1>0. /\ cw \in Workers /\ UNCHANGED <<sts, observed, pod, disk, factor>>
  BY DEF TypeInv, WorkerOK, StartReconcile, Start, Consume, SetPhase, Fail, DropAnnotations, Refused,
     Abandon, spec, workloads
<1>a. ~(lost < scene.lost)
  BY SceneTypes DEF Steady, TypeInv, TypeOK
<1>1. ASSUME StartReconcile PROVE NotPurged'
  <2>1. /\ UNCHANGED <<fm, late, abort>> /\ cw'.pc \in {"strip", "start", "dispatch", "consumeInFlight", "consume"}
        /\ cw'.pc \in {"dispatch", "consumeInFlight"} => ~abort
    BY <1>1 DEF StartReconcile, spec, Cluster
  <2>2. Untorn' => Untorn
    BY <2>1 DEF Untorn
  <2> QED
    BY <1>0, <2>1, <2>2, FreshMove
<1>2. ASSUME Consume PROVE NotPurged'
  <2>1. UNCHANGED <<fm, late, abort>>
    BY <1>2 DEF Consume
  <2>2. \/ cw'.pc = "idle"
        \/ cw.pc = "consumeInFlight" /\ cw'.pc = "dispatch"
    <3>1. CASE Return
      BY <3>1, ReturnOK
    <3>2. CASE At("consumeInFlight") /\ cw' = [cw EXCEPT !.pc = "dispatch", !.snap.request = None]
      BY <1>0, <3>2 DEF Workers, At
    <3> QED
      BY <1>2, <3>1, <3>2 DEF Consume
  <2>3. Untorn' => Untorn
    BY <2>1, <2>2 DEF Untorn
  <2> QED
    BY <1>0, <2>1, <2>2, <2>3, FreshMove
<1>3. ASSUME DropAnnotations PROVE NotPurged'
  <2>1. fm' = fm /\ fm.phase = "Failed" /\ cw'.pc = "idle"
    <3>1. Cluster.fm = cw.snap.fm /\ cw.pc = "dropAnnotations"
      BY <1>3 DEF DropAnnotations, Unchanged, Snap, At
    <3>2. Cluster.fm = fm
      BY DEF Cluster
    <3> QED
      BY <1>3, <3>1, <3>2, ReturnOK DEF DropAnnotations, SteadyInv
  <2> QED
    BY <1>0, <2>1, FreshMove
<1>4. ASSUME Refused \/ Abandon PROVE NotPurged'
  <2>1. Return /\ UNCHANGED <<fm, late, abort>>
    BY <1>4 DEF Refused, Abandon, spec
  <2> QED
    BY <1>0, <2>1, FreshMove, ReturnUntorn, ReturnOK
<1>5. ASSUME NEW record, NEW l \in {"idle", "consume", "dropAnnotations"}, SetFactorMigration(record, l)
      PROVE  fm' = record /\ cw'.pc = l
  <2>1. cw'.pc = l
    BY <1>0, <1>5, SetMoves
  <2>2. fm' = record
    BY <1>a, <1>5 DEF SetFactorMigration
  <2> QED
    BY <2>1, <2>2
<1>6. ASSUME NEW record, fm' = record, cw'.pc \in {"idle", "consume", "dropAnnotations"},
             \/ fm = None /\ record.phase = "Validating"
             \/ record.phase = "Failed"
             \/ fm.phase = "Validating" /\ record.phase = "ScalingDown"
             \/ (\A n \in Nodes : Quiet(n)) /\ record.phase = "Purging",
             record # None
      PROVE  NotPurged'
  <2>1. \A m \in Nodes : Fresh(m)'
    BY <1>0 DEF NotPurged, Fresh
  <2>2. EarlyPhase' /\ EarlyPods' /\ EarlyConfig'
    BY <1>0, <1>6 DEF NotPurged, EarlyPhase, EarlyPods, EarlyConfig, Quiet
  <2>3. Draining'
    BY <1>0, <1>6 DEF NotPurged, EarlyPods, Draining
  <2>4. Drained' /\ Configured'
    BY <1>0, <1>6 DEF Drained, Configured, Quiet
  <2> QED
    BY <2>1, <2>2, <2>3, <2>4 DEF NotPurged
<1>7. ASSUME Start PROVE NotPurged'
  <2>1. cw.snap \in Clusters /\ requests \in IDs /\ requests # 0 /\ fm = None
    BY <1>7, SceneTypes DEF Start, At, TypeInv, TypeOK, WorkerOK, Workers, Requested, IDs, RecordInv
  <2> DEFINE record == [phase |-> IF Snap.request = Malformed THEN "Failed" ELSE "Validating",
         to |-> IF Snap.request = Malformed THEN None ELSE Snap.request, id |-> requests]
  <2>2. record \in Migrations /\ record.phase \in {"Failed", "Validating"}
    BY <2>1 DEF Snap, Clusters, Migrations, InFlight, Terminal
  <2>3. SetFactorMigration(record, "consume")
    BY <1>7 DEF Start
  <2>4. record # None
    BY <2>2, RecordsExist DEF TypeInv, TypeOK
  <2> HIDE DEF record
  <2> QED
    BY <1>5, <1>6, <2>1, <2>2, <2>3, <2>4
<1>8. ASSUME Fail PROVE NotPurged'
  <2>1. cw.snap \in Clusters /\ requests \in IDs
    BY <1>8, SceneTypes DEF Fail, At, TypeInv, TypeOK, WorkerOK, Workers, Requested, IDs
  <2> DEFINE record == IF Snap.fm = None THEN [phase |-> "Failed", to |-> None, id |-> requests]
                ELSE [Snap.fm EXCEPT !.phase = "Failed"]
  <2>2. record \in Migrations /\ record.phase = "Failed"
    BY <2>1 DEF Snap, Clusters, Migrations, Terminal
  <2>3. SetFactorMigration(record, IF cw.abort THEN "dropAnnotations" ELSE "idle")
    BY <1>8 DEF Fail
  <2>4. record # None
    BY <2>2, RecordsExist DEF TypeInv, TypeOK
  <2> HIDE DEF record
  <2> QED
    BY <1>5, <1>6, <2>2, <2>3, <2>4
<1>9. ASSUME SetPhase PROVE NotPurged'
  <2>1. /\ cw.pc = "advance" /\ cw.snap \in Clusters /\ cw.snap.fm \in Migrations
        /\ <<fm.phase, cw.next>> \in Advances /\ cw.next \in {"ScalingDown", "Purging"}
    BY <1>9 DEF SetPhase, At, TypeInv, WorkerOK, Workers, InFlightPoints, Clusters, RecordInv,
       NotPurged, Drained
  <2> DEFINE record == [Snap.fm EXCEPT !.phase = cw.next]
  <2>2. record \in Migrations /\ record.phase = cw.next
    BY <2>1 DEF Snap, Migrations, InFlight
  <2>3. SetFactorMigration(record, "idle")
    BY <1>9 DEF SetPhase
  <2>4. record # None
    BY <2>2, RecordsExist DEF TypeInv, TypeOK
  <2>5. /\ cw.next = "ScalingDown" => fm.phase = "Validating"
        /\ cw.next = "Purging" => \A n \in Nodes : Quiet(n)
    BY <2>1 DEF Advances, NotPurged, Drained
  <2> HIDE DEF record
  <2> QED
    BY <1>5, <1>6, <2>1, <2>2, <2>3, <2>4, <2>5
<1> QED
  BY <1>1, <1>2, <1>3, <1>4, <1>7, <1>8, <1>9

\* The work before the first StatefulSet is scaled up, which starts the new factor.
LEMMA WorkRestart ==
  ASSUME TypeInv, RecordInv, CleanInv, SteadyInv, NotPurged, Work
  PROVE  NotPurged' \/ AllNew'
<1>0. /\ cw \in Workers /\ UNCHANGED <<factor, abort, fm, late>>
      /\ sts \in [Nodes -> StatefulSets]
  BY WorkMoves DEF TypeInv, TypeOK, WorkerOK
<1>1. /\ cw.pc # "idle" => cw.todo # {} /\ cw.todo \in SUBSET Nodes /\ First(cw.todo) \in Nodes
                           /\ First(cw.todo) \in cw.todo
      /\ cw.pc \in InFlightPoints => fm # None /\ fm = Snap.fm
      /\ cw.pc # "idle" => Snap.factor = factor
  <2>1. cw.pc # "idle" => cw.todo # {} /\ cw.todo \in SUBSET Nodes /\ cw.snap # None
    BY <1>0 DEF TypeInv, WorkerOK, Workers
  <2> QED
    BY <2>1, FirstIn DEF RecordInv, Snap, SteadyInv
<1>2. ASSUME UNCHANGED <<sts, observed, pod, disk>>,
             cw'.pc \notin {"advance", "config", "init", "verify", "scaleUp"},
             fm # None /\ fm.phase \in {"ScalingDown", "Purging"} /\ Untorn' => Untorn
      PROVE  NotPurged'
  BY <1>0, <1>2, FreshMove
<1>3. ASSUME UNCHANGED <<sts, observed, pod, disk>>, Return PROVE NotPurged'
  BY <1>0, <1>2, <1>3, ReturnOK, ReturnUntorn
<1>4. ASSUME UNCHANGED <<sts, observed, pod, disk>>, NEW p \in {"ScalingDown", "Purging"}, Advance(p),
             p = "ScalingDown" => fm # None /\ fm.phase = "Validating",
             p = "Purging" => \A n \in Nodes : Quiet(n),
             Untorn \/ fm.phase = "Validating"
      PROVE  NotPurged'
  <2>1. cw'.pc = "advance" /\ cw'.next = p
    BY <1>0, <1>4 DEF Advance, Workers
  <2> QED
    BY <1>0, <1>4, <2>1
       DEF NotPurged, Fresh, Quiet, EarlyPhase, EarlyPods, EarlyConfig, Draining, Drained, Configured
<1>5. ASSUME FmValidate PROVE NotPurged'
  <2>1. /\ UNCHANGED <<sts, observed, pod, disk>> /\ cw.pc = "dispatch"
        /\ fm # None /\ fm.phase = "Validating"
    BY <1>1, <1>5 DEF FmValidate, Phase, At, workloads, InFlightPoints
  <2>2. Pass("strip") => cw'.pc = "strip"
    BY <1>0 DEF Pass, Workers
  <2> QED
    BY <1>2, <1>3, <1>4, <1>5, <2>1, <2>2 DEF FmValidate
<1>6. ASSUME FmCheckStuck PROVE NotPurged'
  <2>1. /\ UNCHANGED <<sts, observed, pod, disk>> /\ cw'.pc = "strip" /\ late
    BY <1>0, <1>6 DEF FmCheckStuck, workloads, Pass, Workers
  <2>2. ~Untorn'
    BY <1>0, <2>1 DEF Untorn
  <2> QED
    BY <1>2, <2>1, <2>2
<1>7. ASSUME FmScaleDown \/ (\E n \in Nodes : Suspend(n)) PROVE NotPurged'
  <2>1. /\ UNCHANGED <<sts, observed, pod, disk>> /\ cw'.pc \in {"suspend", "scaleDown"}
        /\ (cw.pc = "dispatch" /\ ~late) \/ cw.pc = "suspend"
    <3>1. CASE FmScaleDown
      BY <1>0, <3>1 DEF FmScaleDown, Phase, At, workloads, Pass, Workers
    <3>2. CASE \E n \in Nodes : Suspend(n)
      BY <1>0, <3>2 DEF Suspend, At, workloads, Workers
    <3> QED
      BY <1>7, <3>1, <3>2
  <2> QED
    BY <1>2, <2>1 DEF Untorn
<1>8. ASSUME CountStoragePods PROVE NotPurged'
  <2>1. UNCHANGED <<sts, observed, pod, disk>> /\ cw.pc = "count"
    BY <1>8 DEF CountStoragePods, At, workloads
  <2>2. fm # None /\ fm.phase = "ScalingDown" /\ Untorn
    BY <1>1, <2>1 DEF RecordInv, InFlightPoints, Untorn
  <2>3. (\A n \in Nodes : pod[n] = None) => \A n \in Nodes : Quiet(n)
    BY <2>2 DEF NotPurged, Draining, Quiet
  <2> QED
    BY <1>3, <1>4, <1>8, <2>1, <2>2, <2>3 DEF CountStoragePods
<1>9. ASSUME UNCHANGED <<sts, observed, pod, disk>>, cw'.pc \in {"config", "verify", "scaleUp"},
             fm # None, fm.phase = "Purging", Untorn, Configured'
      PROVE  NotPurged'
  <2>1. \A m \in Nodes : Fresh(m)'
    BY <1>9 DEF NotPurged, Fresh
  <2> QED
    BY <1>0, <1>9, <2>1
       DEF NotPurged, EarlyPhase, EarlyPods, EarlyConfig, Draining, Drained, Quiet
<1>10. ASSUME FmPurge PROVE NotPurged'
  <2>1. /\ UNCHANGED <<sts, observed, pod, disk>> /\ cw.pc = "dispatch" /\ ~late
        /\ fm # None /\ fm.phase = "Purging"
    BY <1>1, <1>10 DEF FmPurge, Phase, At, workloads, InFlightPoints
  <2>2. Untorn
    BY <2>1 DEF Untorn
  <2>3. \A n \in Nodes : sts[n].replicas = 0
    BY <2>1, <2>2 DEF NotPurged, Drained, Quiet
  <2>4. cw' = [cw EXCEPT !.pc = "config", !.quiet = TRUE, !.todo = Nodes]
    BY <1>10, <2>3, Zenon DEF FmPurge
  <2>5. cw'.pc = "config" /\ cw'.todo = Nodes
    BY <1>0, <2>4 DEF Workers
  <2>6. Configured'
    BY <2>5 DEF Configured
  <2> QED
    BY <1>9, <2>1, <2>2, <2>5, <2>6
<1>11. ASSUME VerifyPreparation PROVE NotPurged'
  <2>1. UNCHANGED <<sts, observed, pod, disk>> /\ cw.pc = "verify" /\ cw'.pc \in {"verify", "scaleUp"}
    BY <1>0, <1>11, VisitedMoves DEF VerifyPreparation, At, workloads, Points
  <2>2. fm # None /\ fm.phase = "Purging" /\ Untorn
    BY <1>1, <2>1 DEF RecordInv, InFlightPoints, Untorn
  <2>3. Configured'
    BY <1>0, <2>1 DEF NotPurged, Configured
  <2> QED
    BY <1>9, <2>1, <2>2, <2>3
<1>12. ASSUME PatchConfigRevision PROVE NotPurged'
  <2> DEFINE n == First(cw.todo)
             s == [sts[n] EXCEPT !.cfg = Snap.factor]
  <2>1. /\ UNCHANGED <<observed, pod, disk>> /\ cw.pc = "config" /\ sts[n].replicas = 0
        /\ sts' = [sts EXCEPT ![n] = s]
        /\ Visited(n, "config", "init")
    BY <1>0, <1>12 DEF PatchConfigRevision, At
  <2>2. n \in Nodes /\ n \in cw.todo /\ sts[n] \in StatefulSets
    BY <1>0, <1>1, <2>1
  <2>3. s.replicas = 0 /\ s.replicas # 1 /\ s.cfg = factor
    BY <1>1, <2>1, <2>2 DEF StatefulSets
  <2>4. \/ cw.todo = {n} /\ cw'.pc = "init" /\ cw'.todo = Nodes
        \/ cw.todo # {n} /\ cw'.pc = "config" /\ cw'.todo = cw.todo \ {n}
    BY <1>0, <2>1, VisitedMoves DEF Points
  <2>5. fm # None /\ fm.phase = "Purging" /\ Untorn
    BY <1>1, <2>1 DEF RecordInv, InFlightPoints, Untorn
  <2> HIDE DEF n, s
  <2>6. Configured'
    <3>1. sts'[n] = s /\ \A m \in Nodes \ {n} : sts'[m] = sts[m]
      BY <1>0, <2>1, <2>2
    <3>2. \A m \in Nodes \ cw.todo : sts[m].cfg = factor
      BY <2>1 DEF NotPurged, Configured
    <3> QED
      BY <1>0, <2>3, <2>4, <3>1, <3>2 DEF Configured
  <2> QED
    BY <1>0, <2>1, <2>2, <2>3, <2>4, <2>5, <2>6, StatefulSetRestart
<1>13. ASSUME PatchPurgeInit PROVE NotPurged'
  <2> DEFINE n == First(cw.todo)
             s == [sts[n] EXCEPT !.purge = Snap.fm.id]
  <2>1. /\ UNCHANGED <<observed, pod, disk>> /\ cw.pc = "init" /\ sts[n].replicas = 0
        /\ sts' = [sts EXCEPT ![n] = s]
        /\ Visited(n, "init", "verify")
    BY <1>0, <1>13 DEF PatchPurgeInit, At
  <2>2. n \in Nodes /\ sts[n] \in StatefulSets
    BY <1>0, <1>1, <2>1
  <2>3. s.replicas = 0 /\ s.replicas # 1 /\ s.cfg = sts[n].cfg
    BY <2>1, <2>2 DEF StatefulSets
  <2>4. cw'.pc \in {"init", "verify"}
    BY <1>0, <2>1, VisitedMoves DEF Points
  <2>5. fm # None /\ fm.phase = "Purging" /\ Untorn
    BY <1>1, <2>1 DEF RecordInv, InFlightPoints, Untorn
  <2> HIDE DEF n, s
  <2>6. Configured'
    <3>1. sts'[n] = s /\ \A m \in Nodes \ {n} : sts'[m] = sts[m]
      BY <1>0, <2>1, <2>2
    <3> QED
      BY <1>0, <2>1, <2>2, <2>3, <2>4, <3>1 DEF NotPurged, Configured
  <2> QED
    BY <1>0, <2>1, <2>2, <2>3, <2>4, <2>5, <2>6, StatefulSetRestart
<1>14. ASSUME ScaleDown PROVE NotPurged'
  <2> DEFINE n == cw.node
             s == [sts[n] EXCEPT !.replicas = 0]
  <2>1. /\ UNCHANGED <<observed, pod, disk>> /\ cw.pc = "scaleDown"
        /\ sts' = [sts EXCEPT ![n] = s]
        /\ Visited(n, "suspend", "count")
    BY <1>0, <1>14 DEF ScaleDown, At
  <2>2. n \in Nodes /\ sts[n] \in StatefulSets
    BY <1>0, <2>1 DEF TypeInv, WorkerOK, Workers
  <2>3. s.replicas = 0 /\ s.replicas # 1 /\ s.cfg = sts[n].cfg
    BY <2>1, <2>2 DEF StatefulSets
  <2>4. cw'.pc \in {"suspend", "count"}
    BY <1>0, <2>1, VisitedMoves DEF Points
  <2>5. Untorn
    BY <2>1 DEF Untorn
  <2>6. Configured'
    BY <2>4 DEF Configured
  <2> HIDE DEF n, s
  <2> QED
    BY <1>0, <2>1, <2>2, <2>3, <2>4, <2>5, <2>6, StatefulSetRestart
<1>15. ASSUME Strip PROVE NotPurged'
  <2> DEFINE n == First(cw.todo)
             s == [sts[n] EXCEPT !.purge = None]
  <2>1. /\ UNCHANGED <<observed, pod, disk>> /\ cw.pc = "strip" /\ cw'.pc = "restore"
        /\ sts' = [sts EXCEPT ![n] = s]
    BY <1>0, <1>15 DEF Strip, At, Goto, Workers
  <2>2. n \in Nodes /\ sts[n] \in StatefulSets
    BY <1>0, <1>1, <2>1
  <2>3. s.replicas = sts[n].replicas /\ s.cfg = sts[n].cfg /\ s.purge = None
    BY <2>2 DEF StatefulSets
  <2>4. Untorn' => Untorn
    BY <1>0, <2>1 DEF Untorn
  <2>5. Configured'
    BY <2>1 DEF Configured
  <2> HIDE DEF n, s
  <2> QED
    BY <1>0, <2>1, <2>2, <2>3, <2>4, <2>5, StatefulSetRestart
<1>16. ASSUME Restore PROVE NotPurged'
  <2> DEFINE n == First(cw.todo)
             s == [sts[n] EXCEPT !.replicas = 1]
  <2>1. /\ UNCHANGED <<observed, pod, disk>> /\ cw.pc = "restore"
        /\ sts' = [sts EXCEPT ![n] = s]
        /\ Visited(n, "strip", "release")
    BY <1>0, <1>16 DEF Restore, At
  <2>2. n \in Nodes /\ sts[n] \in StatefulSets /\ sts[n].purge = None
    BY <1>0, <1>1, <2>1 DEF CleanInv
  <2>3. s.cfg = sts[n].cfg /\ s.purge = None
    BY <2>2 DEF StatefulSets
  <2>4. cw'.pc \in {"strip", "release"}
    BY <1>0, <2>1, VisitedMoves DEF Points
  <2>5. fm # None /\ fm.phase \in {"ScalingDown", "Purging"} => ~Untorn'
    BY <1>0, <2>1, <2>4 DEF SteadyInv, TeardownWalk, Untorn
  <2>6. Configured'
    BY <2>4 DEF Configured
  <2> HIDE DEF n, s
  <2> QED
    BY <1>0, <2>1, <2>2, <2>3, <2>4, <2>5, <2>6, StatefulSetRestart
<1>17. ASSUME NEW n \in Nodes, ReleaseSuspension(n) PROVE NotPurged'
  <2>1. UNCHANGED <<sts, observed, pod, disk>> /\ cw.pc = "release" /\ cw'.pc \in {"release", "fail"}
    BY <1>0, <1>17, VisitedMoves DEF ReleaseSuspension, At, workloads, Points
  <2> QED
    BY <1>0, <1>2, <2>1 DEF Untorn
<1>18. ASSUME ScaleUp PROVE AllNew'
  <2> DEFINE n == First(cw.todo)
  <2>1. /\ UNCHANGED <<observed, pod, disk>> /\ cw.pc = "scaleUp"
        /\ sts' = [sts EXCEPT ![n] = [sts[n] EXCEPT !.replicas = 1]]
    BY <1>0, <1>18 DEF ScaleUp, At
  <2>2. fm # None /\ fm.phase = "Purging" /\ Untorn
    BY <1>1, <2>1 DEF RecordInv, InFlightPoints, Untorn
  <2>3. \A m \in Nodes : Quiet(m) /\ sts[m].cfg = factor
    BY <2>1, <2>2 DEF NotPurged, Drained, Configured
  <2>4. \A m \in Nodes : sts'[m].cfg = sts[m].cfg
    BY <1>0, <2>1 DEF StatefulSets
  <2> QED
    BY <1>0, <2>1, <2>2, <2>3, <2>4 DEF AllNew, Quiet
<1>19. ASSUME FmVerify \/ FmRebuildLayout \/ StripRebuilt \/ FmConverge \/ \E n \in Nodes : Resume(n)
       PROVE  FALSE
  <2>1. /\ cw.pc \in {"dispatch", "stripRebuilt", "resume"}
        /\ cw.pc = "dispatch" => Snap.fm.phase \in {"Verifying", "RebuildingLayout", "Converging"}
    BY <1>19 DEF FmVerify, FmRebuildLayout, StripRebuilt, FmConverge, Resume, Phase, At
  <2>2. fm # None /\ fm.phase \in {"Verifying", "RebuildingLayout", "Converging"}
    BY <1>1, <2>1 DEF RecordInv, InFlightPoints
  <2> QED
    BY <2>2 DEF NotPurged, EarlyPhase
<1> QED
  BY <1>5, <1>6, <1>7, <1>8, <1>10, <1>11, <1>12, <1>13, <1>14, <1>15, <1>16, <1>17, <1>18, <1>19
     DEF Work

\* Once every template has the factor of the spec, nothing reads another one.
LEMMA NextAllNew ==
  ASSUME Steady, TypeInv, RecordInv, SteadyInv, AllNew, [Next]_vars
  PROVE  AllNew'
<1>0. /\ scene \in Scenes /\ sts \in [Nodes -> StatefulSets] /\ observed \in [Nodes -> StatefulSets]
      /\ pod \in [Nodes -> Pods \cup {None}] /\ cw \in Workers
      /\ nw \in [obj : Nodes, factor : AllFactors] \cup {None}
      /\ None \notin Pods
  BY RecordsExist DEF TypeInv, TypeOK, WorkerOK
<1>1. requests # 0 /\ requests = scene.requests
  <2>1. scene.requests <= 1 /\ requests \in 0..scene.requests /\ scene.requests \in Nat
    BY <1>0, SceneTypes DEF Steady, TypeInv, TypeOK
  <2>2. requests # 0
    BY DEF AllNew, TypeInv, Requested
  <2> QED
    BY <2>1, <2>2
<1>2. ASSUME fm' # None, factor' = factor,
             \A n \in Nodes : /\ sts'[n].cfg \in {sts[n].cfg, factor}
                              /\ observed'[n] \in {observed[n], sts[n]}
                              /\ pod'[n] # None => \/ pod[n] # None /\ pod'[n].cfg = pod[n].cfg
                                                   \/ observed[n].replicas = 1 /\ pod'[n].cfg = observed[n].cfg
      PROVE  AllNew'
  BY <1>2 DEF AllNew
<1>3. ASSUME Work PROVE AllNew'
  <2>1. fm' = fm /\ factor' = factor /\ observed' = observed /\ pod' = pod
    <3>1. fm' = fm /\ factor' = factor
      BY <1>3, WorkMoves
    <3>2. UNCHANGED workloads => UNCHANGED <<observed, pod>>
      BY DEF workloads
    <3>3. UNCHANGED workloads \/ UNCHANGED <<observed, pod>>
      BY <1>3, Zenon DEF Work, FmValidate, FmCheckStuck, FmScaleDown, CountStoragePods, FmPurge,
         VerifyPreparation, FmVerify, FmConverge, FmRebuildLayout, Suspend, Resume, ReleaseSuspension,
         ScaleDown, PatchConfigRevision, PatchPurgeInit, ScaleUp, StripRebuilt, Strip, Restore
    <3> QED
      BY <3>1, <3>2, <3>3
  <2>2. \A n \in Nodes : sts'[n].cfg \in {sts[n].cfg, factor}
    <3>1. ASSUME NEW m, NEW s,
                 sts' = [sts EXCEPT ![m] = s], m \in Nodes => s.cfg \in {sts[m].cfg, factor}
          PROVE  \A n \in Nodes : sts'[n].cfg \in {sts[n].cfg, factor}
      BY <1>0, <3>1
    <3>2. ASSUME NEW m, sts' = [sts EXCEPT ![m].replicas = 0] \/ sts' = [sts EXCEPT ![m].replicas = 1]
                        \/ sts' = [sts EXCEPT ![m].purge = None] \/ sts' = [sts EXCEPT ![m].purge = Snap.fm.id]
                        \/ (sts' = [sts EXCEPT ![m].cfg = Snap.factor] /\ Snap.factor = factor)
          PROVE  \A n \in Nodes : sts'[n].cfg \in {sts[n].cfg, factor}
      BY <1>0, <3>2 DEF StatefulSets
    <3>3. ASSUME PatchConfigRevision PROVE Snap.factor = factor
      BY <3>3 DEF PatchConfigRevision, At, TypeInv, WorkerOK, SteadyInv, Snap
    <3>4. CASE sts' = sts
      BY <3>4
    <3>5. CASE FmValidate \/ FmCheckStuck \/ FmScaleDown \/ CountStoragePods \/ FmPurge
               \/ VerifyPreparation \/ FmVerify \/ FmConverge \/ FmRebuildLayout
               \/ \E n \in Nodes : Suspend(n) \/ Resume(n) \/ ReleaseSuspension(n)
      <4>1. UNCHANGED workloads \/ UNCHANGED sts
        BY <3>5, Zenon DEF FmValidate, FmCheckStuck, FmScaleDown, CountStoragePods, FmPurge,
           VerifyPreparation, FmVerify, FmConverge, FmRebuildLayout, Suspend, Resume, ReleaseSuspension
      <4> QED
        BY <3>4, <4>1 DEF workloads
    <3>6. CASE ScaleDown \/ PatchConfigRevision \/ PatchPurgeInit \/ ScaleUp \/ StripRebuilt
               \/ Strip \/ Restore
      BY <3>2, <3>3, <3>6, Zenon DEF ScaleDown, PatchConfigRevision, PatchPurgeInit, ScaleUp, StripRebuilt,
         Strip, Restore
    <3> QED
      BY <1>3, <3>5, <3>6 DEF Work
  <2> QED
    BY <1>2, <2>1, <2>2 DEF AllNew
<1>4. ASSUME \/ StartReconcile \/ Start \/ Consume \/ SetPhase \/ Fail \/ DropAnnotations \/ Refused
             \/ Abandon
      PROVE  AllNew'
  <2>1. UNCHANGED <<factor, sts, observed, pod>>
    BY <1>4 DEF StartReconcile, Start, Consume, SetPhase, Fail, DropAnnotations, Refused, Abandon,
       spec, workloads
  <2>2. ~Start
    BY DEF Start, At, RecordInv, AllNew
  <2>3. ASSUME NEW record \in Migrations, NEW l, SetFactorMigration(record, l) PROVE fm' # None
    BY <1>0, <2>3, RecordsExist DEF SetFactorMigration, AllNew
  <2>4. ASSUME SetPhase PROVE fm' # None
    <3>1. cw.snap \in Clusters /\ cw.snap.fm \in Migrations /\ cw.next \in InFlight \cup Terminal
      BY <2>4 DEF SetPhase, At, TypeInv, WorkerOK, Workers, InFlightPoints, Clusters
    <3>2. [Snap.fm EXCEPT !.phase = cw.next] \in Migrations
      BY <3>1 DEF Snap, Migrations
    <3> QED
      BY <2>3, <2>4, <3>2 DEF SetPhase
  <2>5. ASSUME Fail PROVE fm' # None
    <3>1. cw.snap \in Clusters /\ requests \in IDs
      BY <2>5, SceneTypes DEF Fail, At, TypeInv, TypeOK, WorkerOK, Workers, Requested, IDs
    <3>2. (IF Snap.fm = None THEN [phase |-> "Failed", to |-> None, id |-> requests]
           ELSE [Snap.fm EXCEPT !.phase = "Failed"]) \in Migrations
      BY <3>1 DEF Snap, Clusters, Migrations, Terminal
    <3> QED
      BY <2>3, <2>5, <3>2 DEF Fail
  <2>6. ASSUME StartReconcile \/ Consume \/ DropAnnotations \/ Refused \/ Abandon PROVE fm' = fm
    BY <2>6 DEF StartReconcile, Consume, DropAnnotations, Refused, Abandon
  <2> QED
    BY <1>2, <1>4, <2>1, <2>2, <2>4, <2>5, <2>6 DEF AllNew
<1>5. ASSUME ReconcileStatefulSet PROVE AllNew'
  <2>1. /\ nw # None /\ nw.factor = factor /\ UNCHANGED <<factor, fm, observed, pod>>
    BY <1>5 DEF ReconcileStatefulSet, SteadyInv, spec
  <2>2. \A m \in Nodes : sts'[m] = sts[m] \/ sts'[m].cfg = factor
    BY <1>0, <1>5, <2>1 DEF ReconcileStatefulSet
  <2> QED
    BY <1>2, <2>1, <2>2 DEF AllNew
<1>6. ASSUME NEW n \in Nodes, NEW p \in Pods \cup {None}, pod' = [pod EXCEPT ![n] = p],
             UNCHANGED <<factor, fm, sts, observed>>,
             p # None => \/ pod[n] # None /\ p.cfg = pod[n].cfg
                         \/ observed[n].replicas = 1 /\ p.cfg = observed[n].cfg
      PROVE  AllNew'
  BY <1>0, <1>2, <1>6 DEF AllNew
<1>7. ASSUME NEW n \in Nodes, RollOut(n) \/ RemovePod(n) \/ Evict(n) PROVE AllNew'
  BY <1>6, <1>7 DEF RollOut, RemovePod, Evict, spec
<1>8. ASSUME NEW n \in Nodes, CreatePod(n) PROVE AllNew'
  <2> DEFINE p == [cfg |-> observed[n].cfg, purge |-> observed[n].purge, st |-> "init"]
  <2>1. p \in Pods /\ p.cfg = observed[n].cfg
    BY <1>0 DEF Pods, StatefulSets
  <2>2. pod' = [pod EXCEPT ![n] = p] /\ observed[n].replicas = 1 /\ UNCHANGED <<factor, fm, sts, observed>>
    BY <1>8 DEF CreatePod, spec
  <2> HIDE DEF p
  <2> QED
    BY <1>6, <2>1, <2>2
<1>9. ASSUME NEW n \in Nodes, PurgeInit(n) \/ Boot(n) PROVE AllNew'
  <2>1. pod[n] \in Pods /\ pod[n] # None
    BY <1>0, <1>9 DEF PurgeInit, Boot
  <2>2. PICK st \in {"starting", "up"} : pod' = [pod EXCEPT ![n] = [pod[n] EXCEPT !.st = st]]
    BY <1>0, <1>9 DEF PurgeInit, Boot
  <2>3. UNCHANGED <<factor, fm, sts, observed>>
    BY <1>9 DEF PurgeInit, Boot, spec
  <2> DEFINE p == [pod[n] EXCEPT !.st = st]
  <2>4. p \in Pods /\ p.cfg = pod[n].cfg
    BY <2>1 DEF Pods
  <2>5. pod' = [pod EXCEPT ![n] = p]
    BY <2>2
  <2> HIDE DEF p
  <2> QED
    BY <1>6, <2>1, <2>3, <2>4, <2>5
<1>10. ASSUME \/ RequestAbort \/ Expire \/ UNCHANGED vars
              \/ \E n \in Nodes : StartNodeReconcile(n) \/ LearnLayout(n) \/ SyncCache(n) \/ Observe(n)
       PROVE  AllNew'
  <2>1. /\ UNCHANGED <<factor, fm, sts, pod>>
        /\ \A n \in Nodes : observed'[n] \in {observed[n], sts[n]}
    BY <1>0, <1>10 DEF RequestAbort, Expire, vars, StartNodeReconcile, LearnLayout, SyncCache, Observe, spec,
       workloads
  <2> QED
    BY <1>2, <2>1 DEF AllNew
<1>11. ASSUME ClearStatus \/ \E f \in Factors \cup {Malformed} : Request(f) PROVE FALSE
  <2>1. scene.requests \in Nat
    BY <1>0, SceneTypes
  <2> QED
    BY <1>1, <1>11, <2>1 DEF ClearStatus, Request
<1> QED
  BY <1>3, <1>4, <1>5, <1>7, <1>8, <1>9, <1>10, <1>11 DEF Next, ClusterStep, Work

\* No two Garage processes run with different replication factors.  Until the first
\* StatefulSet is scaled up nothing is purged, so a process that is up has the old
\* factor, whatever its template says: Garage exits on a layout of another one.  The
\* pass that scales up starts only when no Pod is left, none can come back, and every
\* template has the new factor.  Said of one request that meets no GarageNode
\* reconcile, no lost status write and no Pod that vanishes by itself (Steady).
THEOREM RestartIsSimultaneous ==
  ASSUME Steady PROVE Spec => []SimultaneousRestart
<1> DEFINE Inv == TypeInv /\ RecordInv /\ CleanInv /\ KeptInv /\ SteadyInv /\ (NotPurged \/ AllNew)
<1>1. Init => Inv
  <2> SUFFICES ASSUME Init PROVE Inv
    OBVIOUS
  <2>1. TypeInv
    BY InitTypeInv
  <2>2. RecordInv /\ CleanInv /\ KeptInv
    BY DEF Init, Idle, RecordInv, InFlightPoints, CleanInv, Restored, KeptInv
  <2>3. SteadyInv
    BY DEF Init, Idle, SteadyInv, TeardownWalk
  <2>4. \A n \in Nodes : Fresh(n)
    BY DEF Init, Fresh
  <2>5. /\ fm = None /\ cw.pc = "idle"
        /\ \A n \in Nodes : /\ observed[n].replicas = 1 /\ observed[n].cfg = OldFactor
                            /\ sts[n].cfg = OldFactor /\ pod[n].cfg = OldFactor
                            /\ pod[n] \in Pods
    BY DEF Init, Idle, Pods, AllFactors
  <2>6. \A n \in Nodes : pod[n] # None
    BY <2>1, <2>5, RecordsExist DEF TypeInv, TypeOK
  <2>7. NotPurged
    BY <2>4, <2>5, <2>6
       DEF NotPurged, EarlyPhase, EarlyPods, EarlyConfig, Draining, Drained, Configured
  <2> QED
    BY <2>1, <2>2, <2>3, <2>7
<1>2. Inv /\ [Next]_vars => Inv'
  <2> SUFFICES ASSUME Inv, [Next]_vars PROVE Inv'
    OBVIOUS
  <2>1. ~(lost < scene.lost)
    BY SceneTypes DEF Steady, TypeInv, TypeOK
  <2>2. TypeInv' /\ RecordInv' /\ CleanInv' /\ KeptInv'
    <3>1. \A s \in Scenes : s.lost = 0
      BY DEF Steady
    <3> QED
      BY <3>1, NextTypeInv, NextRecordInv, NextCleanInv, NextKeptInv, Zenon
  <2>3. \/ Environment \/ UNCHANGED vars \/ Work
        \/ StartReconcile \/ Start \/ Consume \/ SetPhase \/ Fail \/ DropAnnotations \/ Refused
        \/ Abandon
    BY DEF Next, ClusterStep, Environment, Work
  <2>4. SteadyInv'
    BY <2>1, <2>3, EnvironmentSteadyInv, WorkSteadyInv, DriverSteadyInv
  <2>5. NotPurged => NotPurged' \/ AllNew'
    BY <2>3, EnvironmentRestart, WorkRestart, DriverRestart
  <2>6. AllNew => AllNew'
    BY NextAllNew
  <2> QED
    BY <2>2, <2>4, <2>5, <2>6
<1>3. Inv => SimultaneousRestart
  <2>1. NotPurged => SimultaneousRestart
    BY DEF NotPurged, Fresh, SimultaneousRestart, Ready
  <2>2. AllNew => SimultaneousRestart
    BY DEF AllNew, SimultaneousRestart, Ready
  <2> QED
    BY <2>1, <2>2
<1> HIDE DEF Inv
<1> QED
  BY <1>1, <1>2, <1>3, PTL DEF Spec

====
