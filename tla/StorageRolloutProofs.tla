------------------------ MODULE StorageRolloutProofs ------------------------
(***************************************************************************)
(* Theorems about StorageRollout that hold for every set of members, every *)
(* division of them into a DaemonSet and StatefulSets, every budget of     *)
(* events and every bound.                                                 *)
(*                                                                         *)
(* The inductive invariant IndInv has a part per idea: what the record and *)
(* the reconcile know at each step, that a member never has two open Pods, *)
(* that what the operator stopped is down, that the claim of the actor is  *)
(* protected, and that incarnations are told apart.  How Pods, records and *)
(* workloads change is said once, by the lemmas PodChange, RecordChange    *)
(* and WorkloadChange; the parts are proved from those forms.              *)
(***************************************************************************)
EXTENDS StorageRollout, TLAPS, FiniteSetTheorems, WellFoundedInduction

Revs == [c : Nat, n : Nat, e : Nat]
Records ==
  [m : Member \cup {0}, prev : 0..MaxPod, own : 0..MaxUID, rev : Revs, c : Nat, n : Nat, req : Nat, disk : 0..2,
   safe : BOOLEAN, fenced : BOOLEAN, retired : SUBSET (0..MaxUID), rpod : 0..MaxPod]
Workloads == [uid : 0..MaxUID, rev : Revs, ack : Nat \X Nat, fence : BOOLEAN]
Workers == [pc : Steps, gen : Nat, nonce : Nat, cand : Records]
GarageNodes == [gen : Nat, st : {"live", "deleting", "gone"}]
Observations == [pod : 0..MaxPod, gen : Nat]
Creates == [h : Member \cup {0}, uid : 1..MaxUID, rev : Revs]
PodStates == {"gated", "open", "run", "ready", "dying"}
Pods == [m : Member, uid : 1..MaxPod, own : 1..MaxUID, rev : Revs, disk : {1, 2}, st : PodStates]
Claims == [uid : {1, 2}, prot : BOOLEAN, del : BOOLEAN]

\* The types of the variables.
Typed ==
  /\ scene \in Scenes
  /\ in \in [gen : Nat, nonce : Nat, ext : Nat]
  /\ gn \in [Member -> GarageNodes]
  /\ seen \in [Member -> Observations]
  /\ wl \in [Member \cup {0} -> Workloads]
  /\ ghost \subseteq Creates
  /\ pods \subseteq Pods
  /\ label \in [Member -> 0..MaxUID]
  /\ pvc \in [Member -> Claims]
  /\ rec \in Records
  /\ marker \in {"none", "provisional", "confirmed"}
  /\ w \in Workers
  /\ down \subseteq Member

\* What the record and the candidate are at each step of a reconcile.
RecordKnown ==
  /\ rec.m = 0 => rec = NoRec
  /\ w.pc \in {"redrive", "adopt", "enabled", "select", "advance", "recheck", "forward"} => rec.m \in Member
  /\ w.pc \in {"publish", "scan", "protect", "persist", "release", "cancel"} => rec = NoRec
  /\ w.pc \in {"protect", "persist"} => w.cand.m \in Member /\ w.cand.retired = {}

\* A member has one Pod per workload and one open Pod; a StatefulSet's member has one Pod.
PodsAreOne ==
  /\ \A p, q \in pods : p.uid = q.uid => p = q
  /\ \A p, q \in pods : p.m = q.m /\ (p.own = q.own \/ (p.st # "gated" /\ q.st # "gated") \/ p.m \in Claimed) => p = q
  /\ \A p \in pods : p.m \in Claimed => p.st # "gated"

\* The Pod a handoff replaces was Ready when it was recorded, and a gate does not come back.
OldPodIsOpen == \A p \in pods : p.uid \in {rec.prev, w.cand.prev} => p.st # "gated"

\* A member that is down has no Ready Pod.
DownIsDown == \A p \in pods : p.st = "ready" => p.m \notin down

\* Until the first Pod of a handoff is deleted nothing is down.
RecheckIsFirst == w.pc = "recheck" => \A m \in down : gn[m].st # "live"

\* The claim of the actor is the recorded one and is protected, from before the record is written.
ClaimIsKept ==
  /\ rec.m \in Claimed => pvc[rec.m].uid = rec.disk /\ pvc[rec.m].prot
  /\ w.pc = "persist" /\ w.cand.m \in Claimed => pvc[w.cand.m].uid = w.cand.disk /\ pvc[w.cand.m].prot

\* Workloads differ from each other and from those that are gone.
WorkloadsDiffer ==
  /\ \A h, k \in Member \cup {0} : wl[h].uid = wl[k].uid => h = k \/ wl[h] = NoWorkload
  /\ \A h \in Member \cup {0} : wl[h].uid = NoUID => wl[h] = NoWorkload
  /\ \A g \in ghost, h \in Member \cup {0} : g.uid # wl[h].uid

\* The record has room for what it retires, and the actor's workload is not among it.
RetiredFits ==
  /\ Cardinality(rec.retired) <= MaxRetired
  /\ rec.own \notin rec.retired \ {NoUID}
  /\ wl[Home(rec.m)].uid \notin rec.retired \ {NoUID}
  /\ w.pc = "adopt" => /\ Cardinality(rec.retired \cup {rec.own}) <= MaxRetired
                       /\ wl[Home(rec.m)].uid \in {NoUID} \/ wl[Home(rec.m)].uid # rec.own

\* The configuration of every template exists.
TemplatesExist == \A h \in Member \cup {0} : wl[h].uid # NoUID => wl[h].rev \in config

\* A workload acknowledges the generations it was rendered from; the scan finds the DaemonSet of its own pass.
Acknowledged ==
  /\ \A m \in Claimed : wl[m].uid # NoUID => wl[m].ack = <<wl[m].rev.c, wl[m].rev.n>>
  /\ w.pc = "scan" /\ Pool # {} /\ wl[0].uid # NoUID => wl[0].rev.c = w.gen

-----------------------------------------------------------------------------
(* Choices, scenes and constants.                                          *)

\* A nonempty set of natural numbers has a least element, and Min is it.
LEMMA MinIn ==
  ASSUME NEW S \in SUBSET Nat, S # {}
  PROVE  Min(S) \in S
<1> DEFINE Less == {ss \in Nat \X Nat : ss[1] < ss[2]}
<1>1. IsWellFoundedOn(Less, Nat)
  BY NatLessThanWellFounded, Zenon DEF OpToRel
<1>2. PICK x \in S : \A y \in S : ~(<<y, x>> \in Less)
  <2> HIDE DEF Less
  <2> QED
    BY <1>1, WFMin, Zenon
<1>3. \A y \in S : ~(y < x)
  BY <1>2
<1>4. \A y \in S : x <= y
  BY <1>3
<1> QED
  BY <1>4, Zenon DEF Min

\* Fresh incarnations are unseen.
LEMMA FreshIn ==
  /\ UnseenUIDs # {} => FreshUID \in UnseenUIDs /\ FreshUID \in 1..MaxUID
  /\ UnseenPods # {} => FreshPod \in UnseenPods /\ FreshPod \in 1..MaxPod
<1>1. UnseenUIDs \subseteq 1..MaxUID /\ UnseenPods \subseteq 1..MaxPod
  BY DEF UnseenUIDs, UnseenPods
<1>2. UnseenUIDs \in SUBSET Nat /\ UnseenPods \in SUBSET Nat
  BY <1>1, StorageRolloutAssumption
<1>3. UnseenUIDs # {} => FreshUID \in UnseenUIDs
  BY <1>2, MinIn DEF FreshUID
<1>4. UnseenPods # {} => FreshPod \in UnseenPods
  BY <1>2, MinIn DEF FreshPod
<1> QED
  BY <1>1, <1>3, <1>4

\* Members and bounds are numbers; 0 is no member.
LEMMA Constants ==
  /\ MaxRetired \in Nat /\ MaxUID \in Nat /\ MaxPod \in Nat
  /\ Member \subseteq 1..MaxUID /\ Member \subseteq 1..MaxPod /\ Member \subseteq Nat /\ 0 \notin Member
  /\ \A x \in Scenes : x.pool \subseteq Member /\ x.wipe \in BOOLEAN
  /\ NoRec \in Records /\ NoWorkload \in Workloads /\ Idle \in Workers /\ NoRec.rev \in Revs
<1>1. /\ MaxRetired \in Nat /\ MaxUID \in Nat /\ MaxPod \in Nat
      /\ Member \subseteq 1..MaxUID /\ Member \subseteq 1..MaxPod /\ Member \subseteq Nat /\ 0 \notin Member
      /\ \A x \in Scenes : x.pool \subseteq Member /\ x.wipe \in BOOLEAN
  BY StorageRolloutAssumption
<1>2. NoRec.rev \in Revs /\ NoRec \in Records
  BY <1>1 DEF NoRec, Revs, Records
<1>3. NoWorkload \in Workloads
  BY <1>1, <1>2 DEF NoWorkload, Workloads, NoUID
<1>4. Idle \in Workers
  BY <1>2 DEF Idle, Workers, Steps
<1> QED
  BY <1>1, <1>2, <1>3, <1>4

\* A member's workload is one of the workloads.
LEMMA HomeIn ==
  ASSUME Typed
  PROVE  /\ Pool \subseteq Member /\ Claimed \subseteq Member
         /\ \A m \in Member \cup {0} : Home(m) \in Member \cup {0}
         /\ \A m \in Claimed : Home(m) = m
         /\ \A m \in Pool : Home(m) = 0
         /\ \A m \in Member : Home(m) = 0 <=> m \in Pool
BY Constants DEF Typed, Pool, Claimed, Home

\* The scene of a behaviour is fixed.
LEMMA SceneIsFixed ==
  ASSUME [Next]_vars
  PROVE  scene' = scene
<1>1. ASSUME Worker PROVE scene' = scene
  <2>1. CASE StartPass \/ RedriveRecoveryPod \/ ClearRecoveryPod \/ ActorLost \/ FenceNodes \/ AwaitOldPods
             \/ CreateFencedWorkload \/ AdoptWorkload \/ FenceAlreadyLifted \/ RemoveRetiredPod
    BY <2>1 DEF StartPass, RedriveRecoveryPod, ClearRecoveryPod, ActorLost, FenceNodes, AwaitOldPods,
       CreateFencedWorkload, AdoptWorkload, FenceAlreadyLifted, RemoveRetiredPod, user
  <2>2. CASE RetokenNodes \/ CorrectFenced \/ EnableWorkload \/ ClearWorkloadFence \/ SelectRecoveryPod
             \/ SnapshotFails \/ NothingToCorrect \/ PublishCorrection \/ AdvanceRecord
    BY <2>2 DEF RetokenNodes, CorrectFenced, EnableWorkload, ClearWorkloadFence, SelectRecoveryPod,
       SnapshotFails, NothingToCorrect, PublishCorrection, AdvanceRecord, user
  <2>3. CASE RecoverIdle \/ ReleaseActorGate \/ RecoverWaits \/ RedriveOldPod \/ CompleteHandoff \/ ReleaseHandoff
             \/ PublishPool
    BY <2>3 DEF RecoverIdle, ReleaseActorGate, RecoverWaits, RedriveOldPod, CompleteHandoff, ReleaseHandoff,
       PublishPool, user
  <2>4. CASE ScanWaits \/ SelectCandidate \/ Converged \/ BeginHandoff \/ PersistHandoff \/ CancelHandoff
             \/ DeleteCandidatePod
    BY <2>4 DEF ScanWaits, SelectCandidate, Converged, BeginHandoff, PersistHandoff, CancelHandoff,
       DeleteCandidatePod, user
  <2> QED
    BY <1>1, <2>1, <2>2, <2>3, <2>4 DEF Worker
<1>2. ASSUME NEW m \in Member,
             \/ ReconcileStatefulSet(m) \/ UpdateStatusFromGarage(m) \/ FinalizeNode(m)
             \/ CreatePod(m) \/ LateCreate(m) \/ PodStep(m) \/ ClaimGone(m)
             \/ EditNode(m) \/ DeleteNode(m) \/ DeleteClaim(m)
      PROVE  scene' = scene
  BY <1>2 DEF ReconcileStatefulSet, UpdateStatusFromGarage, FinalizeNode, CreatePod, LateCreate, PodStep,
     ClaimGone, EditNode, DeleteNode, DeleteClaim, user
<1>3. ASSUME LateCreateLost \/ (\E h \in DOMAIN wl : DeleteWorkload(h)) \/ (\E p \in pods : LosePod(p))
             \/ EditCluster \/ EditSecret \/ RequestRecovery \/ Crash
      PROVE  scene' = scene
  BY <1>3 DEF LateCreateLost, DeleteWorkload, LosePod, EditCluster, EditSecret, RequestRecovery, Crash, user
<1>4. ASSUME UNCHANGED vars PROVE scene' = scene
  BY <1>4 DEF vars
<1> QED
  BY <1>1, <1>2, <1>3, <1>4 DEF Next

-----------------------------------------------------------------------------
(* How things change.                                                      *)

\* A published workload keeps its incarnation or gets a fresh one.
LEMMA PublishForm ==
  ASSUME Typed, NEW m \in Member, NEW g \in Nat, NEW fence \in BOOLEAN, Publish(m, g, fence)
  PROVE  /\ Rendered(m, g) \in Revs
         /\ \E u \in 1..MaxUID :
              /\ IF wl[Home(m)].uid = NoUID THEN u \in UnseenUIDs ELSE u = wl[Home(m)].uid
              /\ wl' = [wl EXCEPT ![Home(m)] = [uid |-> u, rev |-> Rendered(m, g), ack |-> <<g, gn[m].gen>>, fence |-> fence]]
         /\ wl' \in [Member \cup {0} -> Workloads]
         /\ config' = config \cup {Rendered(m, g)}
<1> DEFINE h == Home(m)
<1>1. h \in Member \cup {0} /\ wl[h] \in Workloads /\ gn[m].gen \in Nat
  BY HomeIn DEF Typed, GarageNodes
<1>2. Rendered(m, g) \in Revs
  <2>1. in.ext \in Nat
    BY DEF Typed
  <2> QED
    BY <1>1, <2>1 DEF Rendered, Revs
<1> DEFINE u == IF wl[h].uid = NoUID THEN FreshUID ELSE wl[h].uid
<1>3. u \in 1..MaxUID /\ (IF wl[h].uid = NoUID THEN u \in UnseenUIDs ELSE u = wl[h].uid)
  <2>1. CASE wl[h].uid = NoUID
    BY <2>1, FreshIn DEF Publish
  <2>2. CASE wl[h].uid # NoUID
    BY <1>1, <2>2, Constants DEF Workloads, NoUID
  <2> QED
    BY <2>1, <2>2
<1> DEFINE x == [uid |-> u, rev |-> Rendered(m, g), ack |-> <<g, gn[m].gen>>, fence |-> fence]
<1>4. wl' = [wl EXCEPT ![h] = x]
  BY DEF Publish
<1>5. x \in Workloads
  <2> HIDE DEF u
  <2> QED
    BY <1>1, <1>2, <1>3, Constants DEF Workloads
<1>6. wl' \in [Member \cup {0} -> Workloads]
  <2> HIDE DEF x
  <2> QED
    BY <1>1, <1>4, <1>5 DEF Typed
<1>7. config' = config \cup {Rendered(m, g)}
  BY DEF Publish
<1> QED
  BY <1>2, <1>3, <1>4, <1>6, <1>7

\* Moving to another program point, stopping and adopting a status write leave a worker.
LEMMA WorkerMoves ==
  ASSUME Typed
  PROVE  /\ Stop => w' \in Workers
         /\ \A pc \in Steps : Goto(pc) \/ Adopt(pc) => w' \in Workers
BY Constants DEF Typed, Stop, Goto, Adopt, Workers

\* How the Pods change, with the members that are down.
PodsKept == pods' = pods /\ down' = down
PodGoes(p) == pods' = pods \ {p} \/ (p.st # "gated" /\ pods' = (pods \ {p}) \cup {[p EXCEPT !.st = "dying"]})
PodStopped == \E p \in pods : p.st # "gated" /\ p.m = rec.m /\ PodGoes(p) /\ down' = down \cup {p.m}
PodRemoved == \E p \in pods : PodGoes(p) /\ down' = down
PodRuns == \E p \in pods : p.st \in {"open", "ready"} /\ pods' = (pods \ {p}) \cup {[p EXCEPT !.st = "run"]} /\ down' = down
PodIsReady == \E p \in pods : p.st = "run" /\ pods' = (pods \ {p}) \cup {[p EXCEPT !.st = "ready"]} /\ down' = down \ {p.m}
PodCreated ==
  \E m \in Member, u \in UnseenPods, own \in 1..MaxUID, rev \in Revs :
    /\ pods' = pods \cup {[m |-> m, uid |-> u, own |-> own, rev |-> rev, disk |-> pvc[m].uid,
                            st |-> IF m \in Pool THEN "gated" ELSE "run"]}
    /\ IF m \in Pool THEN \A p \in pods : p.m = m => p.own # own ELSE \A p \in pods : p.m # m
    /\ (own = wl[Home(m)].uid /\ rev = wl[Home(m)].rev) \/ \E g \in ghost : own = g.uid
    /\ down' = down
GateOpens ==
  \E S \in SUBSET pods :
    /\ pods' = {IF p \in S THEN [p EXCEPT !.st = "open"] ELSE p : p \in pods}
    /\ \A p \in S : p.m \in Pool /\ p.st = "gated" /\ p.own = wl[0].uid /\ OtherPodsOnNode(p) = {}
    /\ down' = down
PodForms == PodsKept \/ PodStopped \/ PodRemoved \/ PodRuns \/ PodIsReady \/ PodCreated \/ GateOpens

LEMMA DyingForm ==
  ASSUME NEW p \in pods, Dying(p)
  PROVE  PodGoes(p)
<1>1. CASE Mounted(p)
  <2>1. {[q EXCEPT !.st = "dying"] : q \in {p} \cap {r \in pods : Mounted(r)}} = {[p EXCEPT !.st = "dying"]}
    BY <1>1
  <2> QED
    BY <1>1, <2>1 DEF Dying, PodGoes, Mounted
<1>2. CASE ~Mounted(p)
  <2>1. {[q EXCEPT !.st = "dying"] : q \in {p} \cap {r \in pods : Mounted(r)}} = {}
    BY <1>2
  <2> QED
    BY <2>1 DEF Dying, PodGoes
<1> QED
  BY <1>1, <1>2

LEMMA KillForm ==
  ASSUME NEW p \in pods, Kill(p), p.st # "gated", p.m = rec.m
  PROVE  PodStopped
<1>1. PodGoes(p) /\ down' = down \cup {p.m}
  BY DyingForm DEF Kill
<1> QED
  BY <1>1 DEF PodStopped

\* The steps of a reconcile that stop Pods or open gates.
LEMMA WorkerPods ==
  ASSUME Typed, RecordKnown, PodsAreOne, OldPodIsOpen, Worker
  PROVE  PodForms
<1>1. CASE RedriveRecoveryPod
  <2>1. PICK p \in RecoveryPod(rec) :
          \/ Alive(p) /\ Redrivable(rec, p) /\ Kill(p)
          \/ UNCHANGED <<pods, down>>
    BY <1>1 DEF RedriveRecoveryPod
  <2>2. p \in pods /\ p.m = rec.m
    BY DEF RecoveryPod, Of
  <2>3. CASE Redrivable(rec, p) /\ Kill(p)
    <3>1. p.m \in Member
      BY <2>2 DEF Typed, Pods
    <3>2. p.st # "gated"
      <4>1. CASE rec.m \in Pool
        BY <2>3, <4>1 DEF Redrivable, Mounted
      <4>2. CASE rec.m \notin Pool
        BY <2>2, <3>1, <4>2 DEF Claimed, PodsAreOne
      <4> QED
        BY <4>1, <4>2
    <3> QED
      BY <2>2, <2>3, <3>2, KillForm DEF PodForms
  <2> QED
    BY <2>1, <2>3 DEF PodForms, PodsKept
<1>2. CASE RemoveRetiredPod
  <2>1. UNCHANGED <<pods, down>> \/ (rec.m \in Claimed /\ \E p \in Group(rec) : Kill(p))
    BY <1>2 DEF RemoveRetiredPod
  <2>2. ASSUME rec.m \in Claimed, NEW p \in Group(rec), Kill(p) PROVE PodStopped
    <3>1. p \in pods /\ p.m = rec.m
      BY <2>2 DEF Group, Claimed, Of
    <3> QED
      BY <2>2, <3>1, KillForm DEF PodsAreOne
  <2> QED
    BY <2>1, <2>2 DEF PodForms, PodsKept
<1>3. CASE RedriveOldPod
  <2>1. PICK p \in OldPodLive : Kill(p)
    BY <1>3 DEF RedriveOldPod
  <2>2. p \in pods /\ p.m = rec.m /\ p.uid = rec.prev
    BY DEF OldPodLive, OldPod, Of
  <2> QED
    BY <2>1, <2>2, KillForm DEF OldPodIsOpen, PodForms
<1>4. CASE DeleteCandidatePod
  <2>1. PICK p \in pods : ObservedReady(rec.m, p) /\ Kill(p)
    BY <1>4 DEF DeleteCandidatePod
  <2> QED
    BY <2>1, KillForm DEF ObservedReady, PodForms
<1>5. CASE ReleaseActorGate
  <2> DEFINE S == {p \in GatedActor : GateReleasable(p)}
  <2>1. pods' = {IF p \in S THEN [p EXCEPT !.st = "open"] ELSE p : p \in pods}
    BY <1>5 DEF ReleaseActorGate
  <2>2. \A p \in S : p \in pods /\ p.m \in Pool /\ p.st = "gated" /\ p.own = wl[0].uid /\ OtherPodsOnNode(p) = {}
    BY <1>5 DEF ReleaseActorGate, GatedActor, GateReleasable, Of
  <2>3. down' = down /\ S \in SUBSET pods
    BY <1>5, <2>2 DEF ReleaseActorGate
  <2> HIDE DEF S
  <2> QED
    BY <2>1, <2>2, <2>3 DEF GateOpens, PodForms
<1>6. CASE PublishPool
  <2> DEFINE S == {p \in pods : GateAuthorized(p)}
  <2>1. pods' = pods \/ pods' = {IF p \in S THEN [p EXCEPT !.st = "open"] ELSE p : p \in pods}
    BY <1>6 DEF PublishPool
  <2>2. \A p \in S : p.m \in Pool /\ p.st = "gated" /\ p.own = wl[0].uid /\ OtherPodsOnNode(p) = {}
    BY DEF GateAuthorized
  <2>3. down' = down /\ S \in SUBSET pods
    BY <1>6 DEF PublishPool
  <2> HIDE DEF S
  <2> QED
    BY <2>1, <2>2, <2>3 DEF GateOpens, PodsKept, PodForms
<1>7. ASSUME ~RedriveRecoveryPod, ~RemoveRetiredPod, ~RedriveOldPod, ~DeleteCandidatePod, ~ReleaseActorGate, ~PublishPool
      PROVE  PodsKept
  <2>1. CASE StartPass \/ ClearRecoveryPod \/ ActorLost \/ FenceNodes \/ AwaitOldPods
             \/ CreateFencedWorkload \/ AdoptWorkload \/ FenceAlreadyLifted
    BY <2>1 DEF StartPass, ClearRecoveryPod, ActorLost, FenceNodes, AwaitOldPods,
       CreateFencedWorkload, AdoptWorkload, FenceAlreadyLifted, PodsKept
  <2>2. CASE RetokenNodes \/ CorrectFenced \/ EnableWorkload \/ ClearWorkloadFence \/ SelectRecoveryPod
             \/ SnapshotFails \/ NothingToCorrect \/ PublishCorrection \/ AdvanceRecord
    BY <2>2 DEF RetokenNodes, CorrectFenced, EnableWorkload, ClearWorkloadFence, SelectRecoveryPod,
       SnapshotFails, NothingToCorrect, PublishCorrection, AdvanceRecord, PodsKept
  <2>3. CASE RecoverIdle \/ RecoverWaits \/ CompleteHandoff \/ ReleaseHandoff \/ ScanWaits \/ SelectCandidate
             \/ Converged \/ BeginHandoff \/ PersistHandoff \/ CancelHandoff
    BY <2>3 DEF RecoverIdle, RecoverWaits, CompleteHandoff, ReleaseHandoff, ScanWaits, SelectCandidate,
       Converged, BeginHandoff, PersistHandoff, CancelHandoff, PodsKept
  <2> QED
    BY <1>7, <2>1, <2>2, <2>3 DEF Worker
<1> QED
  BY <1>1, <1>2, <1>3, <1>4, <1>5, <1>6, <1>7 DEF PodForms

\* Every step changes the Pods in one of these ways.
LEMMA PodChange ==
  ASSUME Typed, RecordKnown, PodsAreOne, OldPodIsOpen, [Next]_vars
  PROVE  PodForms
<1>0. wl \in [Member \cup {0} -> Workloads] /\ \A m \in Member : Home(m) \in Member \cup {0} /\ wl[Home(m)] \in Workloads
  BY HomeIn DEF Typed
<1>1. ASSUME NEW m \in Member, CreatePod(m) PROVE PodForms
  <2> DEFINE own == wl[Home(m)].uid
             rev == wl[Home(m)].rev
  <2>1. own \in 1..MaxUID /\ rev \in Revs
    BY <1>0, <1>1, Constants DEF CreatePod, Workloads, NoUID
  <2>2. FreshPod \in UnseenPods
    BY <1>1, FreshIn DEF CreatePod, NewPod
  <2>3. IF m \in Pool THEN \A p \in pods : p.m = m => p.own # own ELSE \A p \in pods : p.m # m
    BY <1>1 DEF CreatePod, Of, Home
  <2>4. pods' = pods \cup {[m |-> m, uid |-> FreshPod, own |-> own, rev |-> rev, disk |-> pvc[m].uid,
                            st |-> IF m \in Pool THEN "gated" ELSE "run"]} /\ down' = down
    BY <1>1 DEF CreatePod, NewPod
  <2> QED
    BY <2>1, <2>2, <2>3, <2>4 DEF PodCreated, PodForms
<1>2. ASSUME NEW m \in Member, LateCreate(m) PROVE PodForms
  <2>1. PICK g \in ghost :
          /\ IF m \in Pool THEN ~ \E p \in Of(m) : p.own = g.uid ELSE Of(m) = {} /\ ~pvc[m].del
          /\ NewPod(m, g.uid, g.rev)
    BY <1>2 DEF LateCreate
  <2>2. g.uid \in 1..MaxUID /\ g.rev \in Revs
    BY DEF Typed, Creates
  <2>3. FreshPod \in UnseenPods
    BY <2>1, FreshIn DEF NewPod
  <2>4. IF m \in Pool THEN \A p \in pods : p.m = m => p.own # g.uid ELSE \A p \in pods : p.m # m
    BY <2>1 DEF Of
  <2>5. pods' = pods \cup {[m |-> m, uid |-> FreshPod, own |-> g.uid, rev |-> g.rev, disk |-> pvc[m].uid,
                            st |-> IF m \in Pool THEN "gated" ELSE "run"]} /\ down' = down
    BY <1>2, <2>1 DEF LateCreate, NewPod
  <2> QED
    BY <2>2, <2>3, <2>4, <2>5 DEF PodCreated, PodForms
<1>3. ASSUME NEW m \in Member, PodStep(m) PROVE PodForms
  <2>1. PICK p \in Of(m) :
       \/ p.st = "open" /\ pods' = (pods \ {p}) \cup {[p EXCEPT !.st = "run"]} /\ UNCHANGED down
       \/ p.st = "run" /\ pods' = (pods \ {p}) \cup {[p EXCEPT !.st = "ready"]} /\ down' = down \ {m}
       \/ pods' = pods \ {p} /\ UNCHANGED down
       \/ Dying(p) /\ UNCHANGED down
    BY <1>3 DEF PodStep
  <2>2. p \in pods /\ p.m = m
    BY DEF Of
  <2> QED
    BY <2>1, <2>2, DyingForm DEF PodForms, PodRuns, PodIsReady, PodRemoved, PodGoes
<1>4. ASSUME NEW p \in pods, LosePod(p) PROVE PodForms
  <2>1. down' = down /\ (Dying(p) \/ (p.st = "ready" /\ pods' = (pods \ {p}) \cup {[p EXCEPT !.st = "run"]}))
    BY <1>4 DEF LosePod
  <2> QED
    BY <2>1, DyingForm DEF PodForms, PodRuns, PodRemoved
<1>5. ASSUME NEW m \in Member,
             \/ ReconcileStatefulSet(m) \/ UpdateStatusFromGarage(m) \/ FinalizeNode(m)
             \/ ClaimGone(m) \/ EditNode(m) \/ DeleteNode(m) \/ DeleteClaim(m)
      PROVE  PodsKept
  BY <1>5 DEF ReconcileStatefulSet, UpdateStatusFromGarage, FinalizeNode, ClaimGone, EditNode, DeleteNode,
     DeleteClaim, PodsKept
<1>6. ASSUME \/ LateCreateLost \/ (\E h \in DOMAIN wl : DeleteWorkload(h))
             \/ EditCluster \/ EditSecret \/ RequestRecovery \/ Crash \/ UNCHANGED vars
      PROVE  PodsKept
  BY <1>6 DEF LateCreateLost, DeleteWorkload, EditCluster, EditSecret, RequestRecovery, Crash, vars, PodsKept
<1> QED
  BY <1>1, <1>2, <1>3, <1>4, <1>5, <1>6, WorkerPods DEF Next, PodForms

\* How the record changes.
RecordKept == rec' = rec
RecordRefined ==
  /\ rec' \in Records /\ rec.m \in Member
  /\ rec'.m = rec.m /\ rec'.prev = rec.prev /\ rec'.own = rec.own /\ rec'.disk = rec.disk /\ rec'.retired = rec.retired
RecordAdopts ==
  /\ w.pc = "adopt" /\ rec' \in Records /\ rec.m \in Member
  /\ rec'.m = rec.m /\ rec'.prev = rec.prev /\ rec'.disk = rec.disk
  /\ rec'.own = wl[Home(rec.m)].uid /\ rec'.own # NoUID /\ rec'.retired = rec.retired \cup {rec.own}
  /\ wl' = wl
RecordCleared ==
  /\ rec' = NoRec /\ w'.cand = rec /\ ((Completes /\ w'.pc = "release") \/ (w.pc = "recheck" /\ w'.pc = "cancel"))
  /\ UNCHANGED <<gn, down, pvc, wl>>
RecordWritten ==
  /\ w.pc = "persist" /\ rec = NoRec /\ rec' = w.cand /\ w'.pc = "recheck"
  /\ UNCHANGED <<gn, down, pvc, wl>>
RecordForms == RecordKept \/ RecordRefined \/ RecordAdopts \/ RecordCleared \/ RecordWritten

LEMMA RecordChange ==
  ASSUME Typed, RecordKnown, [Next]_vars
  PROVE  RecordForms
<1>0. /\ rec \in Records /\ w \in Workers /\ 0 \in 0..MaxPod /\ w.gen \in Nat /\ w.nonce \in Nat
      /\ rec.m # 0 => rec.m \in Member
  BY Constants DEF Typed, Records, Workers
<1>m. rec # NoRec => rec.m \in Member
  BY <1>0 DEF RecordKnown
<1>1. ASSUME ClearRecoveryPod \/ FenceAlreadyLifted \/ ClearWorkloadFence \/ SelectRecoveryPod PROVE RecordForms
  <2>1. rec.m \in Member
    <3>1. CASE ClearRecoveryPod
      BY <3>1, <1>m DEF ClearRecoveryPod, Redriving, NoRec, NoUID
    <3>2. CASE ClearWorkloadFence
      BY <3>2 DEF ClearWorkloadFence, RecordKnown
    <3>3. CASE FenceAlreadyLifted \/ SelectRecoveryPod
      BY <3>3, <1>m DEF FenceAlreadyLifted, SelectRecoveryPod, Unfencing, Rolling, Forward, RecordKnown
    <3> QED
      BY <1>1, <3>1, <3>2, <3>3
  <2>2. \/ rec' = rec
        \/ rec' = [rec EXCEPT !.rpod = 0]
        \/ rec' = [rec EXCEPT !.fenced = FALSE]
        \/ \E p \in pods : rec' = [rec EXCEPT !.rpod = p.uid]
    BY <1>1 DEF ClearRecoveryPod, FenceAlreadyLifted, ClearWorkloadFence, SelectRecoveryPod, NoUID,
       StaleReplacement, CurrentPod, Of
  <2>3. \A p \in pods : p.uid \in 0..MaxPod
    BY Constants DEF Typed, Pods
  <2>4. ASSUME NEW u \in 0..MaxPod, rec' = [rec EXCEPT !.rpod = u] PROVE RecordRefined
    BY <1>0, <2>1, <2>4 DEF Records, RecordRefined
  <2>5. ASSUME rec' = [rec EXCEPT !.fenced = FALSE] PROVE RecordRefined
    BY <1>0, <2>1, <2>5 DEF Records, RecordRefined
  <2> QED
    BY <1>0, <2>2, <2>3, <2>4, <2>5 DEF RecordForms, RecordKept
<1>2. ASSUME AdvanceRecord PROVE RecordForms
  <2>1. rec.m \in Member
    BY <1>2 DEF AdvanceRecord, RecordKnown
  <2>2. wl[Home(rec.m)].rev \in Revs /\ gn[rec.m].gen \in Nat
    BY <2>1, HomeIn DEF Typed, Workloads, GarageNodes
  <2> DEFINE q == IF w.nonce # 0 /\ w.nonce # rec.req THEN w.nonce ELSE rec.req
  <2>3. q \in Nat
    BY <1>0 DEF Records
  <2>4. rec' = rec \/ rec' = [rec EXCEPT !.rev = wl[Home(rec.m)].rev, !.c = w.gen, !.n = gn[rec.m].gen, !.rpod = 0, !.req = q]
    BY <1>2 DEF AdvanceRecord, Advanced, NoUID
  <2> HIDE DEF q
  <2>5. rec' = rec \/ RecordRefined
    BY <1>0, <2>1, <2>2, <2>3, <2>4 DEF Records, RecordRefined
  <2> QED
    BY <2>5 DEF RecordForms, RecordKept
<1>3. ASSUME AdoptWorkload PROVE RecordForms
  <2>1. rec.m \in Member /\ w.pc = "adopt"
    BY <1>3 DEF AdoptWorkload, RecordKnown
  <2> DEFINE wk == wl[Home(rec.m)]
             g == gn[rec.m].gen
             r == rec.retired \cup {rec.own}
  <2>2. wk \in Workloads /\ wk.rev \in Revs /\ wk.uid \in 0..MaxUID /\ g \in Nat /\ r \in SUBSET (0..MaxUID)
    BY <1>0, <2>1, HomeIn DEF Typed, Workloads, GarageNodes, Records
  <2>3. \/ rec' = rec
        \/ /\ rec' = [rec EXCEPT !.own = wk.uid, !.retired = r, !.fenced = TRUE,
                                  !.rev = wk.rev, !.c = w.gen, !.n = g, !.req = w.nonce, !.rpod = 0]
           /\ wk.uid # NoUID
    <3>1. rec' = rec \/ (Adoptable /\ rec' = [rec EXCEPT !.own = wl[Home(rec.m)].uid, !.retired = @ \cup {rec.own},
             !.fenced = TRUE, !.rev = wl[Home(rec.m)].rev, !.c = w.gen, !.n = gn[rec.m].gen, !.req = w.nonce, !.rpod = NoUID])
      BY <1>3, Zenon DEF AdoptWorkload
    <3> QED
      BY <3>1 DEF Adoptable, NoUID
  <2>4. wk = wl[Home(rec.m)] /\ r = rec.retired \cup {rec.own}
    OBVIOUS
  <2> HIDE DEF wk, g, r
  <2>6. wl' = wl
    BY <1>3 DEF AdoptWorkload
  <2>5. ASSUME rec' # rec PROVE RecordAdopts
    <3>1. rec' = [rec EXCEPT !.own = wk.uid, !.retired = r, !.fenced = TRUE,
                             !.rev = wk.rev, !.c = w.gen, !.n = g, !.req = w.nonce, !.rpod = 0]
      BY <2>3, <2>5
    <3>2. rec' \in Records
      BY <1>0, <2>2, <3>1 DEF Records
    <3>3. rec'.m = rec.m /\ rec'.prev = rec.prev /\ rec'.disk = rec.disk /\ rec'.own = wk.uid /\ rec'.retired = r
      BY <1>0, <3>1 DEF Records
    <3> QED
      BY <2>1, <2>3, <2>4, <2>5, <2>6, <3>2, <3>3 DEF RecordAdopts
  <2> QED
    BY <2>5 DEF RecordForms, RecordKept
<1>4. ASSUME CompleteHandoff \/ CancelHandoff PROVE RecordForms
  <2>1. PICK pc \in {"release", "cancel"} : /\ ClearRecord(pc)
                                            /\ (Completes /\ pc = "release") \/ (w.pc = "recheck" /\ pc = "cancel")
    BY <1>4 DEF CompleteHandoff, CancelHandoff
  <2>2. rec' = rec \/ (rec' = NoRec /\ w' = [w EXCEPT !.pc = pc, !.cand = rec])
    BY <2>1 DEF ClearRecord
  <2>3. UNCHANGED <<gn, down, pvc, wl>>
    BY <1>4 DEF CompleteHandoff, CancelHandoff, kube
  <2> QED
    BY <1>0, <2>1, <2>2, <2>3 DEF RecordForms, RecordKept, RecordCleared, Workers
<1>5. ASSUME PersistHandoff PROVE RecordForms
  BY <1>5, <1>0 DEF PersistHandoff, kube, Goto, RecordForms, RecordKept, RecordWritten, Workers
<1>6. ASSUME Worker, ~ClearRecoveryPod, ~FenceAlreadyLifted, ~ClearWorkloadFence, ~SelectRecoveryPod, ~AdvanceRecord,
             ~AdoptWorkload, ~CompleteHandoff, ~CancelHandoff, ~PersistHandoff
      PROVE  RecordKept
  <2>1. CASE StartPass \/ RedriveRecoveryPod \/ ActorLost \/ FenceNodes \/ AwaitOldPods
             \/ CreateFencedWorkload \/ RemoveRetiredPod
    BY <2>1 DEF StartPass, RedriveRecoveryPod, ActorLost, FenceNodes, AwaitOldPods,
       CreateFencedWorkload, RemoveRetiredPod, RecordKept
  <2>2. CASE RetokenNodes \/ CorrectFenced \/ EnableWorkload
             \/ SnapshotFails \/ NothingToCorrect \/ PublishCorrection
    BY <2>2 DEF RetokenNodes, CorrectFenced, EnableWorkload, SnapshotFails, NothingToCorrect, PublishCorrection, RecordKept
  <2>3. CASE RecoverIdle \/ ReleaseActorGate \/ RecoverWaits \/ RedriveOldPod \/ ReleaseHandoff \/ PublishPool
    BY <2>3 DEF RecoverIdle, ReleaseActorGate, RecoverWaits, RedriveOldPod, ReleaseHandoff, PublishPool, RecordKept
  <2>4. CASE ScanWaits \/ SelectCandidate \/ Converged \/ BeginHandoff \/ DeleteCandidatePod
    BY <2>4 DEF ScanWaits, SelectCandidate, Converged, BeginHandoff, DeleteCandidatePod, RecordKept
  <2> QED
    BY <1>6, <2>1, <2>2, <2>3, <2>4 DEF Worker
<1>7. ASSUME NEW m \in Member,
             \/ ReconcileStatefulSet(m) \/ UpdateStatusFromGarage(m) \/ FinalizeNode(m)
             \/ CreatePod(m) \/ LateCreate(m) \/ PodStep(m) \/ ClaimGone(m)
             \/ EditNode(m) \/ DeleteNode(m) \/ DeleteClaim(m)
      PROVE  RecordKept
  BY <1>7 DEF ReconcileStatefulSet, UpdateStatusFromGarage, FinalizeNode, CreatePod, LateCreate, PodStep,
     ClaimGone, EditNode, DeleteNode, DeleteClaim, RecordKept
<1>8. ASSUME \/ LateCreateLost \/ (\E h \in DOMAIN wl : DeleteWorkload(h)) \/ (\E p \in pods : LosePod(p))
             \/ EditCluster \/ EditSecret \/ RequestRecovery \/ Crash \/ UNCHANGED vars
      PROVE  RecordKept
  BY <1>8 DEF LateCreateLost, DeleteWorkload, LosePod, EditCluster, EditSecret, RequestRecovery, Crash, vars, RecordKept
<1> QED
  BY <1>1, <1>2, <1>3, <1>4, <1>5, <1>6, <1>7, <1>8 DEF Next, RecordForms

\* The record of a candidate names a Ready Pod.
LEMMA NewCandidate ==
  ASSUME Typed, SelectCandidate, w' # Idle
  PROVE  /\ w' = [w EXCEPT !.pc = "protect", !.cand = w'.cand] /\ w'.cand \in Records
         /\ w'.cand.m \in Member /\ w'.cand.retired = {}
         /\ \E p \in pods : p.st = "ready" /\ w'.cand.prev = p.uid
<1> DEFINE S == IF Outdated \cap Pool # {} THEN Outdated \cap Pool ELSE Outdated
<1>1. S \subseteq Member /\ S \subseteq Scanned /\ S # {}
  BY DEF SelectCandidate, Outdated, Scanned
<1>2. Candidate \in S
  <2>1. S \in SUBSET Nat
    BY <1>1, Constants
  <2>2. Candidate = Min(S)
    BY DEF Candidate
  <2> HIDE DEF S
  <2> QED
    BY <1>1, <2>1, <2>2, MinIn
<1> DEFINE m == Candidate
           p == CHOOSE q \in pods : ObservedReady(m, q)
<1>3. m \in Member /\ Settled(m)
  BY <1>1, <1>2 DEF SelectCandidate
<1>4. p \in pods /\ ObservedReady(m, p)
  <2>1. \E q \in pods : ObservedReady(m, q)
    BY <1>3 DEF Settled
  <2> QED
    BY <2>1, Zenon
<1> DEFINE disk == IF m \in Claimed THEN pvc[m].uid ELSE 0
           safe == m \in Claimed /\ ~scene.wipe
<1>5. w' = [w EXCEPT !.pc = "protect", !.cand = NewRecord(m)]
  BY DEF SelectCandidate, Stop
<1>6. NewRecord(m) = [NoRec EXCEPT !.m = m, !.prev = p.uid, !.own = wl[Home(m)].uid, !.rev = wl[Home(m)].rev, !.c = w.gen,
                      !.n = gn[m].gen, !.req = w.nonce, !.disk = disk, !.safe = safe]
  BY DEF NewRecord
<1>7. /\ wl[Home(m)].uid \in 0..MaxUID /\ wl[Home(m)].rev \in Revs /\ gn[m].gen \in Nat /\ disk \in 0..2
      /\ safe \in BOOLEAN
  BY <1>3, HomeIn DEF Typed, Workloads, GarageNodes, Claims
<1>8. p.uid \in 0..MaxPod /\ p.st = "ready"
  <2>1. p \in Pods /\ p.st = "ready"
    BY <1>4 DEF Typed, ObservedReady
  <2> HIDE DEF p
  <2> QED
    BY <2>1, Constants DEF Pods
<1>9. w \in Workers
  BY DEF Typed
<1> HIDE DEF m, p, disk, safe
<1>10. NewRecord(m) \in Records /\ NewRecord(m).m = m /\ NewRecord(m).retired = {} /\ NewRecord(m).prev = p.uid
  <2> DEFINE own == wl[Home(m)].uid
             rev == wl[Home(m)].rev
             n == gn[m].gen
             prev == p.uid
             r == [NoRec EXCEPT !.m = m, !.prev = prev, !.own = own, !.rev = rev, !.c = w.gen, !.n = n, !.req = w.nonce,
                                !.disk = disk, !.safe = safe]
  <2>1. w.gen \in Nat /\ w.nonce \in Nat
    BY <1>9 DEF Workers
  <2>2. NoRec \in Records /\ NoRec.retired = {}
    BY Constants DEF NoRec
  <2>3. own \in 0..MaxUID /\ rev \in Revs /\ n \in Nat /\ prev \in 0..MaxPod
    BY <1>7, <1>8
  <2>4. NewRecord(m) = r
    BY <1>6
  <2> HIDE DEF own, rev, n, prev, S
  <2>5. r \in Records /\ r.m = m /\ r.retired = {} /\ r.prev = prev
    BY <1>3, <1>7, <2>1, <2>2, <2>3 DEF Records
  <2> HIDE DEF r
  <2> QED
    BY <2>4, <2>5 DEF prev
<1>11. w'.cand = NewRecord(m)
  BY <1>5, <1>9 DEF Workers
<1> QED
  BY <1>3, <1>4, <1>5, <1>8, <1>10, <1>11

\* How the workloads and the configuration change.
WorkloadsKept == wl' = wl /\ (config' = config \/ (Converged /\ config' = config \cap Referenced))
WorkloadPublished == \E m \in Member, g \in Nat, fence \in BOOLEAN : Publish(m, g, fence)
WorkloadEnabled ==
  rec.m \in Member /\ wl[Home(rec.m)].fence /\ wl' = [wl EXCEPT ![Home(rec.m)].fence = FALSE] /\ config' = config
WorkloadGone == (\E h \in Member \cup {0} : wl' = [wl EXCEPT ![h] = NoWorkload]) /\ config' = config
WorkloadForms == WorkloadsKept \/ WorkloadPublished \/ WorkloadEnabled \/ WorkloadGone

LEMMA WorkloadChange ==
  ASSUME Typed, RecordKnown, [Next]_vars
  PROVE  WorkloadForms
<1>0. w.gen \in Nat /\ in.gen \in Nat /\ DOMAIN wl = Member \cup {0} /\ (rec.m # 0 => rec.m \in Member)
  BY DEF Typed, Workers, Records
<1>m. Forward => rec.m \in Member
  BY <1>0 DEF Forward, RecordKnown
<1>1. ASSUME CreateFencedWorkload \/ CorrectFenced \/ PublishCorrection PROVE WorkloadForms
  <2>1. rec.m \in Member
    BY <1>1, <1>m DEF CreateFencedWorkload, CorrectFenced, PublishCorrection, ReadyToReplace, Enableable, Unfencing, Rolling
  <2>2. Publish(rec.m, w.gen, TRUE) \/ Publish(rec.m, w.gen, FALSE) \/ UNCHANGED <<wl, config>>
    BY <1>1 DEF CreateFencedWorkload, CorrectFenced, PublishCorrection
  <2> QED
    BY <1>0, <2>1, <2>2 DEF WorkloadForms, WorkloadsKept, WorkloadPublished
<1>2. ASSUME PublishPool PROVE WorkloadForms
  <2>1. CASE Pool = {}
    BY <1>2, <2>1 DEF PublishPool, WorkloadForms, WorkloadsKept
  <2>2. CASE Pool # {}
    <3>1. Min(Pool) \in Member
      BY <2>2, MinIn, HomeIn, Constants
    <3>2. UNCHANGED <<wl, config>> \/ Publish(Min(Pool), w.gen, FALSE)
      BY <1>2, <2>2 DEF PublishPool
    <3> QED
      BY <1>0, <3>1, <3>2 DEF WorkloadForms, WorkloadsKept, WorkloadPublished
  <2> QED
    BY <2>1, <2>2
<1>3. ASSUME EnableWorkload PROVE WorkloadForms
  <2>1. rec.m \in Member
    BY <1>3, <1>m DEF EnableWorkload, Enableable, Unfencing
  <2>2. config' = config /\ (wl' = wl \/ wl' = [wl EXCEPT ![Home(rec.m)].fence = FALSE])
    BY <1>3, Zenon DEF EnableWorkload
  <2>3. wl[Home(rec.m)].fence
    BY <1>3 DEF EnableWorkload, Enableable, Fenced
  <2> QED
    BY <2>1, <2>2, <2>3 DEF WorkloadForms, WorkloadsKept, WorkloadEnabled
<1>4. ASSUME Converged PROVE WorkloadForms
  BY <1>4 DEF Converged, WorkloadForms, WorkloadsKept
<1>5. ASSUME NEW m \in Member, ReconcileStatefulSet(m) PROVE WorkloadForms
  <2>1. m \in Claimed /\ Publish(m, in.gen, wl[m].fence)
    BY <1>5 DEF ReconcileStatefulSet
  <2>2. wl[m].fence \in BOOLEAN
    BY DEF Typed, Workloads
  <2> QED
    BY <1>0, <2>1, <2>2 DEF WorkloadForms, WorkloadPublished
<1>6. ASSUME (\E m \in Member : FinalizeNode(m)) \/ (\E h \in DOMAIN wl : DeleteWorkload(h)) PROVE WorkloadForms
  <2>1. (\E h \in Member \cup {0} : wl' = [wl EXCEPT ![h] = NoWorkload]) /\ config' = config
    BY <1>0, <1>6, Zenon DEF FinalizeNode, DeleteWorkload
  <2> QED
    BY <2>1 DEF WorkloadForms, WorkloadGone
<1>7. ASSUME Worker, ~CreateFencedWorkload, ~CorrectFenced, ~PublishCorrection, ~PublishPool, ~EnableWorkload, ~Converged
      PROVE  wl' = wl /\ config' = config
  <2>1. CASE StartPass \/ RedriveRecoveryPod \/ ClearRecoveryPod \/ ActorLost \/ FenceNodes \/ AwaitOldPods
             \/ AdoptWorkload \/ FenceAlreadyLifted \/ RemoveRetiredPod
    BY <2>1 DEF StartPass, RedriveRecoveryPod, ClearRecoveryPod, ActorLost, FenceNodes, AwaitOldPods,
       AdoptWorkload, FenceAlreadyLifted, RemoveRetiredPod
  <2>2. CASE RetokenNodes \/ ClearWorkloadFence \/ SelectRecoveryPod \/ SnapshotFails \/ NothingToCorrect \/ AdvanceRecord
    BY <2>2 DEF RetokenNodes, ClearWorkloadFence, SelectRecoveryPod, SnapshotFails, NothingToCorrect, AdvanceRecord
  <2>3. CASE RecoverIdle \/ ReleaseActorGate \/ RecoverWaits \/ RedriveOldPod \/ CompleteHandoff \/ ReleaseHandoff
    BY <2>3 DEF RecoverIdle, ReleaseActorGate, RecoverWaits, RedriveOldPod, CompleteHandoff, ReleaseHandoff
  <2>4. CASE ScanWaits \/ SelectCandidate \/ BeginHandoff \/ PersistHandoff \/ CancelHandoff \/ DeleteCandidatePod
    BY <2>4 DEF ScanWaits, SelectCandidate, BeginHandoff, PersistHandoff, CancelHandoff, DeleteCandidatePod
  <2> QED
    BY <1>7, <2>1, <2>2, <2>3, <2>4 DEF Worker
<1>8. ASSUME NEW m \in Member,
             \/ UpdateStatusFromGarage(m) \/ CreatePod(m) \/ LateCreate(m) \/ PodStep(m) \/ ClaimGone(m)
             \/ EditNode(m) \/ DeleteNode(m) \/ DeleteClaim(m)
      PROVE  wl' = wl /\ config' = config
  BY <1>8 DEF UpdateStatusFromGarage, CreatePod, LateCreate, PodStep, ClaimGone, EditNode, DeleteNode, DeleteClaim
<1>9. ASSUME \/ LateCreateLost \/ (\E p \in pods : LosePod(p))
             \/ EditCluster \/ EditSecret \/ RequestRecovery \/ Crash \/ UNCHANGED vars
      PROVE  wl' = wl /\ config' = config
  BY <1>9 DEF LateCreateLost, LosePod, EditCluster, EditSecret, RequestRecovery, Crash, vars
<1> QED
  BY <1>1, <1>2, <1>3, <1>4, <1>5, <1>6, <1>7, <1>8, <1>9 DEF Next, WorkloadForms, WorkloadsKept

-----------------------------------------------------------------------------
(* Types.                                                                  *)

LEMMA PodsTyped ==
  ASSUME Typed, RecordKnown, PodForms
  PROVE  pods' \subseteq Pods /\ down' \subseteq Member
<1>0. pods \subseteq Pods /\ down \subseteq Member
  BY DEF Typed
<1>1. ASSUME NEW p \in pods, NEW st \in PodStates PROVE [p EXCEPT !.st = st] \in Pods /\ p.m \in Member
  BY <1>0 DEF Pods
<1>2. ASSUME NEW p \in pods, PodGoes(p) PROVE pods' \subseteq Pods
  BY <1>0, <1>1, <1>2 DEF PodGoes, PodStates
<1>3. CASE PodsKept
  BY <1>0, <1>3 DEF PodsKept
<1>4. CASE PodStopped \/ PodRemoved
  BY <1>0, <1>1, <1>2, <1>4 DEF PodStopped, PodRemoved, PodStates
<1>5. CASE PodRuns \/ PodIsReady
  <2>1. PICK p \in pods, st \in {"run", "ready"} : pods' = (pods \ {p}) \cup {[p EXCEPT !.st = st]} /\ down' \subseteq down
    BY <1>5 DEF PodRuns, PodIsReady
  <2>2. [p EXCEPT !.st = st] \in Pods
    BY <1>1 DEF PodStates
  <2> QED
    BY <1>0, <2>1, <2>2
<1>6. CASE PodCreated
  <2>1. PICK m \in Member, u \in UnseenPods, own \in 1..MaxUID, rev \in Revs :
          /\ pods' = pods \cup {[m |-> m, uid |-> u, own |-> own, rev |-> rev, disk |-> pvc[m].uid,
                                  st |-> IF m \in Pool THEN "gated" ELSE "run"]}
          /\ down' = down
    BY <1>6 DEF PodCreated
  <2>2. u \in 1..MaxPod /\ pvc[m].uid \in {1, 2}
    BY DEF UnseenPods, Typed, Claims
  <2>3. [m |-> m, uid |-> u, own |-> own, rev |-> rev, disk |-> pvc[m].uid,
         st |-> IF m \in Pool THEN "gated" ELSE "run"] \in Pods
    BY <2>2 DEF Pods, PodStates
  <2> QED
    BY <1>0, <2>1, <2>3
<1>7. CASE GateOpens
  <2>1. PICK S \in SUBSET pods : pods' = {IF p \in S THEN [p EXCEPT !.st = "open"] ELSE p : p \in pods} /\ down' = down
    BY <1>7 DEF GateOpens
  <2>2. \A p \in pods : [p EXCEPT !.st = "open"] \in Pods
    BY <1>1 DEF PodStates
  <2> QED
    BY <1>0, <2>1, <2>2
<1> QED
  BY <1>3, <1>4, <1>5, <1>6, <1>7 DEF PodForms

LEMMA WorkloadsTyped ==
  ASSUME Typed, WorkloadForms
  PROVE  wl' \in [Member \cup {0} -> Workloads]
<1>0. wl \in [Member \cup {0} -> Workloads]
  BY DEF Typed
<1>1. CASE WorkloadPublished
  BY <1>1, PublishForm DEF WorkloadPublished
<1>2. CASE WorkloadEnabled
  <2>1. Home(rec.m) \in Member \cup {0}
    BY <1>2, HomeIn DEF WorkloadEnabled
  <2>2. [wl[Home(rec.m)] EXCEPT !.fence = FALSE] \in Workloads
    BY <1>0, <2>1 DEF Workloads
  <2> QED
    BY <1>0, <1>2, <2>1, <2>2 DEF WorkloadEnabled
<1>3. CASE WorkloadGone
  BY <1>0, <1>3, Constants DEF WorkloadGone
<1> QED
  BY <1>0, <1>1, <1>2, <1>3 DEF WorkloadForms, WorkloadsKept

\* The reconcile's own state and the marker.
LEMMA WorkerTyped ==
  ASSUME Typed, RecordKnown, Worker
  PROVE  w' \in Workers /\ marker' \in {"none", "provisional", "confirmed"}
<1>0. /\ w \in Workers /\ rec \in Records /\ marker \in {"none", "provisional", "confirmed"}
      /\ in.gen \in Nat /\ in.nonce \in Nat
      /\ NoRec \in Records /\ Idle \in Workers
  BY Constants DEF Typed
<1> DEFINE Moves == Stop \/ w' = w \/ \E pc \in Steps : Goto(pc) \/ Adopt(pc)
<1>m. Moves => w' \in Workers
  BY <1>0, WorkerMoves
<1>1. CASE StartPass
  BY <1>0, <1>1 DEF StartPass, Workers, Steps
<1>2. CASE CompleteHandoff \/ CancelHandoff
  <2>1. PICK pc \in {"release", "cancel"} : ClearRecord(pc)
    BY <1>2 DEF CompleteHandoff, CancelHandoff
  <2>2. marker' = marker /\ (w' = [w EXCEPT !.pc = pc, !.cand = rec] \/ Stop)
    BY <1>2, <2>1 DEF CompleteHandoff, CancelHandoff, ClearRecord
  <2> QED
    BY <1>0, <2>2 DEF Stop, Workers, Steps
<1>3. CASE ReleaseHandoff
  <2>1. Stop \/ w' = [w EXCEPT !.pc = "publish", !.cand = NoRec]
    BY <1>3 DEF ReleaseHandoff
  <2> QED
    BY <1>0, <1>3, <2>1 DEF ReleaseHandoff, Stop, Workers, Steps
<1>4. CASE SelectCandidate
  <2>1. CASE w' = Idle
    BY <1>0, <1>4, <2>1 DEF SelectCandidate
  <2>2. CASE w' # Idle
    <3>1. w' = [w EXCEPT !.pc = "protect", !.cand = w'.cand] /\ w'.cand \in Records /\ marker' = marker
      BY <1>4, <2>2, NewCandidate DEF SelectCandidate
    <3> DEFINE c == w'.cand
    <3>2. c \in Records /\ w' = [w EXCEPT !.pc = "protect", !.cand = c]
      BY <3>1
    <3> HIDE DEF c
    <3> QED
      BY <1>0, <3>1, <3>2 DEF Workers, Steps
  <2> QED
    BY <2>1, <2>2
<1>5. CASE RedriveRecoveryPod \/ ClearRecoveryPod \/ ActorLost \/ FenceNodes \/ AwaitOldPods
           \/ CreateFencedWorkload \/ AdoptWorkload \/ FenceAlreadyLifted \/ RemoveRetiredPod
  <2>1. Moves /\ marker' = marker
    BY <1>5 DEF RedriveRecoveryPod, ClearRecoveryPod, ActorLost, FenceNodes, AwaitOldPods,
       CreateFencedWorkload, AdoptWorkload, FenceAlreadyLifted, RemoveRetiredPod, Steps
  <2> HIDE DEF Moves
  <2> QED
    BY <1>0, <1>m, <2>1
<1>6. CASE RetokenNodes \/ CorrectFenced \/ EnableWorkload \/ ClearWorkloadFence \/ SelectRecoveryPod
           \/ SnapshotFails \/ NothingToCorrect \/ PublishCorrection \/ AdvanceRecord
  <2>1. Moves /\ marker' = marker
    BY <1>6 DEF RetokenNodes, CorrectFenced, EnableWorkload, ClearWorkloadFence, SelectRecoveryPod,
       SnapshotFails, NothingToCorrect, PublishCorrection, AdvanceRecord, Steps
  <2> HIDE DEF Moves
  <2> QED
    BY <1>0, <1>m, <2>1
<1>7. CASE RecoverIdle \/ ReleaseActorGate \/ RecoverWaits \/ RedriveOldPod \/ PublishPool \/ ScanWaits
           \/ Converged \/ BeginHandoff \/ PersistHandoff \/ DeleteCandidatePod
  <2>1. Moves
    BY <1>7 DEF RecoverIdle, ReleaseActorGate, RecoverWaits, RedriveOldPod, PublishPool, ScanWaits,
       Converged, BeginHandoff, PersistHandoff, DeleteCandidatePod, Steps
  <2>2. marker' \in {marker, "none", "provisional", "confirmed"}
    BY <1>7 DEF RecoverIdle, ReleaseActorGate, RecoverWaits, RedriveOldPod, PublishPool, ScanWaits,
       Converged, BeginHandoff, PersistHandoff, DeleteCandidatePod
  <2> HIDE DEF Moves
  <2> QED
    BY <1>0, <1>m, <2>1, <2>2
<1> QED
  BY <1>1, <1>2, <1>3, <1>4, <1>5, <1>6, <1>7 DEF Worker

\* Labels and claims.
LEMMA WorkerDiskTyped ==
  ASSUME Typed, RecordKnown, Worker, wl' \in [Member \cup {0} -> Workloads]
  PROVE  label' \in [Member -> 0..MaxUID] /\ pvc' \in [Member -> Claims] /\ UNCHANGED <<in, gn, seen, ghost>>
<1>0. label \in [Member -> 0..MaxUID] /\ pvc \in [Member -> Claims] /\ 0 \in 0..MaxUID /\ rec.own \in 0..MaxUID
      /\ wl'[0].uid \in 0..MaxUID
  BY Constants DEF Typed, Records, Workloads
<1>1. CASE FenceNodes \/ RetokenNodes \/ PublishPool
  <2>1. label' \in [Member -> 0..MaxUID]
    BY <1>0, <1>1 DEF FenceNodes, RetokenNodes, PublishPool, NoUID
  <2>2. pvc' = pvc /\ UNCHANGED <<in, gn, seen, ghost>>
    BY <1>1 DEF FenceNodes, RetokenNodes, PublishPool, kube, user
  <2> QED
    BY <1>0, <2>1, <2>2
<1>2. CASE RecoverIdle \/ Converged \/ ReleaseHandoff \/ BeginHandoff \/ PersistHandoff
  <2>1. \A m \in Member : [pvc[m] EXCEPT !.prot = FALSE] \in Claims /\ [pvc[m] EXCEPT !.prot = TRUE] \in Claims
    BY <1>0 DEF Claims
  <2>2. ReleaseAllClaims \/ ReleaseClaims(w.cand) \/ ProtectClaims(w.cand) \/ pvc' = pvc
    BY <1>2 DEF RecoverIdle, Converged, ReleaseHandoff, BeginHandoff, PersistHandoff
  <2>3. pvc' \in [Member -> Claims]
    BY <1>0, <2>1, <2>2 DEF ReleaseAllClaims, ReleaseClaims, ProtectClaims
  <2>4. label' = label /\ UNCHANGED <<in, gn, seen, ghost>>
    BY <1>2 DEF RecoverIdle, Converged, ReleaseHandoff, BeginHandoff, PersistHandoff, kube, user
  <2> QED
    BY <1>0, <2>3, <2>4
<1>3. CASE StartPass \/ RedriveRecoveryPod \/ ClearRecoveryPod \/ ActorLost \/ AwaitOldPods
             \/ CreateFencedWorkload \/ AdoptWorkload \/ FenceAlreadyLifted \/ RemoveRetiredPod
  BY <1>0, <1>3 DEF StartPass, RedriveRecoveryPod, ClearRecoveryPod, ActorLost, AwaitOldPods,
     CreateFencedWorkload, AdoptWorkload, FenceAlreadyLifted, RemoveRetiredPod, kube, user
<1>4. CASE CorrectFenced \/ EnableWorkload \/ ClearWorkloadFence \/ SelectRecoveryPod
             \/ SnapshotFails \/ NothingToCorrect \/ PublishCorrection \/ AdvanceRecord
  BY <1>0, <1>4 DEF CorrectFenced, EnableWorkload, ClearWorkloadFence, SelectRecoveryPod,
     SnapshotFails, NothingToCorrect, PublishCorrection, AdvanceRecord, kube, user
<1>5. CASE ReleaseActorGate \/ RecoverWaits \/ RedriveOldPod \/ CompleteHandoff \/ ScanWaits \/ SelectCandidate
             \/ CancelHandoff \/ DeleteCandidatePod
  BY <1>0, <1>5 DEF ReleaseActorGate, RecoverWaits, RedriveOldPod, CompleteHandoff, ScanWaits, SelectCandidate,
     CancelHandoff, DeleteCandidatePod, kube, user
<1> QED
  BY <1>1, <1>2, <1>3, <1>4, <1>5 DEF Worker

\* Controllers, Kubernetes, users and the environment: all but a reconcile.
Environment ==
  \/ \E m \in Member : \/ ReconcileStatefulSet(m) \/ UpdateStatusFromGarage(m) \/ FinalizeNode(m)
                       \/ CreatePod(m) \/ LateCreate(m) \/ PodStep(m) \/ ClaimGone(m)
                       \/ EditNode(m) \/ DeleteNode(m) \/ DeleteClaim(m)
  \/ LateCreateLost
  \/ \E h \in Member \cup {0} : DeleteWorkload(h)
  \/ \E p \in pods : LosePod(p)
  \/ EditCluster \/ EditSecret \/ RequestRecovery \/ Crash

LEMMA NextSplits ==
  ASSUME Typed
  PROVE  Next <=> Worker \/ Environment
<1>1. DOMAIN wl = Member \cup {0}
  BY DEF Typed
<1> QED
  BY <1>1 DEF Next, Environment

\* The deletion of a StatefulSet may take its claim along.
LEMMA DeleteWorkloadForm ==
  ASSUME NEW h \in Member \cup {0}, DeleteWorkload(h), Typed
  PROVE  /\ wl[h].uid # NoUID
         /\ ghost' = ghost \cup {[h |-> h, uid |-> wl[h].uid, rev |-> wl[h].rev]}
         /\ wl' = [wl EXCEPT ![h] = NoWorkload]
         /\ pvc' \in [Member -> Claims]
         /\ \A m \in Member : pvc'[m].uid = pvc[m].uid /\ pvc'[m].prot = pvc[m].prot
         /\ UNCHANGED <<in, gn, seen, pods, label, rec, ready, marker, w, config, down>>
<1>1. pvc \in [Member -> Claims]
  BY DEF Typed
<1>2. pvc' = pvc \/ (h # 0 /\ pvc' = [pvc EXCEPT ![h].del = TRUE])
  BY Zenon DEF DeleteWorkload
<1>3. /\ pvc' \in [Member -> Claims]
      /\ \A m \in Member : pvc'[m].uid = pvc[m].uid /\ pvc'[m].prot = pvc[m].prot
  <2>1. CASE pvc' = pvc
    BY <1>1, <2>1
  <2>2. CASE h \in Member /\ pvc' = [pvc EXCEPT ![h].del = TRUE]
    <3> DEFINE c == [pvc[h] EXCEPT !.del = TRUE]
    <3>1. c \in Claims /\ c.uid = pvc[h].uid /\ c.prot = pvc[h].prot
      BY <1>1, <2>2 DEF Claims
    <3>2. pvc' = [pvc EXCEPT ![h] = c]
      BY <2>2
    <3> HIDE DEF c
    <3> QED
      BY <1>1, <2>2, <3>1, <3>2
  <2> QED
    BY <1>2, <2>1, <2>2
<1> QED
  BY <1>3, Zenon DEF DeleteWorkload

LEMMA EnvironmentTyped ==
  ASSUME Typed, Environment
  PROVE  /\ in' \in [gen : Nat, nonce : Nat, ext : Nat]
         /\ gn' \in [Member -> GarageNodes]
         /\ seen' \in [Member -> Observations]
         /\ ghost' \subseteq Creates
         /\ label' = label
         /\ pvc' \in [Member -> Claims]
         /\ marker' \in {"none", "provisional", "confirmed"}
         /\ w' \in {w, Idle}
<1> DEFINE Goal ==
         /\ in' \in [gen : Nat, nonce : Nat, ext : Nat]
         /\ gn' \in [Member -> GarageNodes]
         /\ seen' \in [Member -> Observations]
         /\ ghost' \subseteq Creates
         /\ label' = label
         /\ pvc' \in [Member -> Claims]
         /\ marker' \in {"none", "provisional", "confirmed"}
         /\ w' \in {w, Idle}
<1>0. /\ in \in [gen : Nat, nonce : Nat, ext : Nat] /\ gn \in [Member -> GarageNodes] /\ seen \in [Member -> Observations]
      /\ ghost \subseteq Creates /\ pvc \in [Member -> Claims] /\ marker \in {"none", "provisional", "confirmed"}
  BY DEF Typed
<1>1. ASSUME NEW m \in Member, ReconcileStatefulSet(m) \/ CreatePod(m) \/ LateCreate(m) \/ PodStep(m) PROVE Goal
  BY <1>0, <1>1 DEF ReconcileStatefulSet, CreatePod, LateCreate, PodStep, kube, user
<1>2. ASSUME NEW m \in Member, UpdateStatusFromGarage(m) PROVE Goal
  <2>1. PICK p \in pods : seen' = [seen EXCEPT ![m] = [pod |-> p.uid, gen |-> gn[m].gen]]
    BY <1>2 DEF UpdateStatusFromGarage, Of
  <2>2. p.uid \in 0..MaxPod /\ gn[m].gen \in Nat
    BY Constants DEF Typed, Pods, GarageNodes
  <2>3. seen' \in [Member -> Observations]
    BY <1>0, <2>1, <2>2 DEF Observations
  <2> QED
    BY <1>0, <1>2, <2>3 DEF UpdateStatusFromGarage, user
<1>3. ASSUME NEW m \in Member, FinalizeNode(m) \/ EditNode(m) \/ DeleteNode(m) PROVE Goal
  <2>1. gn' \in [Member -> GarageNodes]
    BY <1>0, <1>3 DEF FinalizeNode, EditNode, DeleteNode, GarageNodes
  <2> QED
    BY <1>0, <1>3, <2>1 DEF FinalizeNode, EditNode, DeleteNode, user
<1>4. ASSUME NEW m \in Member, ClaimGone(m) PROVE Goal
  <2>1. [uid |-> 3 - pvc[m].uid, prot |-> FALSE, del |-> FALSE] \in Claims
    <3>1. pvc[m].uid \in {1, 2}
      BY <1>0 DEF Claims
    <3> QED
      BY <3>1 DEF Claims
  <2>2. pvc' = [pvc EXCEPT ![m] = [uid |-> 3 - pvc[m].uid, prot |-> FALSE, del |-> FALSE]]
    BY <1>4 DEF ClaimGone
  <2>3. pvc' \in [Member -> Claims]
    BY <1>0, <2>1, <2>2
  <2> QED
    BY <1>0, <1>4, <2>3 DEF ClaimGone, kube, user
<1>5. ASSUME NEW m \in Member, DeleteClaim(m) PROVE Goal
  <2>1. pvc' \in [Member -> Claims]
    BY <1>0, <1>5 DEF DeleteClaim, Claims
  <2> QED
    BY <1>0, <1>5, <2>1 DEF DeleteClaim, kube
<1>6. ASSUME LateCreateLost PROVE Goal
  BY <1>0, <1>6 DEF LateCreateLost, user
<1>7. ASSUME NEW h \in Member \cup {0}, DeleteWorkload(h) PROVE Goal
  <2>1. [h |-> h, uid |-> wl[h].uid, rev |-> wl[h].rev] \in Creates
    <3>1. wl[h].uid \in 1..MaxUID /\ wl[h].rev \in Revs
      BY <1>7, DeleteWorkloadForm, Constants DEF Typed, Workloads, NoUID
    <3> QED
      BY <3>1 DEF Creates
  <2>2. ghost' \subseteq Creates
    BY <1>0, <1>7, <2>1, DeleteWorkloadForm
  <2> QED
    BY <1>0, <1>7, <2>2, DeleteWorkloadForm
<1>8. ASSUME (\E p \in pods : LosePod(p)) \/ Crash PROVE Goal
  BY <1>0, <1>8 DEF LosePod, Crash, Stop, kube
<1>9. ASSUME EditCluster \/ EditSecret \/ RequestRecovery PROVE Goal
  <2>1. in' \in [gen : Nat, nonce : Nat, ext : Nat]
    BY <1>0, <1>9 DEF EditCluster, EditSecret, RequestRecovery
  <2> QED
    BY <1>0, <1>9, <2>1 DEF EditCluster, EditSecret, RequestRecovery, kube
<1> HIDE DEF Goal
<1>10. Goal
  BY <1>1, <1>2, <1>3, <1>4, <1>5, <1>6, <1>7, <1>8, <1>9 DEF Environment
<1> QED
  BY <1>10 DEF Goal

\* Every step keeps the types.
LEMMA NextTyped ==
  ASSUME Typed, RecordKnown, PodsAreOne, OldPodIsOpen, [Next]_vars
  PROVE  Typed'
<1>1. scene' \in Scenes
  BY SceneIsFixed DEF Typed
<1>2. pods' \subseteq Pods /\ down' \subseteq Member
  BY PodChange, PodsTyped
<1>3. wl' \in [Member \cup {0} -> Workloads]
  BY WorkloadChange, WorkloadsTyped
<1>4. rec' \in Records
  <2>1. rec \in Records /\ NoRec \in Records /\ w.cand \in Records
    BY Constants DEF Typed, Workers
  <2> QED
    BY <2>1, RecordChange DEF RecordForms, RecordKept, RecordRefined, RecordAdopts, RecordCleared, RecordWritten
<1>5. CASE Worker
  BY <1>1, <1>2, <1>3, <1>4, <1>5, WorkerTyped, WorkerDiskTyped DEF Typed
<1>6. CASE Environment
  <2>1. w' \in Workers /\ label' \in [Member -> 0..MaxUID]
    BY <1>6, EnvironmentTyped, Constants DEF Typed
  <2> QED
    BY <1>1, <1>2, <1>3, <1>4, <1>6, <2>1, EnvironmentTyped DEF Typed
<1>7. CASE UNCHANGED vars
  BY <1>7 DEF vars, Typed
<1> QED
  BY <1>5, <1>6, <1>7, NextSplits

-----------------------------------------------------------------------------
(* The reconcile and its record.                                           *)

\* Only a reconcile changes the record, the program point or the members that were stopped.
LEMMA EnvironmentKeeps ==
  ASSUME Environment
  PROVE  rec' = rec /\ w' \in {w, Idle}
<1>1. ASSUME NEW m \in Member,
             \/ ReconcileStatefulSet(m) \/ UpdateStatusFromGarage(m) \/ FinalizeNode(m)
             \/ CreatePod(m) \/ LateCreate(m) \/ PodStep(m) \/ ClaimGone(m)
             \/ EditNode(m) \/ DeleteNode(m) \/ DeleteClaim(m)
      PROVE  rec' = rec /\ w' = w
  BY <1>1 DEF ReconcileStatefulSet, UpdateStatusFromGarage, FinalizeNode, CreatePod, LateCreate, PodStep,
     ClaimGone, EditNode, DeleteNode, DeleteClaim
<1>2. ASSUME NEW h \in Member \cup {0}, DeleteWorkload(h) PROVE rec' = rec /\ w' = w
  BY <1>2, Zenon DEF DeleteWorkload
<1>3. ASSUME LateCreateLost \/ (\E p \in pods : LosePod(p)) \/ EditCluster \/ EditSecret \/ RequestRecovery \/ Crash
      PROVE  rec' = rec /\ w' \in {w, Idle}
  BY <1>3 DEF LateCreateLost, LosePod, EditCluster, EditSecret, RequestRecovery, Crash, Stop
<1> QED
  BY <1>1, <1>2, <1>3 DEF Environment

\* The steps of a reconcile, by the program point they lead to.
LEMMA WorkerPoints ==
  ASSUME Typed, RecordKnown, Worker
  PROVE  \/ w' = Idle
         \/ w'.pc = "recover"
         \/ w' = w /\ rec' = rec /\ w.pc = "forward"
         \/ w'.pc \in {"forward", "redrive", "enabled", "advance", "select"} /\ rec.m \in Member
         \/ w'.pc = "adopt" /\ CreateFencedWorkload /\ rec.m \in Member
         \/ w'.pc = "publish" /\ rec = NoRec /\ rec' = rec
         \/ w'.pc = "scan" /\ PublishPool
         \/ SelectCandidate
         \/ w'.pc = "persist" /\ BeginHandoff /\ w'.cand = w.cand
         \/ w'.pc = "recheck" /\ RecordWritten
         \/ RecordCleared
<1> DEFINE Goal ==
         \/ w' = Idle
         \/ w'.pc = "recover"
         \/ w' = w /\ rec' = rec /\ w.pc = "forward"
         \/ w'.pc \in {"forward", "redrive", "enabled", "advance", "select"} /\ rec.m \in Member
         \/ w'.pc = "adopt" /\ CreateFencedWorkload /\ rec.m \in Member
         \/ w'.pc = "publish" /\ rec = NoRec /\ rec' = rec
         \/ w'.pc = "scan" /\ PublishPool
         \/ SelectCandidate
         \/ w'.pc = "persist" /\ BeginHandoff /\ w'.cand = w.cand
         \/ w'.pc = "recheck" /\ RecordWritten
         \/ RecordCleared
<1>0. w \in Workers /\ rec \in Records /\ (rec.m # 0 => rec.m \in Member)
  BY DEF Typed, Records
<1>m. rec # NoRec => rec.m \in Member
  BY <1>0 DEF RecordKnown
<1>p. \A pc \in Steps : Goto(pc) \/ Adopt(pc) => w'.pc = pc /\ w'.cand = w.cand
  BY <1>0 DEF Goto, Adopt, Workers
<1>s. Stop => w' = Idle
  BY DEF Stop
<1>1. CASE StartPass
  BY <1>1, <1>m DEF StartPass
<1>2. CASE CreateFencedWorkload \/ EnableWorkload \/ PublishCorrection \/ SelectRecoveryPod
  <2>1. rec.m \in Member
    BY <1>2, <1>m DEF CreateFencedWorkload, EnableWorkload, PublishCorrection, SelectRecoveryPod, ReadyToReplace, Enableable,
       Unfencing, Rolling, Forward, RecordKnown
  <2>2. \/ Stop
        \/ CreateFencedWorkload /\ Goto("adopt")
        \/ \E pc \in {"redrive", "enabled", "advance"} : Goto(pc) \/ Adopt(pc)
    BY <1>2 DEF CreateFencedWorkload, EnableWorkload, PublishCorrection, SelectRecoveryPod
  <2> QED
    BY <1>p, <1>s, <2>1, <2>2 DEF Steps
<1>3. CASE AdvanceRecord
  <2>1. rec.m \in Member
    BY <1>3 DEF AdvanceRecord, RecordKnown
  <2>2. Stop \/ \E pc \in {"recover", "select"} : Goto(pc)
    BY <1>3 DEF AdvanceRecord
  <2> QED
    BY <1>p, <1>s, <2>1, <2>2 DEF Steps
<1>4. CASE FenceNodes \/ RetokenNodes
  BY <1>4 DEF FenceNodes, RetokenNodes, ReadyToReplace, Unfencing, Forward
<1>5. CASE RecoverIdle \/ ReleaseHandoff
  <2>1. rec = NoRec /\ rec' = rec
    BY <1>5 DEF RecoverIdle, ReleaseHandoff, RecordKnown
  <2>2. Stop \/ w'.pc = "publish"
    BY <1>0, <1>5 DEF RecoverIdle, ReleaseHandoff, Goto, Workers
  <2> QED
    BY <1>s, <2>1, <2>2
<1>6. CASE CompleteHandoff \/ CancelHandoff
  <2>1. PICK pc \in {"release", "cancel"} : /\ ClearRecord(pc)
                                            /\ (Completes /\ pc = "release") \/ (w.pc = "recheck" /\ pc = "cancel")
    BY <1>6 DEF CompleteHandoff, CancelHandoff
  <2>2. Stop \/ (rec' = NoRec /\ w' = [w EXCEPT !.pc = pc, !.cand = rec])
    BY <2>1 DEF ClearRecord
  <2>3. UNCHANGED <<gn, down, pvc, wl>>
    BY <1>6 DEF CompleteHandoff, CancelHandoff, kube
  <2> QED
    BY <1>0, <1>s, <2>1, <2>2, <2>3 DEF RecordCleared, Workers
<1>7. CASE PublishPool
  BY <1>7, <1>p DEF PublishPool, Steps
<1>8. CASE BeginHandoff
  <2>1. Stop \/ Goto("persist")
    BY <1>8 DEF BeginHandoff
  <2> QED
    BY <1>8, <1>p, <1>s, <2>1 DEF Steps
<1>9. CASE PersistHandoff
  <2>1. \/ Stop
        \/ Goto("recheck") /\ w.pc = "persist" /\ rec = NoRec /\ rec' = w.cand /\ UNCHANGED <<gn, down, pvc, wl>>
    BY <1>9 DEF PersistHandoff, kube
  <2> QED
    BY <1>p, <1>s, <2>1 DEF Steps, RecordWritten
<1>10. CASE RedriveRecoveryPod \/ ClearRecoveryPod \/ ActorLost \/ AwaitOldPods
             \/ AdoptWorkload \/ FenceAlreadyLifted \/ RemoveRetiredPod
  <2>1. Stop \/ Goto("recover") \/ Adopt("recover")
    BY <1>10 DEF RedriveRecoveryPod, ClearRecoveryPod, ActorLost, AwaitOldPods, AdoptWorkload, FenceAlreadyLifted, RemoveRetiredPod
  <2> QED
    BY <1>p, <1>s, <2>1 DEF Steps
<1>11. CASE CorrectFenced \/ ClearWorkloadFence \/ SnapshotFails \/ NothingToCorrect \/ ReleaseActorGate
             \/ RecoverWaits \/ RedriveOldPod \/ ScanWaits \/ Converged \/ DeleteCandidatePod
  <2>1. Stop \/ Goto("recover") \/ Adopt("recover")
    BY <1>11 DEF CorrectFenced, ClearWorkloadFence, SnapshotFails, NothingToCorrect, ReleaseActorGate,
       RecoverWaits, RedriveOldPod, ScanWaits, Converged, DeleteCandidatePod
  <2> QED
    BY <1>p, <1>s, <2>1 DEF Steps
<1>12. CASE SelectCandidate
  BY <1>12
<1>13. Goal
  <2> HIDE DEF Goal
  <2> QED
    BY <1>1, <1>2, <1>3, <1>4, <1>5, <1>6, <1>7, <1>8, <1>9, <1>10, <1>11, <1>12 DEF Worker, Goal
<1> QED
  BY <1>13

LEMMA NextRecordKnown ==
  ASSUME Typed, RecordKnown, [Next]_vars
  PROVE  RecordKnown'
<1>0. 0 \notin Member /\ w.cand \in Records /\ NoRec.m = 0 /\ Idle.pc = "idle"
  BY Constants DEF Typed, Workers, NoRec, Idle
<1>1. rec'.m = 0 => rec' = NoRec
  BY <1>0, RecordChange DEF RecordForms, RecordKept, RecordRefined, RecordAdopts, RecordCleared, RecordWritten, RecordKnown
<1>2. CASE Worker
  <2>1. w'.pc \in {"redrive", "adopt", "enabled", "select", "advance", "recheck", "forward"} => rec'.m \in Member
    <3>1. CASE w' = w
      <4>1. rec' = rec \/ RecordRefined \/ RecordAdopts
        BY <3>1, RecordChange DEF RecordForms, RecordKept, RecordCleared, RecordWritten, RecordKnown
      <4> QED
        BY <3>1, <4>1 DEF RecordRefined, RecordAdopts, RecordKnown
    <3>2. CASE w'.pc \in {"forward", "redrive", "adopt", "enabled", "advance", "select"} /\ rec.m \in Member
      <4>1. rec' = rec \/ RecordRefined \/ RecordAdopts
        BY <3>2, RecordChange, <1>0 DEF RecordForms, RecordKept, RecordCleared, RecordWritten, RecordKnown
      <4> QED
        BY <3>2, <4>1 DEF RecordRefined, RecordAdopts
    <3>3. CASE w'.pc = "recheck" /\ RecordWritten
      BY <3>3 DEF RecordWritten, RecordKnown
    <3>4. SelectCandidate => w' = Idle \/ w'.pc = "protect"
      BY DEF SelectCandidate, Stop, Typed, Workers
    <3> QED
      BY <1>0, <1>2, <3>1, <3>2, <3>3, <3>4, WorkerPoints DEF RecordCleared
  <2>2. w'.pc \in {"publish", "scan", "protect", "persist", "release", "cancel"} => rec' = NoRec
    <3>1. PublishPool \/ SelectCandidate \/ BeginHandoff => rec = NoRec /\ rec' = rec
      BY DEF PublishPool, SelectCandidate, BeginHandoff, Scanning, RecordKnown
    <3> QED
      BY <1>0, <1>2, <3>1, WorkerPoints DEF RecordCleared, RecordKnown
  <2>3. w'.pc \in {"protect", "persist"} => w'.cand.m \in Member /\ w'.cand.retired = {}
    <3>1. SelectCandidate => w' = Idle \/ (w'.cand.m \in Member /\ w'.cand.retired = {})
      BY NewCandidate
    <3>2. BeginHandoff => w.pc = "protect"
      BY DEF BeginHandoff
    <3> QED
      BY <1>0, <1>2, <3>1, <3>2, WorkerPoints DEF RecordCleared, RecordKnown
  <2> QED
    BY <1>1, <2>1, <2>2, <2>3 DEF RecordKnown
<1>3. CASE Environment
  BY <1>0, <1>1, <1>3, EnvironmentKeeps DEF RecordKnown
<1>4. CASE UNCHANGED vars
  BY <1>4 DEF vars, RecordKnown
<1> QED
  BY <1>2, <1>3, <1>4, NextSplits

-----------------------------------------------------------------------------
(* Pods.                                                                   *)

\* An open Pod changes its state, or goes.
Retagged(p, st) == pods' = (pods \ {p}) \cup {[p EXCEPT !.st = st]}
LEMMA PodFormsAre ==
  ASSUME PodForms
  PROVE  \/ pods' = pods
         \/ \E p \in pods : pods' = pods \ {p}
         \/ \E p \in pods, st \in PodStates \ {"gated"} : p.st # "gated" /\ Retagged(p, st)
         \/ PodCreated
         \/ GateOpens
<1>1. ASSUME NEW p \in pods, PodGoes(p)
      PROVE  pods' = pods \ {p} \/ (p.st # "gated" /\ Retagged(p, "dying"))
  BY <1>1 DEF PodGoes, Retagged
<1>2. PodRuns => \E p \in pods : p.st # "gated" /\ Retagged(p, "run")
  BY DEF PodRuns, Retagged
<1>3. PodIsReady => \E p \in pods : p.st # "gated" /\ Retagged(p, "ready")
  BY DEF PodIsReady, Retagged
<1>4. {"dying", "run", "ready"} \subseteq PodStates \ {"gated"}
  BY DEF PodStates
<1> QED
  BY <1>1, <1>2, <1>3, <1>4 DEF PodForms, PodsKept, PodStopped, PodRemoved

LEMMA RetaggedKeepsOne ==
  ASSUME Typed, PodsAreOne, scene' = scene, NEW p \in pods, NEW st \in PodStates \ {"gated"}, p.st # "gated", Retagged(p, st)
  PROVE  PodsAreOne'
<1> DEFINE x == [p EXCEPT !.st = st]
<1>1. x.m = p.m /\ x.uid = p.uid /\ x.own = p.own /\ x.st = st /\ st # "gated"
  BY DEF Typed, Pods
<1>2. pods' = (pods \ {p}) \cup {x} /\ Claimed' = Claimed
  BY DEF Retagged, Claimed, Pool
<1> HIDE DEF x
<1> QED
  BY <1>1, <1>2 DEF PodsAreOne

LEMMA CreatedKeepsOne ==
  ASSUME Typed, PodsAreOne, scene' = scene, PodCreated
  PROVE  PodsAreOne'
<1>1. PICK m \in Member, u \in UnseenPods, own \in 1..MaxUID, rev \in Revs :
        /\ pods' = pods \cup {[m |-> m, uid |-> u, own |-> own, rev |-> rev, disk |-> pvc[m].uid,
                                st |-> IF m \in Pool THEN "gated" ELSE "run"]}
        /\ IF m \in Pool THEN \A p \in pods : p.m = m => p.own # own ELSE \A p \in pods : p.m # m
  BY DEF PodCreated
<1> DEFINE x == [m |-> m, uid |-> u, own |-> own, rev |-> rev, disk |-> pvc[m].uid,
                 st |-> IF m \in Pool THEN "gated" ELSE "run"]
<1>2. x.m = m /\ x.uid = u /\ x.own = own /\ (m \in Pool => x.st = "gated") /\ (m \notin Pool => x.st = "run")
  OBVIOUS
<1>3. \A p \in pods : p.uid # u
  BY DEF UnseenPods, PodUIDs
<1>4. pods' = pods \cup {x} /\ Claimed' = Claimed /\ (m \in Claimed <=> m \notin Pool)
  BY <1>1 DEF Claimed, Pool
<1> HIDE DEF x
<1> QED
  BY <1>1, <1>2, <1>3, <1>4 DEF PodsAreOne

LEMMA OpenedKeepsOne ==
  ASSUME Typed, PodsAreOne, scene' = scene, GateOpens
  PROVE  PodsAreOne'
<1>1. PICK S \in SUBSET pods :
        /\ pods' = {IF p \in S THEN [p EXCEPT !.st = "open"] ELSE p : p \in pods}
        /\ \A p \in S : p.m \in Pool /\ p.st = "gated" /\ p.own = wl[0].uid /\ OtherPodsOnNode(p) = {}
  BY DEF GateOpens
<1>2. Claimed' = Claimed /\ (\A m \in Pool : m \notin Claimed)
  BY DEF Claimed, Pool
<1>3. \A p \in S, q \in pods : q.m = p.m /\ q.st # "gated" => q = p
  BY <1>1 DEF OtherPodsOnNode, Of
<1>4. \A x \in pods' : \E p \in pods :
        /\ x = IF p \in S THEN [p EXCEPT !.st = "open"] ELSE p
        /\ x.m = p.m /\ x.uid = p.uid /\ x.own = p.own /\ (p \in S \/ x = p)
  BY <1>1 DEF Typed, Pods
<1>5. ASSUME NEW x \in pods', NEW y \in pods',
             x.uid = y.uid \/ (x.m = y.m /\ (x.own = y.own \/ (x.st # "gated" /\ y.st # "gated") \/ x.m \in Claimed))
      PROVE  x = y
  <2>1. PICK p \in pods :
          /\ x = IF p \in S THEN [p EXCEPT !.st = "open"] ELSE p
          /\ x.m = p.m /\ x.uid = p.uid /\ x.own = p.own /\ (p \in S \/ x = p)
    BY <1>4
  <2>2. PICK q \in pods :
          /\ y = IF q \in S THEN [q EXCEPT !.st = "open"] ELSE q
          /\ y.m = q.m /\ y.uid = q.uid /\ y.own = q.own /\ (q \in S \/ y = q)
    BY <1>4
  <2>3. p = q
    <3>1. CASE p \in S /\ q \in S
      BY <1>1, <1>5, <2>1, <2>2, <3>1 DEF PodsAreOne
    <3>2. CASE p \notin S \/ q \notin S
      BY <1>3, <1>5, <2>1, <2>2, <3>2 DEF PodsAreOne
    <3> QED
      BY <3>1, <3>2
  <2> QED
    BY <2>1, <2>2, <2>3
<1>6. \A x \in pods' : x.m \in Claimed => x.st # "gated"
  <2> SUFFICES ASSUME NEW x \in pods', x.m \in Claimed PROVE x.st # "gated"
    OBVIOUS
  <2>1. PICK p \in pods : x.m = p.m /\ (p \in S \/ x = p)
    BY <1>4
  <2> QED
    BY <1>1, <1>2, <2>1 DEF PodsAreOne
<1> QED
  BY <1>2, <1>5, <1>6 DEF PodsAreOne

LEMMA NextPodsAreOne ==
  ASSUME Typed, RecordKnown, PodsAreOne, OldPodIsOpen, [Next]_vars
  PROVE  PodsAreOne'
<1>1. Claimed' = Claimed
  BY SceneIsFixed DEF Claimed, Pool
<1>2. CASE pods' = pods
  BY <1>1, <1>2 DEF PodsAreOne
<1>3. ASSUME NEW p \in pods, pods' = pods \ {p} PROVE PodsAreOne'
  BY <1>1, <1>3 DEF PodsAreOne
<1> QED
  BY <1>2, <1>3, SceneIsFixed, PodChange, PodFormsAre, RetaggedKeepsOne, CreatedKeepsOne, OpenedKeepsOne

\* The candidate of a reconcile: kept, forgotten, the finished record, or a new one.
LEMMA CandidateChange ==
  ASSUME Typed, [Next]_vars
  PROVE  w'.cand \in {w.cand, NoRec, rec} \/ SelectCandidate
<1>0. w \in Workers /\ Idle.cand = NoRec
  BY DEF Typed, Idle
<1>p. \A pc : Goto(pc) \/ Adopt(pc) => w'.cand = w.cand
  BY <1>0 DEF Goto, Adopt, Workers
<1>s. Stop => w'.cand = NoRec
  BY <1>0 DEF Stop
<1>1. CASE StartPass
  BY <1>1 DEF StartPass
<1>2. CASE CompleteHandoff \/ CancelHandoff
  <2>1. PICK pc \in {"release", "cancel"} : ClearRecord(pc)
    BY <1>2 DEF CompleteHandoff, CancelHandoff
  <2>2. w' = [w EXCEPT !.pc = pc, !.cand = rec] \/ Stop
    BY <2>1 DEF ClearRecord
  <2> QED
    BY <1>0, <1>s, <2>2 DEF Workers
<1>3. CASE ReleaseHandoff
  <2>1. Stop \/ w' = [w EXCEPT !.pc = "publish", !.cand = NoRec]
    BY <1>3 DEF ReleaseHandoff
  <2> QED
    BY <1>0, <1>s, <2>1 DEF Workers
<1>4. CASE RedriveRecoveryPod \/ ClearRecoveryPod \/ ActorLost \/ FenceNodes \/ AwaitOldPods
           \/ CreateFencedWorkload \/ AdoptWorkload \/ FenceAlreadyLifted \/ RemoveRetiredPod
  <2>1. Stop \/ w' = w \/ \E pc \in Steps : Goto(pc) \/ Adopt(pc)
    BY <1>4 DEF RedriveRecoveryPod, ClearRecoveryPod, ActorLost, FenceNodes, AwaitOldPods,
       CreateFencedWorkload, AdoptWorkload, FenceAlreadyLifted, RemoveRetiredPod, Steps
  <2> QED
    BY <1>p, <1>s, <2>1
<1>5. CASE RetokenNodes \/ CorrectFenced \/ EnableWorkload \/ ClearWorkloadFence \/ SelectRecoveryPod
           \/ SnapshotFails \/ NothingToCorrect \/ PublishCorrection \/ AdvanceRecord
  <2>1. Stop \/ w' = w \/ \E pc \in Steps : Goto(pc) \/ Adopt(pc)
    BY <1>5 DEF RetokenNodes, CorrectFenced, EnableWorkload, ClearWorkloadFence, SelectRecoveryPod,
       SnapshotFails, NothingToCorrect, PublishCorrection, AdvanceRecord, Steps
  <2> QED
    BY <1>p, <1>s, <2>1
<1>6. CASE RecoverIdle \/ ReleaseActorGate \/ RecoverWaits \/ RedriveOldPod \/ PublishPool \/ ScanWaits
           \/ Converged \/ BeginHandoff \/ PersistHandoff \/ DeleteCandidatePod
  <2>1. Stop \/ w' = w \/ \E pc \in Steps : Goto(pc) \/ Adopt(pc)
    BY <1>6 DEF RecoverIdle, ReleaseActorGate, RecoverWaits, RedriveOldPod, PublishPool, ScanWaits,
       Converged, BeginHandoff, PersistHandoff, DeleteCandidatePod, Steps
  <2> QED
    BY <1>p, <1>s, <2>1
<1>7. CASE Environment
  BY <1>0, <1>7, EnvironmentKeeps
<1>8. CASE UNCHANGED vars
  BY <1>8 DEF vars
<1> QED
  BY <1>1, <1>2, <1>3, <1>4, <1>5, <1>6, <1>7, <1>8, NextSplits DEF Worker

LEMMA NextOldPodIsOpen ==
  ASSUME Typed, RecordKnown, PodsAreOne, OldPodIsOpen, [Next]_vars
  PROVE  OldPodIsOpen'
<1>0. NoRec.prev = 0 /\ \A p \in pods' : p.uid # 0
  <2>1. pods' \subseteq Pods
    BY PodChange, PodsTyped
  <2> QED
    BY <2>1, Constants DEF NoRec, Pods
<1>1. CASE SelectCandidate
  <2>1. pods' = pods /\ rec' = rec
    BY <1>1 DEF SelectCandidate
  <2>2. w'.cand.prev = 0 \/ \E p \in pods : p.st = "ready" /\ w'.cand.prev = p.uid
    BY <1>1, NewCandidate DEF Idle, NoRec
  <2>3. \A p \in pods : p.uid = w'.cand.prev => p.st # "gated"
    BY <1>0, <2>1, <2>2 DEF PodsAreOne
  <2> QED
    BY <2>1, <2>3 DEF OldPodIsOpen
<1>2. CASE ~SelectCandidate
  <2>1. w'.cand.prev \in {rec.prev, w.cand.prev, 0}
    BY <1>0, <1>2, CandidateChange
  <2>2. rec'.prev \in {rec.prev, w.cand.prev, 0}
    BY <1>0, RecordChange DEF RecordForms, RecordKept, RecordRefined, RecordAdopts, RecordCleared, RecordWritten
  <2>3. \A p \in pods' : p.uid \in {rec.prev, w.cand.prev} => p.st # "gated"
    <3>1. \A p \in pods : p.uid \in {rec.prev, w.cand.prev} => p.st # "gated"
      BY DEF OldPodIsOpen
    <3>2. ASSUME NEW p \in pods, NEW st \in PodStates \ {"gated"}, Retagged(p, st)
          PROVE  \A q \in pods' : q.uid \in {rec.prev, w.cand.prev} => q.st # "gated"
      <4>1. [p EXCEPT !.st = st].st # "gated"
        BY DEF Typed, Pods
      <4> QED
        BY <3>1, <3>2, <4>1 DEF Retagged
    <3>3. ASSUME PodCreated PROVE \A q \in pods' : q.uid \in {rec.prev, w.cand.prev} => q.st # "gated"
      <4>1. PICK u, x : u \in UnseenPods /\ x.uid = u /\ pods' = pods \cup {x}
        BY <3>3, Zenon DEF PodCreated
      <4>2. u # rec.prev /\ u # w.cand.prev
        BY <4>1 DEF UnseenPods, PodUIDs
      <4> QED
        BY <3>1, <4>1, <4>2
    <3>4. ASSUME GateOpens PROVE \A q \in pods' : q.uid \in {rec.prev, w.cand.prev} => q.st # "gated"
      <4>1. PICK S \in SUBSET pods : pods' = {IF p \in S THEN [p EXCEPT !.st = "open"] ELSE p : p \in pods}
        BY <3>4 DEF GateOpens
      <4>2. \A p \in pods : [p EXCEPT !.st = "open"].st # "gated"
        BY DEF Typed, Pods
      <4> QED
        BY <3>1, <4>1, <4>2
    <3> QED
      BY <3>1, <3>2, <3>3, <3>4, PodChange, PodFormsAre
  <2> QED
    BY <1>0, <2>1, <2>2, <2>3 DEF OldPodIsOpen
<1> QED
  BY <1>1, <1>2

-----------------------------------------------------------------------------
(* Outages.                                                                *)

LEMMA NextDownIsDown ==
  ASSUME Typed, PodsAreOne, DownIsDown, PodForms
  PROVE  DownIsDown'
<1>0. \A p \in pods, st \in PodStates : [p EXCEPT !.st = st].m = p.m /\ [p EXCEPT !.st = st].st = st
  BY DEF Typed, Pods
<1>1. CASE PodsKept
  BY <1>1 DEF PodsKept, DownIsDown
<1>2. ASSUME NEW p \in pods, PodGoes(p), p.st # "gated", down' = down \cup {p.m} PROVE DownIsDown'
  <2>1. \A q \in pods' : q.st = "ready" => q \in pods \ {p}
    BY <1>0, <1>2 DEF PodGoes, PodStates
  <2> QED
    BY <1>2, <2>1 DEF DownIsDown, PodsAreOne
<1>3. ASSUME NEW p \in pods, PodGoes(p), down' = down PROVE DownIsDown'
  <2>1. \A q \in pods' : q.st = "ready" => q \in pods
    BY <1>0, <1>3 DEF PodGoes, PodStates
  <2> QED
    BY <1>3, <2>1 DEF DownIsDown
<1>4. CASE PodRuns
  <2>1. \A q \in pods' : q.st = "ready" => q \in pods
    BY <1>0, <1>4 DEF PodRuns, PodStates
  <2> QED
    BY <1>4, <2>1 DEF PodRuns, DownIsDown
<1>5. CASE PodIsReady
  <2>1. PICK p \in pods : pods' = (pods \ {p}) \cup {[p EXCEPT !.st = "ready"]} /\ down' = down \ {p.m}
    BY <1>5 DEF PodIsReady
  <2>2. [p EXCEPT !.st = "ready"].m = p.m
    BY <1>0 DEF PodStates
  <2> QED
    BY <2>1, <2>2 DEF DownIsDown
<1>6. CASE PodCreated
  <2>1. PICK x : x.st \in {"gated", "run"} /\ pods' = pods \cup {x} /\ down' = down
    BY <1>6, Zenon DEF PodCreated
  <2> QED
    BY <2>1 DEF DownIsDown
<1>7. CASE GateOpens
  <2>1. PICK S \in SUBSET pods : pods' = {IF p \in S THEN [p EXCEPT !.st = "open"] ELSE p : p \in pods} /\ down' = down
    BY <1>7 DEF GateOpens
  <2>2. \A q \in pods' : q.st = "ready" => q \in pods
    BY <1>0, <2>1 DEF PodStates
  <2> QED
    BY <2>1, <2>2 DEF DownIsDown
<1> QED
  BY <1>1, <1>2, <1>3, <1>4, <1>5, <1>6, <1>7 DEF PodForms, PodStopped, PodRemoved

\* The operator only stops a Pod of the actor, and a GarageNode that is leaving does not come back.
LEMMA DownGrows ==
  ASSUME Typed, PodForms
  PROVE  down' \subseteq down \cup ({rec.m} \cap Member)
<1>1. \A p \in pods : p.m \in Member
  BY DEF Typed, Pods
<1> QED
  BY <1>1 DEF PodForms, PodsKept, PodStopped, PodRemoved, PodRuns, PodIsReady, PodCreated, GateOpens

LEMMA NodesStayGone ==
  ASSUME Typed, RecordKnown, [Next]_vars
  PROVE  \A m \in Member : gn[m].st # "live" => gn'[m].st # "live"
<1>0. gn \in [Member -> GarageNodes]
  BY DEF Typed
<1>1. CASE Worker
  BY <1>1, WorkloadChange, WorkloadsTyped, WorkerDiskTyped
<1>2. ASSUME NEW m \in Member,
             ReconcileStatefulSet(m) \/ UpdateStatusFromGarage(m) \/ CreatePod(m) \/ LateCreate(m) \/ PodStep(m)
             \/ ClaimGone(m) \/ DeleteClaim(m)
      PROVE  gn' = gn
  BY <1>2 DEF ReconcileStatefulSet, UpdateStatusFromGarage, CreatePod, LateCreate, PodStep, ClaimGone, DeleteClaim, kube
<1>3. ASSUME NEW n \in Member, FinalizeNode(n) \/ DeleteNode(n) \/ EditNode(n)
      PROVE  \A m \in Member : gn[m].st # "live" => gn'[m].st # "live"
  BY <1>0, <1>3 DEF FinalizeNode, DeleteNode, EditNode, GarageNodes
<1>4. ASSUME NEW h \in Member \cup {0}, DeleteWorkload(h) PROVE gn' = gn
  BY <1>4, DeleteWorkloadForm
<1>5. ASSUME LateCreateLost \/ (\E p \in pods : LosePod(p)) \/ EditCluster \/ EditSecret \/ RequestRecovery \/ Crash
             \/ UNCHANGED vars
      PROVE  gn' = gn
  BY <1>5 DEF LateCreateLost, LosePod, EditCluster, EditSecret, RequestRecovery, Crash, vars, kube
<1> QED
  BY <1>1, <1>2, <1>3, <1>4, <1>5, NextSplits DEF Environment

\* Outside a reconcile nothing is stopped by the operator.
LEMMA EnvironmentStopsNothing ==
  ASSUME Environment
  PROVE  down' \subseteq down
<1>1. ASSUME NEW m \in Member,
             \/ ReconcileStatefulSet(m) \/ UpdateStatusFromGarage(m) \/ FinalizeNode(m)
             \/ CreatePod(m) \/ LateCreate(m) \/ PodStep(m) \/ ClaimGone(m)
             \/ EditNode(m) \/ DeleteNode(m) \/ DeleteClaim(m)
      PROVE  down' \subseteq down
  BY <1>1 DEF ReconcileStatefulSet, UpdateStatusFromGarage, FinalizeNode, CreatePod, LateCreate, PodStep,
     ClaimGone, EditNode, DeleteNode, DeleteClaim
<1>2. ASSUME NEW h \in Member \cup {0}, DeleteWorkload(h) PROVE down' = down
  BY <1>2, Zenon DEF DeleteWorkload
<1>3. ASSUME LateCreateLost \/ (\E p \in pods : LosePod(p)) \/ EditCluster \/ EditSecret \/ RequestRecovery \/ Crash
      PROVE  down' = down
  BY <1>3 DEF LateCreateLost, LosePod, EditCluster, EditSecret, RequestRecovery, Crash
<1> QED
  BY <1>1, <1>2, <1>3 DEF Environment

LEMMA NextRecheckIsFirst ==
  ASSUME Typed, RecordKnown, RecheckIsFirst, OneOutage, [Next]_vars
  PROVE  RecheckIsFirst'
<1>0. down \subseteq Member /\ 0 \notin Member /\ NoRec.m = 0 /\ Idle.pc = "idle"
  BY Constants DEF Typed, NoRec, Idle
<1>1. CASE Worker
  <2>1. SelectCandidate => w' = Idle \/ w'.pc = "protect"
    BY DEF SelectCandidate, Stop, Typed, Workers
  <2>2. w'.pc = "recheck" => RecordWritten
    BY <1>0, <1>1, <2>1, WorkerPoints DEF RecordCleared
  <2> QED
    BY <1>0, <2>2 DEF RecordWritten, OneOutage, RecheckIsFirst
<1>2. CASE Environment
  BY <1>0, <1>2, EnvironmentKeeps, EnvironmentStopsNothing, NodesStayGone DEF RecheckIsFirst
<1>3. CASE UNCHANGED vars
  BY <1>3 DEF vars, RecheckIsFirst
<1> QED
  BY <1>1, <1>2, <1>3, NextSplits

LEMMA NextOneOutage ==
  ASSUME Typed, RecordKnown, PodsAreOne, OldPodIsOpen, DownIsDown, RecheckIsFirst, OneOutage, [Next]_vars
  PROVE  OneOutage'
<1>0. down \subseteq Member /\ 0 \notin Member /\ NoRec.m = 0 /\ down' \subseteq down \cup ({rec.m} \cap Member)
  BY Constants, PodChange, DownGrows DEF Typed, NoRec
<1>1. CASE rec'.m = rec.m
  BY <1>0, <1>1, NodesStayGone DEF OneOutage
<1>2. CASE RecordWritten
  BY <1>0, <1>2 DEF RecordWritten, OneOutage
<1>3. CASE RecordCleared
  <2>1. ASSUME Completes, NEW m \in down PROVE gn[m].st # "live"
    <3>1. ~Up(m)
      BY DEF DownIsDown, Up, Of
    <3>2. ~Exists(m)
      BY <1>0, <2>1, <3>1 DEF Completes, Healthy
    <3> QED
      BY <3>2 DEF Exists
  <2>2. \A m \in down : gn[m].st # "live"
    BY <1>3, <2>1 DEF RecordCleared, RecheckIsFirst
  <2> QED
    BY <1>3, <2>2 DEF RecordCleared, OneOutage
<1> QED
  BY <1>1, <1>2, <1>3, RecordChange DEF RecordForms, RecordKept, RecordRefined, RecordAdopts

-----------------------------------------------------------------------------
(* Claims.                                                                 *)

\* A protected claim stays, except where a reconcile without a record lets the claims go.
LEMMA ClaimChange ==
  ASSUME Typed, RecordKnown, [Next]_vars
  PROVE  \/ \A m \in Member : pvc[m].prot => pvc'[m].uid = pvc[m].uid /\ pvc'[m].prot
         \/ rec = NoRec /\ rec' = NoRec /\ w'.pc # "persist"
<1> DEFINE Hold == \A m \in Member : pvc[m].prot => pvc'[m].uid = pvc[m].uid /\ pvc'[m].prot
           Free == rec = NoRec /\ rec' = NoRec /\ w'.pc # "persist"
<1>0. pvc \in [Member -> Claims] /\ w \in Workers /\ Idle.pc = "idle"
  BY DEF Typed, Idle
<1>k. pvc' = pvc => Hold
  OBVIOUS
<1>1. ASSUME RecoverIdle \/ Converged \/ ReleaseHandoff PROVE Free
  <2>1. rec = NoRec /\ rec' = NoRec
    BY <1>1 DEF RecoverIdle, Converged, ReleaseHandoff, Scanning, RecordKnown
  <2>2. w'.pc # "persist"
    BY <1>0, <1>1 DEF RecoverIdle, Converged, ReleaseHandoff, Goto, Stop, Workers
  <2> QED
    BY <2>1, <2>2
<1>2. ASSUME BeginHandoff PROVE Hold
  <2>1. pvc' = pvc \/ ProtectClaims(w.cand)
    BY <1>2 DEF BeginHandoff
  <2> QED
    BY <1>0, <2>1 DEF ProtectClaims, Claims
<1>3. ASSUME PersistHandoff PROVE Hold \/ Free
  <2>1. rec = NoRec
    BY <1>3 DEF PersistHandoff, RecordKnown
  <2>2. pvc' = pvc \/ (rec' = rec /\ w' = Idle)
    BY <1>3 DEF PersistHandoff, Stop
  <2> QED
    BY <1>0, <2>1, <2>2
<1>4. ASSUME Worker, ~RecoverIdle, ~Converged, ~ReleaseHandoff, ~BeginHandoff, ~PersistHandoff PROVE pvc' = pvc
  <2>1. CASE StartPass \/ RedriveRecoveryPod \/ ClearRecoveryPod \/ ActorLost \/ FenceNodes \/ AwaitOldPods
             \/ CreateFencedWorkload \/ AdoptWorkload \/ FenceAlreadyLifted \/ RemoveRetiredPod
    BY <2>1 DEF StartPass, RedriveRecoveryPod, ClearRecoveryPod, ActorLost, FenceNodes, AwaitOldPods,
       CreateFencedWorkload, AdoptWorkload, FenceAlreadyLifted, RemoveRetiredPod
  <2>2. CASE RetokenNodes \/ CorrectFenced \/ EnableWorkload \/ ClearWorkloadFence \/ SelectRecoveryPod
             \/ SnapshotFails \/ NothingToCorrect \/ PublishCorrection \/ AdvanceRecord
    BY <2>2 DEF RetokenNodes, CorrectFenced, EnableWorkload, ClearWorkloadFence, SelectRecoveryPod,
       SnapshotFails, NothingToCorrect, PublishCorrection, AdvanceRecord
  <2>3. CASE ReleaseActorGate \/ RecoverWaits \/ RedriveOldPod \/ CompleteHandoff \/ PublishPool
             \/ ScanWaits \/ SelectCandidate \/ CancelHandoff \/ DeleteCandidatePod
    BY <2>3 DEF ReleaseActorGate, RecoverWaits, RedriveOldPod, CompleteHandoff, PublishPool, ScanWaits, SelectCandidate,
       CancelHandoff, DeleteCandidatePod
  <2> QED
    BY <1>4, <2>1, <2>2, <2>3 DEF Worker
<1>5. ASSUME NEW n \in Member, ClaimGone(n) \/ DeleteClaim(n) PROVE Hold
  <2>1. CASE ClaimGone(n)
    <3>1. ~pvc[n].prot /\ \A m \in Member : m # n => pvc'[m] = pvc[m]
      BY <1>0, <2>1 DEF ClaimGone
    <3> QED
      BY <3>1
  <2>2. CASE DeleteClaim(n)
    <3>1. ~pvc[n].prot /\ \A m \in Member : m # n => pvc'[m] = pvc[m]
      BY <1>0, <2>2 DEF DeleteClaim
    <3> QED
      BY <3>1
  <2> QED
    BY <1>5, <2>1, <2>2
<1>6. ASSUME NEW h \in Member \cup {0}, DeleteWorkload(h) PROVE Hold
  BY <1>6, DeleteWorkloadForm
<1>7. ASSUME NEW m \in Member,
             \/ ReconcileStatefulSet(m) \/ UpdateStatusFromGarage(m) \/ FinalizeNode(m)
             \/ CreatePod(m) \/ LateCreate(m) \/ PodStep(m) \/ EditNode(m) \/ DeleteNode(m)
      PROVE  pvc' = pvc
  BY <1>7 DEF ReconcileStatefulSet, UpdateStatusFromGarage, FinalizeNode, CreatePod, LateCreate, PodStep, EditNode, DeleteNode
<1>8. ASSUME LateCreateLost \/ (\E p \in pods : LosePod(p)) \/ EditCluster \/ EditSecret \/ RequestRecovery \/ Crash
             \/ UNCHANGED vars
      PROVE  pvc' = pvc
  BY <1>8 DEF LateCreateLost, LosePod, EditCluster, EditSecret, RequestRecovery, Crash, vars
<1>9. Hold \/ Free
  <2> HIDE DEF Hold, Free
  <2> QED
    BY <1>k, <1>1, <1>2, <1>3, <1>4, <1>5, <1>6, <1>7, <1>8, NextSplits DEF Environment
<1> QED
  BY <1>9

LEMMA NextClaimIsKept ==
  ASSUME Typed, RecordKnown, ClaimIsKept, [Next]_vars
  PROVE  ClaimIsKept'
<1>0. /\ Claimed' = Claimed /\ Claimed \subseteq Member /\ 0 \notin Member /\ NoRec.m = 0 /\ Idle.pc = "idle"
      /\ pvc \in [Member -> Claims] /\ w \in Workers
  BY SceneIsFixed, HomeIn, Constants DEF Typed, Claimed, Pool, NoRec, Idle
<1>1. CASE rec = NoRec /\ rec' = NoRec /\ w'.pc # "persist"
  BY <1>0, <1>1 DEF ClaimIsKept
<1>2. CASE \A m \in Member : pvc[m].prot => pvc'[m].uid = pvc[m].uid /\ pvc'[m].prot
  <2>1. rec'.m \in Claimed => pvc'[rec'.m].uid = rec'.disk /\ pvc'[rec'.m].prot
    <3>1. CASE rec'.m = rec.m /\ rec'.disk = rec.disk
      BY <1>0, <1>2, <3>1 DEF ClaimIsKept
    <3>2. CASE RecordCleared
      BY <1>0, <3>2 DEF RecordCleared
    <3>3. CASE RecordWritten
      BY <1>0, <3>3 DEF RecordWritten, ClaimIsKept
    <3> QED
      BY <3>1, <3>2, <3>3, RecordChange DEF RecordForms, RecordKept, RecordRefined, RecordAdopts
  <2>2. ASSUME w'.pc = "persist", w'.cand.m \in Claimed
        PROVE  pvc'[w'.cand.m].uid = w'.cand.disk /\ pvc'[w'.cand.m].prot
    <3>1. CASE Worker
      <4>1. SelectCandidate => w' = Idle \/ w'.pc = "protect"
        BY <1>0 DEF SelectCandidate, Stop, Workers
      <4>2. BeginHandoff /\ w'.cand = w.cand
        BY <1>0, <2>2, <3>1, <4>1, WorkerPoints DEF RecordCleared
      <4>3. ClaimUnchanged(w.cand) /\ ProtectClaims(w.cand)
        BY <1>0, <2>2, <4>2 DEF BeginHandoff, Stop
      <4>4. pvc'[w.cand.m] = [pvc[w.cand.m] EXCEPT !.prot = TRUE]
        BY <1>0, <2>2, <4>2, <4>3 DEF ProtectClaims
      <4>5. pvc[w.cand.m] \in Claims
        BY <1>0, <2>2, <4>2
      <4>6. pvc'[w.cand.m].uid = pvc[w.cand.m].uid /\ pvc'[w.cand.m].prot
        BY <4>4, <4>5 DEF Claims
      <4> QED
        BY <2>2, <4>2, <4>3, <4>6 DEF ClaimUnchanged
    <3>2. CASE w' = w
      BY <1>0, <1>2, <2>2, <3>2 DEF ClaimIsKept
    <3> QED
      BY <1>0, <2>2, <3>1, <3>2, NextSplits, EnvironmentKeeps DEF vars
  <2> QED
    BY <1>0, <2>1, <2>2 DEF ClaimIsKept
<1> QED
  BY <1>1, <1>2, ClaimChange

-----------------------------------------------------------------------------
(* Incarnations and configuration.                                         *)

\* A workload keeps its UID, is gone, or is a new incarnation.
LEMMA UIDChange ==
  ASSUME Typed, WorkloadForms, NEW h \in Member \cup {0}
  PROVE  wl'[h].uid = wl[h].uid \/ wl'[h].uid = NoUID \/ wl'[h].uid \notin WorkloadUIDs
<1>0. wl \in [Member \cup {0} -> Workloads] /\ NoWorkload.uid = NoUID
  BY DEF Typed, NoWorkload
<1>1. CASE WorkloadPublished
  <2>1. PICK m \in Member, g \in Nat, fence \in BOOLEAN : Publish(m, g, fence)
    BY <1>1 DEF WorkloadPublished
  <2>2. PICK u \in 1..MaxUID :
          /\ IF wl[Home(m)].uid = NoUID THEN u \in UnseenUIDs ELSE u = wl[Home(m)].uid
          /\ wl' = [wl EXCEPT ![Home(m)] = [uid |-> u, rev |-> Rendered(m, g), ack |-> <<g, gn[m].gen>>, fence |-> fence]]
    BY <2>1, PublishForm
  <2>3. u = wl[Home(m)].uid \/ u \notin WorkloadUIDs
    BY <2>2 DEF UnseenUIDs
  <2>4. wl'[h] = wl[h] \/ (h = Home(m) /\ wl'[h].uid = u)
    BY <1>0, <2>2
  <2> QED
    BY <2>3, <2>4
<1>2. CASE WorkloadEnabled
  <2>1. wl' = [wl EXCEPT ![Home(rec.m)].fence = FALSE]
    BY <1>2 DEF WorkloadEnabled
  <2> QED
    BY <1>0, <2>1 DEF Workloads
<1>3. CASE WorkloadGone
  BY <1>0, <1>3 DEF WorkloadGone
<1> QED
  BY <1>1, <1>2, <1>3 DEF WorkloadForms, WorkloadsKept

\* Only the loss of a workload leaves a create behind.
LEMMA GhostChange ==
  ASSUME Typed, RecordKnown, [Next]_vars
  PROVE  ghost' \subseteq ghost \/ \E h \in Member \cup {0} : DeleteWorkload(h)
<1>1. CASE Worker
  BY <1>1, WorkloadChange, WorkloadsTyped, WorkerDiskTyped
<1>2. ASSUME NEW m \in Member,
             \/ ReconcileStatefulSet(m) \/ UpdateStatusFromGarage(m) \/ FinalizeNode(m)
             \/ CreatePod(m) \/ LateCreate(m) \/ PodStep(m) \/ ClaimGone(m)
             \/ EditNode(m) \/ DeleteNode(m) \/ DeleteClaim(m)
      PROVE  ghost' \subseteq ghost
  BY <1>2 DEF ReconcileStatefulSet, UpdateStatusFromGarage, FinalizeNode, CreatePod, LateCreate, PodStep,
     ClaimGone, EditNode, DeleteNode, DeleteClaim, kube
<1>3. ASSUME LateCreateLost \/ (\E p \in pods : LosePod(p)) \/ EditCluster \/ EditSecret \/ RequestRecovery \/ Crash
             \/ UNCHANGED vars
      PROVE  ghost' \subseteq ghost
  BY <1>3 DEF LateCreateLost, LosePod, EditCluster, EditSecret, RequestRecovery, Crash, vars, kube
<1> QED
  BY <1>1, <1>2, <1>3, NextSplits DEF Environment

LEMMA NextWorkloadsDiffer ==
  ASSUME Typed, RecordKnown, WorkloadsDiffer, [Next]_vars
  PROVE  WorkloadsDiffer'
<1>0. /\ wl \in [Member \cup {0} -> Workloads] /\ NoWorkload.uid = NoUID /\ ~NoWorkload.fence
      /\ \A g \in ghost : g.uid # NoUID
      /\ \A h \in Member \cup {0} : wl[h].uid \in WorkloadUIDs
      /\ \A g \in ghost : g.uid \in WorkloadUIDs
  BY DEF Typed, NoWorkload, Creates, NoUID, WorkloadUIDs
<1>1. /\ \A h, k \in Member \cup {0} : wl'[h].uid = wl'[k].uid => h = k \/ wl'[h] = NoWorkload
      /\ \A h \in Member \cup {0} : wl'[h].uid = NoUID => wl'[h] = NoWorkload
  <2>1. CASE wl' = wl
    BY <2>1 DEF WorkloadsDiffer
  <2>2. CASE WorkloadPublished
    <3>1. PICK m \in Member, g \in Nat, fence \in BOOLEAN : Publish(m, g, fence)
      BY <2>2 DEF WorkloadPublished
    <3>2. PICK u \in 1..MaxUID :
            /\ IF wl[Home(m)].uid = NoUID THEN u \in UnseenUIDs ELSE u = wl[Home(m)].uid
            /\ wl' = [wl EXCEPT ![Home(m)] = [uid |-> u, rev |-> Rendered(m, g), ack |-> <<g, gn[m].gen>>, fence |-> fence]]
      BY <3>1, PublishForm
    <3> DEFINE hm == Home(m)
    <3>3. hm \in Member \cup {0} /\ u # NoUID
      BY HomeIn, Constants DEF NoUID
    <3>4. wl'[hm].uid = u /\ \A h \in Member \cup {0} : h # hm => wl'[h] = wl[h]
      BY <1>0, <3>2, <3>3
    <3>5. \A h \in Member \cup {0} : h # hm => wl[h].uid # u
      <4>1. CASE u = wl[hm].uid
        BY <3>3, <4>1, <1>0 DEF WorkloadsDiffer
      <4>2. CASE u \in UnseenUIDs
        BY <1>0, <4>2 DEF UnseenUIDs
      <4> QED
        BY <3>2, <4>1, <4>2
    <3> HIDE DEF hm
    <3> QED
      BY <3>3, <3>4, <3>5 DEF WorkloadsDiffer
  <2>3. CASE WorkloadEnabled
    <3> DEFINE hm == Home(rec.m)
    <3>1. hm \in Member \cup {0} /\ wl[hm].fence
      BY <2>3, HomeIn DEF WorkloadEnabled
    <3>2. wl' = [wl EXCEPT ![hm].fence = FALSE]
      BY <2>3 DEF WorkloadEnabled
    <3> HIDE DEF hm
    <3>3. wl'[hm].uid = wl[hm].uid /\ \A h \in Member \cup {0} : h # hm => wl'[h] = wl[h]
      BY <1>0, <3>1, <3>2 DEF Workloads
    <3>4. wl[hm] # NoWorkload
      BY <1>0, <3>1
    <3> QED
      BY <3>1, <3>3, <3>4 DEF WorkloadsDiffer
  <2>4. CASE WorkloadGone
    <3>1. PICK h \in Member \cup {0} : wl' = [wl EXCEPT ![h] = NoWorkload]
      BY <2>4 DEF WorkloadGone
    <3>2. wl'[h] = NoWorkload /\ \A k \in Member \cup {0} : k # h => wl'[k] = wl[k]
      BY <1>0, <3>1
    <3> QED
      BY <1>0, <3>2 DEF WorkloadsDiffer
  <2> QED
    BY <2>1, <2>2, <2>3, <2>4, WorkloadChange DEF WorkloadForms, WorkloadsKept
<1>2. \A g \in ghost', h \in Member \cup {0} : g.uid # wl'[h].uid
  <2>1. \A g \in ghost, h \in Member \cup {0} : g.uid # wl'[h].uid
    BY <1>0, WorkloadChange, UIDChange DEF WorkloadsDiffer
  <2>2. ASSUME NEW h \in Member \cup {0}, DeleteWorkload(h) PROVE \A g \in ghost', k \in Member \cup {0} : g.uid # wl'[k].uid
    <3>1. wl[h].uid # NoUID /\ wl' = [wl EXCEPT ![h] = NoWorkload]
          /\ ghost' = ghost \cup {[h |-> h, uid |-> wl[h].uid, rev |-> wl[h].rev]}
      BY <2>2, DeleteWorkloadForm
    <3>2. wl'[h] = NoWorkload /\ \A k \in Member \cup {0} : k # h => wl'[k] = wl[k]
      BY <1>0, <3>1
    <3>3. \A k \in Member \cup {0} : wl'[k].uid # wl[h].uid
      BY <1>0, <3>1, <3>2 DEF WorkloadsDiffer
    <3> QED
      BY <2>1, <3>1, <3>3
  <2> QED
    BY <2>1, <2>2, GhostChange
<1> QED
  BY <1>1, <1>2 DEF WorkloadsDiffer

LEMMA NextRetiredFits ==
  ASSUME Typed, RecordKnown, RetiredFits, [Next]_vars
  PROVE  RetiredFits'
<1>0. /\ 0 \notin Member /\ NoRec.m = 0 /\ NoRec.retired = {} /\ Idle.pc = "idle"
      /\ rec.own \in WorkloadUIDs /\ rec.retired \subseteq WorkloadUIDs
      /\ rec.m \in Member \cup {0} /\ Home(rec.m) \in Member \cup {0}
      /\ \A m \in Member \cup {0} : Home(m)' = Home(m)
  BY Constants, HomeIn, SceneIsFixed DEF NoRec, Idle, WorkloadUIDs, Typed, Records, Home, Pool
<1>1. Cardinality({}) <= MaxRetired
  BY FS_EmptySet, Constants
<1>2. rec' = rec /\ w'.pc = "adopt" => /\ Cardinality(rec'.retired \cup {rec'.own}) <= MaxRetired
                                       /\ wl'[Home(rec.m)].uid \in {NoUID} \/ wl'[Home(rec.m)].uid # rec'.own
  <2> SUFFICES ASSUME rec' = rec, w'.pc = "adopt"
               PROVE  /\ Cardinality(rec.retired \cup {rec.own}) <= MaxRetired
                      /\ wl'[Home(rec.m)].uid \in {NoUID} \/ wl'[Home(rec.m)].uid # rec.own
    OBVIOUS
  <2>1. CASE w' = w
    BY <1>0, <2>1, WorkloadChange, UIDChange DEF RetiredFits
  <2>2. CASE Worker /\ w' # w
    <3>1. SelectCandidate => w' = Idle \/ w'.pc = "protect"
      BY DEF SelectCandidate, Stop, Typed, Workers
    <3>2. CreateFencedWorkload
      BY <1>0, <2>2, <3>1, WorkerPoints DEF RecordCleared
    <3>3. MayReplace(rec) /\ ~SameWorkload
      BY <1>0, <3>2 DEF CreateFencedWorkload, Stop, ReadyToReplace, Replaceable
    <3>4. wl[Home(rec.m)].uid # rec.own
      BY <3>3 DEF SameWorkload
    <3> QED
      BY <1>0, <3>3, <3>4, WorkloadChange, UIDChange DEF MayReplace
  <2> QED
    BY <1>0, <2>1, <2>2, NextSplits, EnvironmentKeeps DEF vars
<1>3. wl'[Home(rec.m)].uid \notin rec.retired \ {NoUID}
  BY <1>0, WorkloadChange, UIDChange DEF RetiredFits
<1>4. CASE RecordKept
  BY <1>0, <1>2, <1>3, <1>4 DEF RecordKept, RetiredFits
<1>5. CASE RecordRefined /\ rec' # rec
  <2>1. w'.pc # "adopt"
    <3>1. Worker
      BY <1>5, NextSplits, EnvironmentKeeps DEF vars
    <3>2. SelectCandidate \/ CreateFencedWorkload => rec' = rec
      BY DEF SelectCandidate, CreateFencedWorkload
    <3> QED
      BY <1>0, <1>5, <3>1, <3>2, WorkerPoints DEF RecordCleared
  <2> QED
    BY <1>0, <1>3, <1>5, <2>1 DEF RecordRefined, RetiredFits
<1>6. CASE RecordAdopts /\ rec' # rec
  <2>1. w'.pc # "adopt"
    <3>1. Worker
      BY <1>6, NextSplits, EnvironmentKeeps DEF vars
    <3>2. SelectCandidate \/ CreateFencedWorkload => rec' = rec
      BY DEF SelectCandidate, CreateFencedWorkload
    <3> QED
      BY <1>0, <1>6, <3>1, <3>2, WorkerPoints DEF RecordCleared
  <2>2. Cardinality(rec'.retired) <= MaxRetired
    BY <1>6 DEF RecordAdopts, RetiredFits
  <2>3. rec'.own \notin rec'.retired \ {NoUID} /\ wl'[Home(rec'.m)].uid \notin rec'.retired \ {NoUID}
    BY <1>6 DEF RecordAdopts, RetiredFits
  <2> QED
    BY <1>0, <2>1, <2>2, <2>3, <1>6 DEF RecordAdopts, RetiredFits
<1>7. CASE RecordCleared \/ RecordWritten
  <2>1. rec'.retired = {} /\ w'.pc # "adopt"
    BY <1>0, <1>7 DEF RecordCleared, RecordWritten, RecordKnown
  <2> QED
    BY <1>1, <2>1 DEF RetiredFits
<1> QED
  BY <1>4, <1>5, <1>6, <1>7, RecordChange DEF RecordForms, RecordKept

\* Where the Pods of the next state come from.
LEMMA PodOrigin ==
  ASSUME Typed, RecordKnown, PodsAreOne, OldPodIsOpen, [Next]_vars, NEW x \in pods'
  PROVE  \/ \E p \in pods : x.m = p.m /\ x.own = p.own /\ x.rev = p.rev
         \/ /\ x.m \in Member /\ x.own \in 1..MaxUID
            /\ (x.own = wl[Home(x.m)].uid /\ x.rev = wl[Home(x.m)].rev) \/ \E g \in ghost : x.own = g.uid
<1>1. \A p \in pods, st \in PodStates : [p EXCEPT !.st = st].m = p.m /\ [p EXCEPT !.st = st].own = p.own /\ [p EXCEPT !.st = st].rev = p.rev
  BY DEF Typed, Pods
<1>2. CASE pods' \subseteq pods
  BY <1>2
<1>3. ASSUME NEW p \in pods, NEW st \in PodStates, Retagged(p, st)
      PROVE  \E q \in pods : x.m = q.m /\ x.own = q.own /\ x.rev = q.rev
  BY <1>1, <1>3 DEF Retagged
<1>4. CASE GateOpens
  <2>1. PICK S \in SUBSET pods : pods' = {IF p \in S THEN [p EXCEPT !.st = "open"] ELSE p : p \in pods}
    BY <1>4 DEF GateOpens
  <2>2. PICK p \in pods : x = IF p \in S THEN [p EXCEPT !.st = "open"] ELSE p
    BY <2>1
  <2>3. x.m = p.m /\ x.own = p.own /\ x.rev = p.rev
    <3>1. "open" \in PodStates
      BY DEF PodStates
    <3> QED
      BY <1>1, <2>2, <3>1
  <2> QED
    BY <2>3
<1>5. CASE PodCreated
  <2>1. PICK m \in Member, u \in UnseenPods, own \in 1..MaxUID, rev \in Revs :
          /\ pods' = pods \cup {[m |-> m, uid |-> u, own |-> own, rev |-> rev, disk |-> pvc[m].uid,
                                  st |-> IF m \in Pool THEN "gated" ELSE "run"]}
          /\ (own = wl[Home(m)].uid /\ rev = wl[Home(m)].rev) \/ \E g \in ghost : own = g.uid
    BY <1>5 DEF PodCreated
  <2>2. x \in pods \/ (x.m = m /\ x.own = own /\ x.rev = rev)
    BY <2>1
  <2> QED
    BY <2>1, <2>2
<1> QED
  BY <1>2, <1>3, <1>4, <1>5, PodChange, PodFormsAre

\* The configuration that something mounts is kept.
LEMMA ConfigKeeps ==
  ASSUME Typed, RecordKnown, [Next]_vars
  PROVE  \/ config \subseteq config'
         \/ wl' = wl /\ pods' = pods /\ config' = config \cap Referenced
<1>1. Converged => pods' = pods
  BY DEF Converged
<1>2. WorkloadPublished => config \subseteq config'
  BY DEF WorkloadPublished, Publish
<1> QED
  BY <1>1, <1>2, WorkloadChange DEF WorkloadForms, WorkloadsKept, WorkloadEnabled, WorkloadGone

LEMMA NextTemplatesExist ==
  ASSUME Typed, RecordKnown, TemplatesExist, [Next]_vars
  PROVE  TemplatesExist'
<1>0. wl \in [Member \cup {0} -> Workloads] /\ NoWorkload.uid = NoUID /\ DOMAIN wl = Member \cup {0}
  BY DEF Typed, NoWorkload
<1>1. CASE WorkloadsKept
  <2>1. \A h \in Member \cup {0} : wl[h].rev \in Referenced
    BY <1>0 DEF Referenced
  <2> QED
    BY <1>1, <2>1 DEF WorkloadsKept, TemplatesExist
<1>2. CASE WorkloadPublished
  <2>1. PICK m \in Member, g \in Nat, fence \in BOOLEAN : Publish(m, g, fence)
    BY <1>2 DEF WorkloadPublished
  <2>2. PICK u \in 1..MaxUID :
          wl' = [wl EXCEPT ![Home(m)] = [uid |-> u, rev |-> Rendered(m, g), ack |-> <<g, gn[m].gen>>, fence |-> fence]]
    BY <2>1, PublishForm
  <2>3. config' = config \cup {Rendered(m, g)}
    BY <2>1, PublishForm
  <2>4. \A h \in Member \cup {0} : wl'[h] = wl[h] \/ wl'[h].rev = Rendered(m, g)
    BY <1>0, <2>2
  <2> QED
    BY <2>3, <2>4 DEF TemplatesExist
<1>3. CASE WorkloadEnabled
  <2>1. config' = config /\ wl' = [wl EXCEPT ![Home(rec.m)].fence = FALSE]
    BY <1>3 DEF WorkloadEnabled
  <2>2. \A h \in Member \cup {0} : wl'[h].uid = wl[h].uid /\ wl'[h].rev = wl[h].rev
    BY <1>0, <2>1 DEF Workloads
  <2> QED
    BY <2>1, <2>2 DEF TemplatesExist
<1>4. CASE WorkloadGone
  BY <1>0, <1>4 DEF WorkloadGone, TemplatesExist
<1> QED
  BY <1>1, <1>2, <1>3, <1>4, WorkloadChange DEF WorkloadForms

LEMMA NextMountedConfig ==
  ASSUME Typed, RecordKnown, PodsAreOne, OldPodIsOpen, WorkloadsDiffer, TemplatesExist, MountedConfigExists, [Next]_vars
  PROVE  MountedConfigExists'
<1> SUFFICES ASSUME NEW x \in pods', x.own = wl'[Home(x.m)'].uid PROVE x.rev \in config'
  BY DEF MountedConfigExists
<1>0. /\ \A p \in pods : p.m \in Member /\ p.own # NoUID /\ p.own \in WorkloadUIDs
      /\ \A g \in ghost : g.uid \in WorkloadUIDs
      /\ \A m \in Member : Home(m)' = Home(m) /\ Home(m) \in Member \cup {0}
  BY HomeIn, SceneIsFixed DEF Typed, Pods, NoUID, WorkloadUIDs, Home, Pool
<1>1. ASSUME NEW p \in pods, x.m = p.m, x.own = p.own, x.rev = p.rev PROVE x.rev \in config'
  <2>1. wl[Home(p.m)].uid = p.own
    <3>1. wl'[Home(p.m)].uid = p.own
      BY <1>0, <1>1
    <3> QED
      BY <1>0, <3>1, WorkloadChange, UIDChange
  <2>2. p.rev \in config
    BY <2>1 DEF MountedConfigExists
  <2>3. p.rev \in Referenced
    BY DEF Referenced
  <2> QED
    BY <1>1, <2>2, <2>3, ConfigKeeps
<1>2. ASSUME x.m \in Member, x.own \in 1..MaxUID, ~(x \in pods),
             (x.own = wl[Home(x.m)].uid /\ x.rev = wl[Home(x.m)].rev) \/ \E g \in ghost : x.own = g.uid
      PROVE  x.rev \in config'
  <2>1. wl'[Home(x.m)].uid = x.own /\ x.own # NoUID /\ Home(x.m) \in Member \cup {0}
    BY <1>0, <1>2 DEF NoUID
  <2>2. CASE \E g \in ghost : x.own = g.uid
    BY <1>0, <2>1, <2>2, WorkloadChange, UIDChange DEF WorkloadsDiffer
  <2>3. CASE x.own = wl[Home(x.m)].uid /\ x.rev = wl[Home(x.m)].rev
    <3>1. x.rev \in config
      BY <2>1, <2>3 DEF TemplatesExist
    <3> QED
      BY <1>2, <3>1, ConfigKeeps
  <2> QED
    BY <1>2, <2>2, <2>3
<1>3. CASE x \in pods
  BY <1>1, <1>3
<1>4. CASE x \notin pods
  BY <1>1, <1>2, <1>4, PodOrigin
<1> QED
  BY <1>3, <1>4

LEMMA NextAcknowledged ==
  ASSUME Typed, RecordKnown, Acknowledged, [Next]_vars
  PROVE  Acknowledged'
<1>0. /\ Claimed' = Claimed /\ Pool' = Pool /\ Claimed \subseteq Member /\ 0 \notin Member /\ Idle.pc = "idle"
      /\ wl \in [Member \cup {0} -> Workloads] /\ NoWorkload.uid = NoUID /\ w \in Workers
  BY SceneIsFixed, HomeIn, Constants DEF Typed, Claimed, Pool, Idle, NoWorkload
<1>1. \A m \in Claimed : wl'[m].uid # NoUID => wl'[m].ack = <<wl'[m].rev.c, wl'[m].rev.n>>
  <2>1. CASE wl' = wl
    BY <2>1 DEF Acknowledged
  <2>2. CASE WorkloadPublished
    <3>1. PICK n \in Member, g \in Nat, fence \in BOOLEAN : Publish(n, g, fence)
      BY <2>2 DEF WorkloadPublished
    <3>2. PICK u \in 1..MaxUID :
            wl' = [wl EXCEPT ![Home(n)] = [uid |-> u, rev |-> Rendered(n, g), ack |-> <<g, gn[n].gen>>, fence |-> fence]]
      BY <3>1, PublishForm
    <3>3. ASSUME NEW m \in Claimed, m = Home(n) PROVE wl'[m].ack = <<wl'[m].rev.c, wl'[m].rev.n>>
      <4>1. n = m /\ n \notin Pool
        BY <1>0, <3>3 DEF Home
      <4>2. Rendered(n, g).c = g /\ Rendered(n, g).n = gn[n].gen
        BY <4>1 DEF Rendered
      <4>3. wl'[m].ack = <<g, gn[n].gen>> /\ wl'[m].rev = Rendered(n, g)
        BY <1>0, <3>2, <3>3
      <4> QED
        BY <4>2, <4>3
    <3>4. \A m \in Claimed : m # Home(n) => wl'[m] = wl[m]
      BY <1>0, <3>2
    <3> QED
      BY <3>3, <3>4 DEF Acknowledged
  <2>3. CASE WorkloadEnabled
    <3>1. wl' = [wl EXCEPT ![Home(rec.m)].fence = FALSE]
      BY <2>3 DEF WorkloadEnabled
    <3>2. \A h \in Member \cup {0} : wl'[h].uid = wl[h].uid /\ wl'[h].rev = wl[h].rev /\ wl'[h].ack = wl[h].ack
      BY <1>0, <3>1 DEF Workloads
    <3> QED
      BY <1>0, <3>2 DEF Acknowledged
  <2>4. CASE WorkloadGone
    BY <1>0, <2>4 DEF WorkloadGone, Acknowledged
  <2> QED
    BY <2>1, <2>2, <2>3, <2>4, WorkloadChange DEF WorkloadForms, WorkloadsKept
<1>2. w'.pc = "scan" /\ Pool # {} /\ wl'[0].uid # NoUID => wl'[0].rev.c = w'.gen
  <2> SUFFICES ASSUME w'.pc = "scan", Pool # {}, wl'[0].uid # NoUID PROVE wl'[0].rev.c = w'.gen
    OBVIOUS
  <2>1. CASE Worker
    <3>1. SelectCandidate => w' = Idle \/ w'.pc = "protect"
      BY <1>0 DEF SelectCandidate, Stop, Workers
    <3>2. PublishPool
      BY <1>0, <2>1, <3>1, WorkerPoints DEF RecordCleared
    <3>3. w'.gen = w.gen
      BY <1>0, <3>2 DEF PublishPool, Goto, Workers
    <3>4. (wl[0].uid = NoUID /\ wl' = wl) \/ Publish(Min(Pool), w.gen, FALSE)
      BY <3>2 DEF PublishPool
    <3>5. Min(Pool) \in Pool /\ Pool \subseteq Member
      BY MinIn, HomeIn, Constants
    <3>6. PICK n \in Pool : Publish(n, w.gen, FALSE)
      BY <3>4, <3>5
    <3>7. w.gen \in Nat /\ Home(n) = 0
      BY <1>0, HomeIn DEF Workers
    <3>8. PICK u \in 1..MaxUID :
            wl' = [wl EXCEPT ![Home(n)] = [uid |-> u, rev |-> Rendered(n, w.gen), ack |-> <<w.gen, gn[n].gen>>, fence |-> FALSE]]
      BY <3>5, <3>6, <3>7, PublishForm
    <3>9. wl'[0].rev = Rendered(n, w.gen)
      BY <1>0, <3>7, <3>8
    <3> QED
      BY <3>3, <3>9 DEF Rendered
  <2>2. CASE w' = w /\ wl'[0] \in {wl[0], NoWorkload}
    BY <1>0, <2>2 DEF Acknowledged
  <2>3. Environment => wl'[0] \in {wl[0], NoWorkload}
    <3>1. ASSUME NEW m \in Member, ReconcileStatefulSet(m) PROVE wl'[0] = wl[0]
      <4>1. m \in Claimed /\ Publish(m, in.gen, wl[m].fence) /\ Home(m) = m /\ m # 0
        BY <1>0, <3>1, HomeIn DEF ReconcileStatefulSet
      <4> QED
        BY <1>0, <4>1 DEF Publish
    <3>2. ASSUME NEW m \in Member, FinalizeNode(m) PROVE wl'[0] = wl[0]
      BY <1>0, <3>2 DEF FinalizeNode
    <3>3. ASSUME NEW h \in Member \cup {0}, DeleteWorkload(h) PROVE wl'[0] \in {wl[0], NoWorkload}
      BY <1>0, <3>3, DeleteWorkloadForm
    <3>4. ASSUME NEW m \in Member,
                 \/ UpdateStatusFromGarage(m) \/ CreatePod(m) \/ LateCreate(m) \/ PodStep(m) \/ ClaimGone(m)
                 \/ EditNode(m) \/ DeleteNode(m) \/ DeleteClaim(m)
          PROVE  wl' = wl
      BY <3>4 DEF UpdateStatusFromGarage, CreatePod, LateCreate, PodStep, ClaimGone, EditNode, DeleteNode, DeleteClaim
    <3>5. ASSUME LateCreateLost \/ (\E p \in pods : LosePod(p)) \/ EditCluster \/ EditSecret \/ RequestRecovery \/ Crash
          PROVE  wl' = wl
      BY <3>5 DEF LateCreateLost, LosePod, EditCluster, EditSecret, RequestRecovery, Crash
    <3> QED
      BY <3>1, <3>2, <3>3, <3>4, <3>5 DEF Environment
  <2> QED
    BY <1>0, <2>1, <2>2, <2>3, NextSplits, EnvironmentKeeps DEF vars
<1> QED
  BY <1>0, <1>1, <1>2 DEF Acknowledged

-----------------------------------------------------------------------------
(* The inductive invariant and the theorems.                               *)

IndInv ==
  /\ Typed /\ RecordKnown /\ PodsAreOne /\ OldPodIsOpen /\ DownIsDown /\ RecheckIsFirst /\ OneOutage
  /\ ClaimIsKept /\ WorkloadsDiffer /\ RetiredFits /\ TemplatesExist /\ MountedConfigExists /\ Acknowledged

\* Only the tail of a scan sets the condition.
LEMMA ReadyChange ==
  ASSUME Typed, [Next]_vars, ready' # ready
  PROVE  Converged
<1>1. CASE StartPass \/ RedriveRecoveryPod \/ ClearRecoveryPod \/ ActorLost \/ FenceNodes \/ AwaitOldPods
           \/ CreateFencedWorkload \/ AdoptWorkload \/ FenceAlreadyLifted \/ RemoveRetiredPod
  BY <1>1 DEF StartPass, RedriveRecoveryPod, ClearRecoveryPod, ActorLost, FenceNodes, AwaitOldPods,
     CreateFencedWorkload, AdoptWorkload, FenceAlreadyLifted, RemoveRetiredPod
<1>2. CASE RetokenNodes \/ CorrectFenced \/ EnableWorkload \/ ClearWorkloadFence \/ SelectRecoveryPod
           \/ SnapshotFails \/ NothingToCorrect \/ PublishCorrection \/ AdvanceRecord
  BY <1>2 DEF RetokenNodes, CorrectFenced, EnableWorkload, ClearWorkloadFence, SelectRecoveryPod,
     SnapshotFails, NothingToCorrect, PublishCorrection, AdvanceRecord
<1>3. CASE RecoverIdle \/ ReleaseActorGate \/ RecoverWaits \/ RedriveOldPod \/ CompleteHandoff \/ ReleaseHandoff
           \/ PublishPool
  BY <1>3 DEF RecoverIdle, ReleaseActorGate, RecoverWaits, RedriveOldPod, CompleteHandoff, ReleaseHandoff, PublishPool
<1>4. CASE ScanWaits \/ SelectCandidate \/ BeginHandoff \/ PersistHandoff \/ CancelHandoff \/ DeleteCandidatePod
  BY <1>4 DEF ScanWaits, SelectCandidate, BeginHandoff, PersistHandoff, CancelHandoff, DeleteCandidatePod
<1>5. ASSUME NEW m \in Member,
             \/ ReconcileStatefulSet(m) \/ UpdateStatusFromGarage(m) \/ FinalizeNode(m)
             \/ CreatePod(m) \/ LateCreate(m) \/ PodStep(m) \/ ClaimGone(m)
             \/ EditNode(m) \/ DeleteNode(m) \/ DeleteClaim(m)
      PROVE  ready' = ready
  BY <1>5 DEF ReconcileStatefulSet, UpdateStatusFromGarage, FinalizeNode, CreatePod, LateCreate, PodStep,
     ClaimGone, EditNode, DeleteNode, DeleteClaim
<1>6. ASSUME NEW h \in Member \cup {0}, DeleteWorkload(h) PROVE ready' = ready
  BY <1>6, DeleteWorkloadForm
<1>7. ASSUME LateCreateLost \/ (\E p \in pods : LosePod(p)) \/ EditCluster \/ EditSecret \/ RequestRecovery \/ Crash
             \/ UNCHANGED vars
      PROVE  ready' = ready
  BY <1>7 DEF LateCreateLost, LosePod, EditCluster, EditSecret, RequestRecovery, Crash, vars
<1> QED
  BY <1>1, <1>2, <1>3, <1>4, <1>5, <1>6, <1>7, NextSplits DEF Worker, Environment

\* What a workload is that has just been created.
LEMMA StartedWorkload ==
  \A u \in 1..MaxUID, r \in Revs :
    LET x == [NoWorkload EXCEPT !.uid = u, !.rev = r, !.ack = <<1, 1>>]
    IN  x \in Workloads /\ x.uid = u /\ x.rev = r /\ x.ack = <<1, 1>>
<1> SUFFICES ASSUME NEW u \in 1..MaxUID, NEW r \in Revs
             PROVE  LET x == [NoWorkload EXCEPT !.uid = u, !.rev = r, !.ack = <<1, 1>>]
                    IN  x \in Workloads /\ x.uid = u /\ x.rev = r /\ x.ack = <<1, 1>>
  OBVIOUS
<1> DEFINE a == <<1, 1>>
           x == [NoWorkload EXCEPT !.uid = u, !.rev = r, !.ack = a]
<1>1. u \in 0..MaxUID /\ a \in Nat \X Nat
  BY Constants
<1>2. x = [uid |-> u, rev |-> r, ack |-> a, fence |-> FALSE]
  <2>1. ASSUME NEW y, y = x PROVE y = [uid |-> u, rev |-> r, ack |-> a, fence |-> FALSE]
    BY <2>1 DEF NoWorkload
  <2> QED
    BY <2>1, Zenon
<1>3. x \in Workloads /\ x.uid = u /\ x.rev = r /\ x.ack = a
  <2> HIDE DEF x, a
  <2> QED
    BY <1>1, <1>2 DEF Workloads
<1> QED
  BY <1>3, Zenon

LEMMA InitIndInv == Init => IndInv
<1> SUFFICES ASSUME Init PROVE IndInv
  OBVIOUS
<1>a. /\ 0 \notin Member /\ Member \subseteq 1..MaxUID /\ Member \subseteq 1..MaxPod /\ Member \subseteq Nat
      /\ Pool \subseteq Member /\ Claimed \subseteq Member /\ (\A m \in Member : m \in Claimed <=> m \notin Pool)
      /\ NoWorkload \in Workloads /\ NoRec \in Records /\ Idle \in Workers
      /\ MaxUID \in Nat /\ MaxPod \in Nat /\ MaxRetired \in Nat
  BY Constants DEF Init, Pool, Claimed
<1>b. Pool # {} => Min(Pool) \in Pool
  BY <1>a, MinIn
<1>c. FirstRev \in Revs /\ \A m \in Member : StartRev(m) \in Revs
  BY DEF FirstRev, StartRev, Revs
<1>d. /\ DOMAIN wl = Member \cup {0} /\ wl = [h \in Member \cup {0} |-> wl[h]]
      /\ \A h \in Claimed : wl[h] = [NoWorkload EXCEPT !.uid = h, !.rev = FirstRev, !.ack = <<1, 1>>]
      /\ Pool # {} => wl[0] = [NoWorkload EXCEPT !.uid = Min(Pool), !.rev = StartRev(Min(Pool)), !.ack = <<1, 1>>]
      /\ \A h \in Member \cup {0} : h \notin Claimed /\ (h # 0 \/ Pool = {}) => wl[h] = NoWorkload
  <2>1. wl = [h \in Member \cup {0} |->
               IF h = 0 /\ Pool # {} THEN [NoWorkload EXCEPT !.uid = Min(Pool), !.rev = StartRev(Min(Pool)), !.ack = <<1, 1>>]
               ELSE IF h \in Claimed THEN [NoWorkload EXCEPT !.uid = h, !.rev = FirstRev, !.ack = <<1, 1>>]
               ELSE NoWorkload]
    BY DEF Init
  <2>2. DOMAIN wl = Member \cup {0} /\ wl = [h \in Member \cup {0} |-> wl[h]]
    BY <2>1, Zenon
  <2>3. ASSUME NEW h \in Claimed
        PROVE  wl[h] = [NoWorkload EXCEPT !.uid = h, !.rev = FirstRev, !.ack = <<1, 1>>]
    <3>1. h # 0 /\ h \in Member \cup {0}
      BY <1>a
    <3> QED
      BY <2>1, <3>1, Zenon
  <2>4. ASSUME Pool # {}
        PROVE  wl[0] = [NoWorkload EXCEPT !.uid = Min(Pool), !.rev = StartRev(Min(Pool)), !.ack = <<1, 1>>]
    BY <2>1, <2>4, Zenon
  <2>5. ASSUME NEW h \in Member \cup {0}, h \notin Claimed, h # 0 \/ Pool = {} PROVE wl[h] = NoWorkload
    BY <2>1, <2>5, Zenon
  <2> QED
    BY <2>2, <2>3, <2>4, <2>5
<1>e. Pool # {} => wl[0] \in Workloads /\ wl[0].uid = Min(Pool) /\ wl[0].rev = StartRev(Min(Pool))
  <2> SUFFICES ASSUME Pool # {} PROVE wl[0] \in Workloads /\ wl[0].uid = Min(Pool) /\ wl[0].rev = StartRev(Min(Pool))
    OBVIOUS
  <2>1. Min(Pool) \in 1..MaxUID /\ StartRev(Min(Pool)) \in Revs
    BY <1>a, <1>b, <1>c
  <2>2. wl[0] = [NoWorkload EXCEPT !.uid = Min(Pool), !.rev = StartRev(Min(Pool)), !.ack = <<1, 1>>]
    BY <1>d, Zenon
  <2> QED
    BY <2>1, <2>2, StartedWorkload, Zenon
<1>f. \A h \in Claimed : wl[h] \in Workloads /\ wl[h].uid = h /\ wl[h].rev = FirstRev /\ wl[h].ack = <<1, 1>>
  <2> SUFFICES ASSUME NEW h \in Claimed
               PROVE  wl[h] \in Workloads /\ wl[h].uid = h /\ wl[h].rev = FirstRev /\ wl[h].ack = <<1, 1>>
    OBVIOUS
  <2>1. h \in 1..MaxUID /\ FirstRev \in Revs
    BY <1>a, <1>c
  <2>2. wl[h] = [NoWorkload EXCEPT !.uid = h, !.rev = FirstRev, !.ack = <<1, 1>>]
    BY <1>d, Zenon
  <2>3. LET x == [NoWorkload EXCEPT !.uid = h, !.rev = FirstRev, !.ack = <<1, 1>>]
        IN  x \in Workloads /\ x.uid = h /\ x.rev = FirstRev /\ x.ack = <<1, 1>>
    BY <2>1, StartedWorkload, Zenon
  <2> QED
    BY <2>2, <2>3, Zenon
<1>g. wl \in [Member \cup {0} -> Workloads]
  <2>1. \A h \in Member \cup {0} : wl[h] \in Workloads
    BY <1>a, <1>d, <1>e, <1>f
  <2> QED
    BY <1>d, <2>1
<1>h. \A m \in Member : /\ wl[Home(m)].uid \in 1..MaxUID /\ wl[Home(m)].rev \in config
                         /\ Home(m) = IF m \in Pool THEN 0 ELSE m
  <2>1. config = {StartRev(m) : m \in Member}
    BY DEF Init
  <2>2. ASSUME NEW m \in Pool PROVE wl[0].uid \in 1..MaxUID /\ wl[0].rev \in config
    <3>1. wl[0].uid = Min(Pool) /\ wl[0].rev = StartRev(Min(Pool)) /\ Min(Pool) \in Member
      BY <1>a, <1>b, <1>e, <2>2
    <3> QED
      BY <1>a, <2>1, <3>1
  <2>3. ASSUME NEW m \in Claimed PROVE wl[m].uid \in 1..MaxUID /\ wl[m].rev \in config
    <3>1. wl[m].uid = m /\ wl[m].rev = FirstRev /\ m \in Member
      BY <1>a, <1>f, <2>3
    <3>2. FirstRev = StartRev(m)
      BY <1>a, <2>3 DEF StartRev
    <3> QED
      BY <1>a, <2>1, <3>1, <3>2
  <2> QED
    BY <1>a, <2>2, <2>3 DEF Home
<1>i. \A p \in pods : p \in Pods /\ p.uid = p.m /\ p.st = "ready" /\ p.rev \in config
  <2>1. ASSUME NEW m \in Member
        PROVE  [m |-> m, uid |-> m, own |-> wl[Home(m)].uid, rev |-> StartRev(m), disk |-> 1, st |-> "ready"] \in Pods
    BY <1>a, <1>c, <1>h DEF Pods, PodStates
  <2>2. /\ pods = {[m |-> m, uid |-> m, own |-> wl[Home(m)].uid, rev |-> StartRev(m), disk |-> 1, st |-> "ready"] : m \in Member}
        /\ config = {StartRev(m) : m \in Member}
    BY DEF Init
  <2> QED
    BY <2>1, <2>2
<1>j. rec = NoRec /\ w = Idle /\ down = {} /\ ghost = {} /\ NoRec.m = 0 /\ NoRec.prev = 0 /\ NoRec.retired = {}
      /\ Idle.pc = "idle" /\ Idle.cand = NoRec /\ NoWorkload.uid = NoUID
  BY DEF Init, NoRec, Idle, NoWorkload
<1>1. Typed
  <2>0. /\ gn = [m \in Member |-> [gen |-> 1, st |-> "live"]] /\ seen = [m \in Member |-> [pod |-> m, gen |-> 1]]
        /\ pvc = [m \in Member |-> [uid |-> 1, prot |-> FALSE, del |-> FALSE]]
        /\ label = [m \in Member |-> IF m \in Pool THEN wl[0].uid ELSE NoUID]
        /\ in = [gen |-> 1, nonce |-> 0, ext |-> 0] /\ scene \in Scenes /\ marker = "none"
    BY Zenon DEF Init
  <2>1. gn \in [Member -> GarageNodes] /\ pvc \in [Member -> Claims]
    BY <2>0 DEF GarageNodes, Claims
  <2>2. seen \in [Member -> Observations]
    <3>1. \A m \in Member : [pod |-> m, gen |-> 1] \in Observations
      BY <1>a DEF Observations
    <3> QED
      BY <2>0, <3>1
  <2>3. label \in [Member -> 0..MaxUID]
    <3>1. wl[0].uid \in 0..MaxUID /\ NoUID \in 0..MaxUID
      BY <1>a, <1>g DEF Workloads, NoUID
    <3> QED
      BY <2>0, <3>1
  <2>4. in \in [gen : Nat, nonce : Nat, ext : Nat]
    BY <2>0
  <2> QED
    BY <1>a, <1>g, <1>i, <1>j, <2>0, <2>1, <2>2, <2>3, <2>4 DEF Typed
<1>2. RecordKnown /\ RecheckIsFirst /\ OneOutage
  BY <1>a, <1>j DEF RecordKnown, RecheckIsFirst, OneOutage
<1>3. PodsAreOne /\ OldPodIsOpen /\ DownIsDown
  <2>1. \A p, q \in pods : p.m = q.m => p = q
    <3>1. \A p \in pods : \E m \in Member :
            p = [m |-> m, uid |-> m, own |-> wl[Home(m)].uid, rev |-> StartRev(m), disk |-> 1, st |-> "ready"]
      BY DEF Init
    <3> QED
      BY <3>1
  <2> QED
    BY <1>i, <1>j, <2>1 DEF PodsAreOne, OldPodIsOpen, DownIsDown
<1>4. ClaimIsKept
  BY <1>a, <1>j DEF ClaimIsKept
<1>5. WorkloadsDiffer
  <2>1. \A h \in Member \cup {0} :
          wl[h] = NoWorkload \/ (h \in Claimed /\ wl[h].uid = h) \/ (h = 0 /\ Pool # {} /\ wl[h].uid = Min(Pool))
    BY <1>d, <1>e, <1>f
  <2>2. \A h \in Member \cup {0} : wl[h] = NoWorkload <=> wl[h].uid = NoUID
    BY <1>a, <1>b, <1>j, <2>1 DEF NoUID
  <2>3. ASSUME NEW h \in Member \cup {0}, NEW k \in Member \cup {0}, wl[h].uid = wl[k].uid
        PROVE  h = k \/ wl[h] = NoWorkload
    <3> SUFFICES ASSUME wl[h] # NoWorkload, wl[k] # NoWorkload PROVE h = k
      BY <2>2, <2>3, Zenon
    <3>1. (h \in Claimed /\ wl[h].uid = h) \/ (h = 0 /\ Pool # {} /\ wl[h].uid = Min(Pool))
      BY <2>1, Zenon
    <3>2. (k \in Claimed /\ wl[k].uid = k) \/ (k = 0 /\ Pool # {} /\ wl[k].uid = Min(Pool))
      BY <2>1, Zenon
    <3>3. Pool # {} => Min(Pool) \notin Claimed
      BY <1>a, <1>b
    <3> QED
      BY <2>3, <3>1, <3>2, <3>3, Zenon
  <2> QED
    BY <1>j, <2>2, <2>3 DEF WorkloadsDiffer
<1>6. RetiredFits
  BY <1>a, <1>j, FS_EmptySet DEF RetiredFits
<1>7. TemplatesExist
  <2>1. \A h \in Member \cup {0} : wl[h].uid # NoUID => \E m \in Member : h = Home(m)
    <3> SUFFICES ASSUME NEW h \in Member \cup {0}, wl[h].uid # NoUID PROVE \E m \in Member : h = Home(m)
      OBVIOUS
    <3>1. wl[h] # NoWorkload
      BY <1>j
    <3>2. h \in Claimed \/ (h = 0 /\ Pool # {})
      BY <1>d, <3>1, Zenon
    <3>3. CASE h \in Claimed
      BY <1>a, <1>h, <3>3
    <3>4. CASE h = 0 /\ Pool # {}
      BY <1>a, <1>h, <3>4
    <3> QED
      BY <3>2, <3>3, <3>4
  <2> QED
    BY <1>h, <2>1 DEF TemplatesExist
<1>8. MountedConfigExists
  BY <1>i DEF MountedConfigExists
<1>9. Acknowledged
  <2>1. \A m \in Claimed : wl[m].ack = <<1, 1>> /\ wl[m].rev = FirstRev
    BY <1>f
  <2>2. FirstRev.c = 1 /\ FirstRev.n = 1
    BY DEF FirstRev
  <2> QED
    BY <1>j, <2>1, <2>2 DEF Acknowledged
<1> QED
  BY <1>1, <1>2, <1>3, <1>4, <1>5, <1>6, <1>7, <1>8, <1>9 DEF IndInv

LEMMA NextIndInv == IndInv /\ [Next]_vars => IndInv'
BY NextTyped, NextRecordKnown, NextPodsAreOne, NextOldPodIsOpen, NextDownIsDown, PodChange, NextRecheckIsFirst, NextOneOutage,
   NextClaimIsKept, NextWorkloadsDiffer, NextRetiredFits, NextTemplatesExist, NextMountedConfig, NextAcknowledged
   DEF IndInv

LEMMA IndInvHolds == Spec => []IndInv
<1>1. IndInv /\ [Next]_vars => IndInv'
  BY NextIndInv
<1> QED
  BY <1>1, InitIndInv, PTL DEF Spec

\* The operator has at most one member stopped, the one whose handoff is durable, whatever is edited, lost or
\* restarted meanwhile (storage_rollout.go, node_local_pool_rollout.go).
THEOREM OutagesAreSingle == Spec => []OneOutage
<1>1. IndInv => OneOutage
  BY DEF IndInv
<1> QED
  BY <1>1, IndInvHolds, PTL

\* A replacement runs on the claim of its predecessor and with the configuration of its template, its record has
\* room for the workloads it retired, and no incarnation is taken for another
\* (protectStorageRolloutPersistentVolumeClaims, cleanupObsoleteGarageConfigResources).
THEOREM ReplacementsAreSound == Spec => []ReplacementIsSound
<1>1. IndInv => ReplacementIsSound
  <2> SUFFICES ASSUME IndInv PROVE ReplacementIsSound
    OBVIOUS
  <2>1. w.pc \in Steps /\ DOMAIN wl = Member \cup {0} /\ \A m \in Pool : label[m] \in 0..MaxUID
    BY HomeIn DEF IndInv, Typed, Workers
  <2>2. TypeOK
    BY <2>1 DEF IndInv, Typed, PodsAreOne, WorkloadsDiffer, RetiredFits, TypeOK
  <2>3. SameDisk
    BY DEF IndInv, ClaimIsKept, SameDisk
  <2> QED
    BY <2>2, <2>3 DEF IndInv, ReplacementIsSound
<1> QED
  BY <1>1, IndInvHolds, PTL

\* StorageRolloutReady becomes True for a generation only when every live member runs a Ready Pod of that
\* generation and of its GarageNode's (reconcileNodeLocalPoolRollout, the scan).
THEOREM ReadinessIsHonest == Spec => ReadyIsHonest
<1> DEFINE Honest ==
      \A m \in Member : gn[m].st = "live" =>
        \E p \in pods : p.m = m /\ p.st = "ready" /\ p.rev.c = ready' /\ (m \in Claimed => p.rev.n = gn[m].gen)
<1>1. ASSUME IndInv, [Next]_vars, ready' # ready, NEW m \in Member, gn[m].st = "live"
      PROVE  \E p \in pods : p.m = m /\ p.st = "ready" /\ p.rev.c = ready' /\ (m \in Claimed => p.rev.n = gn[m].gen)
  <2>1. Converged
    BY <1>1, ReadyChange DEF IndInv
  <2>2. m \in Scanned /\ m \notin Outdated
    BY <1>1, <2>1 DEF Converged, Scanned, Exists
  <2>3. PICK p \in pods : ObservedReady(m, p) /\ Publication(m)
    BY <2>1, <2>2 DEF Converged, Settled
  <2>4. p.m = m /\ p.st = "ready" /\ p.rev = wl[Home(m)].rev /\ wl[Home(m)].uid # NoUID
    BY <2>2, <2>3 DEF ObservedReady, Outdated, Current, Of, Publication
  <2>5. ready' = w.gen /\ w.pc = "scan"
    BY <2>1 DEF Converged, Scanning
  <2>6. CASE m \in Pool
    <3>1. wl[0].rev.c = w.gen
      BY <1>1, <2>4, <2>5, <2>6 DEF IndInv, Acknowledged, Home
    <3> QED
      BY <2>4, <2>5, <2>6, <3>1 DEF Home, Claimed
  <2>7. CASE m \in Claimed
    <3>1. Home(m) = m /\ wl[m].ack = <<w.gen, gn[m].gen>>
      BY <2>3, <2>7 DEF Publication, Home, Claimed
    <3>2. wl[m].ack = <<wl[m].rev.c, wl[m].rev.n>>
      BY <1>1, <2>4, <2>7, <3>1 DEF IndInv, Acknowledged
    <3>3. wl[m].rev.c = w.gen /\ wl[m].rev.n = gn[m].gen
      BY <3>1, <3>2
    <3> QED
      BY <2>4, <2>5, <3>1, <3>3
  <2> QED
    BY <2>6, <2>7 DEF Claimed
<1>2. IndInv /\ [Next]_vars => [ready' # ready => Honest]_vars
  BY <1>1
<1> HIDE DEF Honest
<1>3. Spec => [][ready' # ready => Honest]_vars
  BY <1>2, IndInvHolds, PTL DEF Spec
<1> QED
  BY <1>3 DEF ReadyIsHonest, Honest
=============================================================================
