--------------------------- MODULE StorageRollout ---------------------------
(***************************************************************************)
(* The managed-Pod rollout of a GarageCluster.  Every workload uses the    *)
(* OnDelete strategy, so a new revision reaches a process only when the    *)
(* operator deletes its Pod.  The operator does so for one member at a     *)
(* time and keeps the handoff in status.storageRollout: the member, the    *)
(* exact incarnations of its Pod, workload and claims, and the revision    *)
(* the replacement must run.  A handoff survives manager restarts, a       *)
(* replacement that never becomes Ready (a corrected spec or a recovery    *)
(* nonce rolls the same member forward) and the loss of the workload (the  *)
(* replacement is created behind a fence, adopted into the record and only *)
(* then enabled).                                                          *)
(*                                                                         *)
(* A member is a GarageNode.  The members of scene.pool share a DaemonSet, *)
(* workload 0, and a HostPath each; every other member has a StatefulSet   *)
(* and a claim of its own.  A revision is what the hashes are taken from:  *)
(* the generation of the GarageCluster, that of the GarageNode and the     *)
(* referenced Secrets.  Layout history is taken to be settled throughout:  *)
(* LayoutMutation is about the writers the handoff excludes.               *)
(***************************************************************************)
EXTENDS Naturals, FiniteSets, FiniteSetsExt

CONSTANTS
  Member,              \* GarageNodes, numbered in the order of the scan
  Scenes,              \* what a behaviour starts from and how often each event may happen
  MaxRetired,          \* maximumStorageRolloutRetiredWorkloadUIDs
  MaxUID, MaxPod       \* bounds: workload and Pod incarnations remembered at one time

ASSUME StorageRolloutAssumption ==
  /\ {MaxRetired, MaxUID, MaxPod} \subseteq Nat
  /\ Member \subseteq (1..MaxUID) \cap (1..MaxPod)      \* the incarnations a behaviour starts with
  /\ \A x \in Scenes : x.pool \subseteq Member /\ x.wipe \in BOOLEAN

VARIABLES
  scene,    \* pool: members of the DaemonSet; bad: revisions that never start; wipe: whenDeleted=Delete; frail: workloads that may be lost; b, max: budgets
  in,       \* gen, nonce: of the GarageCluster; ext: the version of the referenced Secrets
  gn,       \* per member: the GarageNode
  seen,     \* per member: status.observedPodUid and status.observedGeneration
  wl,       \* per workload: uid, template revision, acknowledged generations, adoption fence
  ghost,    \* deleted workloads whose controller has one create left
  pods,     \* the managed Pods
  label,    \* per pool member: the activation token on its Node, which is the DaemonSet's UID
  pvc,      \* per member: the claim
  rec,      \* status.storageRollout
  ready,    \* the generation StorageRolloutReady=True was last set for
  marker,   \* the coordinator's in-memory marker
  w,        \* the reconcile of the GarageCluster under way
  config,   \* the revisions whose configuration resource exists
  down,     \* history: members the operator stopped and that have not been Ready since
  spent     \* what the budgets count

vars == <<scene, in, gn, seen, wl, ghost, pods, label, pvc, rec, ready, marker, w, config, down, spent>>
kube == <<gn, seen, ghost>>
user == <<scene, in, spent>>

Pool == scene.pool
Home(m) == IF m \in Pool THEN 0 ELSE m
Claimed == Member \ Pool
NoUID == 0
NoRec == [m |-> 0, prev |-> 0, own |-> 0, rev |-> [c |-> 0, n |-> 0, e |-> 0], c |-> 0, n |-> 0, req |-> 0, disk |-> 0,
          safe |-> FALSE, fenced |-> FALSE, retired |-> {}, rpod |-> 0]
NoWorkload == [uid |-> NoUID, rev |-> NoRec.rev, ack |-> <<0, 0>>, fence |-> FALSE]
Idle == [pc |-> "idle", gen |-> 0, nonce |-> 0, cand |-> NoRec]
Good(rev) == rev \notin scene.bad

Rendered(m, g) == [c |-> g, n |-> IF m \in Pool THEN 0 ELSE gn[m].gen, e |-> in.ext]
Exists(m) == gn[m].st # "gone"
Of(m) == {p \in pods : p.m = m}
Mounted(p) == p.st \in {"run", "ready", "dying"}
Alive(p) == p.st # "dying"
Up(m) == \E p \in Of(m) : p.st = "ready"
Healthy == \A m \in Member : Exists(m) => Up(m)

WorkloadUIDs == {wl[h].uid : h \in DOMAIN wl} \cup {p.own : p \in pods} \cup {g.uid : g \in ghost}
                  \cup {rec.own, w.cand.own} \cup rec.retired
PodUIDs == {p.uid : p \in pods} \cup {seen[m].pod : m \in Member} \cup {rec.prev, rec.rpod, w.cand.prev}
\* Within the bounds, a new incarnation waits until an earlier one is remembered no more.
UnseenUIDs == 1..MaxUID \ WorkloadUIDs
UnseenPods == 1..MaxPod \ PodUIDs
FreshUID == Min(UnseenUIDs)
FreshPod == Min(UnseenPods)

Spend(k) == /\ spent[k] < scene.b[k] /\ MapThenSumSet(LAMBDA j : spent[j], DOMAIN spent) < scene.max
            /\ spent' = [spent EXCEPT ![k] = @ + 1]
Goto(pc) == w' = [w EXCEPT !.pc = pc]
Stop == w' = Idle
\* A status write adopts the object it read, generation and annotations included.
Adopt(pc) == w' = [w EXCEPT !.pc = pc, !.gen = in.gen, !.nonce = in.nonce]
\* A Pod that was never scheduled goes at once, any other has a grace period.
Dying(p) == pods' = (pods \ {p}) \cup {[q EXCEPT !.st = "dying"] : q \in {p} \cap {r \in pods : Mounted(r)}}
Kill(p) == /\ Dying(p)
           /\ down' = down \cup {p.m}

-----------------------------------------------------------------------------
(* Evidence: a member counts when the Pod of its current workload is Ready *)
(* and is the one its GarageNode has observed, at its generation.          *)

ObservedReady(m, p) ==
  /\ p.m = m /\ p.st = "ready" /\ p.own = wl[Home(m)].uid
  /\ seen[m].pod = p.uid /\ seen[m].gen >= gn[m].gen

ClaimHeld(r) == r.m \in Claimed => pvc[r.m].uid = r.disk /\ ~pvc[r.m].del /\ pvc[r.m].prot
ActorIdentity(r) == Exists(r.m) /\ ClaimHeld(r)
CurrentPod(r) == {p \in Of(r.m) : Alive(p) \/ \A q \in Of(r.m) : ~Alive(q)}
ActorSnapshot(r) ==
  /\ ActorIdentity(r) /\ gn[r.m].st = "live"
  /\ wl[Home(r.m)].uid = r.own /\ ~wl[Home(r.m)].fence
  /\ wl[Home(r.m)].rev \in config
  /\ r.m \in Pool => label[r.m] = r.own
  /\ \A p \in Of(r.m) : p.own = r.own
  /\ Cardinality({p \in Of(r.m) : Alive(p)}) <= 1
StaleReplacement(r, rev) == {p \in CurrentPod(r) : Alive(p) /\ p.uid # r.prev /\ p.rev # rev}
Requested(r) == w.gen # r.c \/ gn[r.m].gen # r.n \/ (w.nonce # 0 /\ w.nonce # r.req)
Group(r) == UNION {Of(m) : m \in IF r.m \in Pool THEN Pool ELSE {r.m}}

Publish(m, g, fence) ==
  /\ wl[Home(m)].uid = NoUID => UnseenUIDs # {}
  /\ wl' = [wl EXCEPT ![Home(m)] = [uid |-> IF @.uid = NoUID THEN FreshUID ELSE @.uid, rev |-> Rendered(m, g),
                                    ack |-> <<g, gn[m].gen>>, fence |-> fence]]
  /\ config' = config \cup {Rendered(m, g)}

-----------------------------------------------------------------------------
(* One reconcile: the marker is rehydrated, then a persisted handoff is    *)
(* rolled forward and recovered before anything is rendered.               *)

StartPass ==
  /\ w.pc = "idle"
  /\ w' = [pc |-> IF rec = NoRec THEN "recover" ELSE "forward", gen |-> in.gen, nonce |-> in.nonce, cand |-> NoRec]
  /\ marker' = IF rec = NoRec THEN marker ELSE "confirmed"
  /\ UNCHANGED <<kube, user, wl, pods, label, pvc, rec, ready, config, down>>

(* redriveStorageRolloutRecoveryPod: only the Pod recorded before, of the  *)
(* recorded workload, scheduled on the actor's Node.                       *)
RecoveryPod(r) == {p \in Of(r.m) : p.uid = r.rpod}
Redrivable(r, p) ==
  /\ p.own = r.own /\ ActorSnapshot(r) /\ wl[Home(r.m)].rev = r.rev
  /\ r.m \in Pool => Mounted(p)

Redriving == rec.rpod # NoUID /\ w.pc \in {"forward", "redrive"}
RedriveRecoveryPod ==
  /\ Redriving
  /\ \E p \in RecoveryPod(rec) :
       \/ /\ Alive(p) /\ Redrivable(rec, p)
          /\ Kill(p) /\ Goto("recover")
       \/ /\ ~Alive(p) /\ p.own = rec.own
          /\ Goto("recover") /\ UNCHANGED <<pods, down>>
       \/ /\ p.own # rec.own \/ (Alive(p) /\ ~Redrivable(rec, p))
          /\ Stop /\ UNCHANGED <<pods, down>>
  /\ UNCHANGED <<kube, user, wl, label, pvc, rec, ready, marker, config>>

ClearRecoveryPod ==
  /\ Redriving /\ RecoveryPod(rec) = {}
  /\ rec' = [rec EXCEPT !.rpod = NoUID]
  /\ Adopt("recover")
  /\ UNCHANGED <<kube, user, wl, pods, label, pvc, ready, marker, config, down>>

-----------------------------------------------------------------------------
(* ensureStorageRolloutWorkload: the workload is the recorded one, or is   *)
(* missing, or is the fenced replacement of an earlier attempt.            *)

Forward == w.pc = "forward" /\ rec # NoRec /\ rec.rpod = NoUID
SameWorkload == wl[Home(rec.m)].uid = rec.own
Replaceable == ~SameWorkload /\ (wl[Home(rec.m)].uid = NoUID \/ wl[Home(rec.m)].fence)
Unrecorded(r) == {p \in Group(r) : p.own \notin r.retired \cup {r.own}}

ActorLost ==
  /\ Forward
  /\ ~ActorIdentity(rec) \/ (~SameWorkload /\ ~Replaceable)
  /\ Stop /\ UNCHANGED <<kube, user, wl, pods, label, pvc, rec, ready, marker, config, down>>

FenceNodes ==
  /\ Forward /\ ActorIdentity(rec) /\ Replaceable /\ rec.m \in Pool
  /\ \E m \in Pool : label[m] # NoUID
  /\ label' = [m \in Member |-> IF m \in Pool THEN NoUID ELSE label[m]]
  /\ UNCHANGED <<kube, user, wl, pods, pvc, rec, ready, marker, w, config, down>>

OldPodsGone(r) == Group(r) = {}

ReadyToReplace ==
  /\ Forward /\ ActorIdentity(rec) /\ Replaceable
  /\ rec.m \in Pool => \A m \in Pool : label[m] = NoUID
AwaitOldPods ==
  /\ ReadyToReplace /\ ~OldPodsGone(rec)
  /\ IF rec.m \in Pool /\ Unrecorded(rec) = {} THEN Goto("recover") ELSE Stop
  /\ UNCHANGED <<kube, user, wl, pods, label, pvc, rec, ready, marker, config, down>>

MayReplace(r) == (r.m \in Claimed => r.safe) /\ Cardinality(r.retired \cup {r.own}) <= MaxRetired
CreateFencedWorkload ==
  /\ ReadyToReplace /\ OldPodsGone(rec)
  /\ \/ /\ MayReplace(rec)
        /\ Publish(rec.m, w.gen, TRUE) /\ Goto("adopt")
     \/ ~MayReplace(rec) /\ Stop /\ UNCHANGED <<wl, config>>
  /\ UNCHANGED <<kube, user, pods, label, pvc, rec, ready, marker, down>>

Adoptable ==
  /\ in.gen = w.gen /\ in.nonce = w.nonce /\ ActorIdentity(rec) /\ gn[rec.m].gen = wl[Home(rec.m)].ack[2]
  /\ wl[Home(rec.m)].uid # NoUID /\ wl[Home(rec.m)].fence /\ Group(rec) = {}
AdoptWorkload ==
  /\ w.pc = "adopt"
  /\ \/ /\ Adoptable
        /\ rec' = [rec EXCEPT !.own = wl[Home(rec.m)].uid, !.retired = @ \cup {rec.own}, !.fenced = TRUE,
                              !.rev = wl[Home(rec.m)].rev, !.c = w.gen, !.n = gn[rec.m].gen, !.req = w.nonce, !.rpod = NoUID]
        /\ Goto("recover")
     \/ ~Adoptable /\ Stop /\ UNCHANGED rec
  /\ UNCHANGED <<kube, user, wl, pods, label, pvc, ready, marker, config, down>>

-----------------------------------------------------------------------------
(* unfenceAdoptedStorageRolloutWorkload: what is left of the old           *)
(* incarnations goes first; an enabled workload only loses the flag.       *)

Unfencing == Forward /\ ActorIdentity(rec) /\ SameWorkload /\ rec.fenced
Fenced == wl[Home(rec.m)].fence
Left(r) == {p \in Group(r) : p.own # r.own}

FenceAlreadyLifted ==
  /\ Unfencing /\ ~Fenced
  /\ \/ /\ wl[Home(rec.m)].rev = rec.rev /\ Left(rec) = {}
        /\ rec' = [rec EXCEPT !.fenced = FALSE] /\ Adopt("recover")
     \/ /\ wl[Home(rec.m)].rev # rec.rev \/ Left(rec) # {}
        /\ IF wl[Home(rec.m)].rev = rec.rev /\ rec.m \in Pool /\ Unrecorded(rec) = {} THEN Goto("recover") ELSE Stop
        /\ UNCHANGED rec
  /\ UNCHANGED <<kube, user, wl, pods, label, pvc, ready, marker, config, down>>

RemoveRetiredPod ==
  /\ Unfencing /\ Fenced /\ Group(rec) # {}
  /\ LET retired == {p \in Group(rec) : p.own \in rec.retired} IN
     \/ /\ retired # Group(rec) /\ Stop /\ UNCHANGED <<pods, down>>
     \/ /\ retired = Group(rec) /\ rec.m \in Pool
        /\ Goto("recover") /\ UNCHANGED <<pods, down>>
     \/ /\ retired = Group(rec) /\ rec.m \in Claimed
        /\ \E p \in retired : IF Alive(p) THEN Kill(p) ELSE UNCHANGED <<pods, down>>
        /\ Goto("recover")
  /\ UNCHANGED <<kube, user, wl, label, pvc, rec, ready, marker, config>>

RetokenNodes ==
  /\ Unfencing /\ Fenced /\ Group(rec) = {} /\ rec.m \in Pool
  /\ \E m \in Pool : label[m] # rec.own
  /\ label' = [m \in Member |-> IF m \in Pool THEN rec.own ELSE label[m]]
  /\ UNCHANGED <<kube, user, wl, pods, pvc, rec, ready, marker, w, config, down>>

Enableable == Unfencing /\ Fenced /\ Group(rec) = {} /\ (rec.m \in Pool => \A m \in Pool : label[m] = rec.own)

(* A correction that arrives behind the fence is rendered there; the       *)
(* record cannot follow, because the snapshot the update of the record     *)
(* takes demands an enabled workload.                                      *)
CorrectFenced ==
  /\ Enableable /\ Requested(rec)
  /\ Publish(rec.m, w.gen, TRUE) /\ Stop
  /\ UNCHANGED <<kube, user, pods, label, pvc, rec, ready, marker, down>>

EnableWorkload ==
  /\ Enableable /\ ~Requested(rec)
  /\ IF wl[Home(rec.m)].rev = rec.rev /\ wl[Home(rec.m)].rev \in config
       THEN wl' = [wl EXCEPT ![Home(rec.m)].fence = FALSE] /\ Goto("enabled")
       ELSE Stop /\ UNCHANGED wl
  /\ UNCHANGED <<kube, user, pods, label, pvc, rec, ready, marker, config, down>>

ClearWorkloadFence ==
  /\ w.pc = "enabled"
  /\ rec' = [rec EXCEPT !.fenced = FALSE]
  /\ Adopt("recover")
  /\ UNCHANGED <<kube, user, wl, pods, label, pvc, ready, marker, config, down>>

-----------------------------------------------------------------------------
(* rollForwardStorageRollout proper: a replacement of an older revision is *)
(* recorded and then removed; a correction is rendered for the actor only, *)
(* and the record moves to it.                                             *)

Rolling == Forward /\ ActorIdentity(rec) /\ SameWorkload /\ ~rec.fenced

SelectRecoveryPod ==
  /\ Rolling \/ w.pc = "select"
  /\ ActorSnapshot(rec)
  /\ \E p \in StaleReplacement(rec, rec.rev) :
       /\ rec' = [rec EXCEPT !.rpod = p.uid]
       /\ Adopt("redrive")
  /\ UNCHANGED <<kube, user, wl, pods, label, pvc, ready, marker, config, down>>

SnapshotFails ==
  /\ \/ Rolling /\ ~ActorSnapshot(rec)
     \/ w.pc = "select" /\ (~ActorSnapshot(rec) \/ StaleReplacement(rec, rec.rev) = {})
  /\ Stop /\ UNCHANGED <<kube, user, wl, pods, label, pvc, rec, ready, marker, config, down>>

NothingToCorrect ==
  /\ Rolling /\ ActorSnapshot(rec) /\ StaleReplacement(rec, rec.rev) = {} /\ ~Requested(rec)
  /\ Goto("recover")
  /\ UNCHANGED <<kube, user, wl, pods, label, pvc, rec, ready, marker, config, down>>

PublishCorrection ==
  /\ Rolling /\ ActorSnapshot(rec) /\ StaleReplacement(rec, rec.rev) = {} /\ Requested(rec)
  /\ Publish(rec.m, w.gen, FALSE) /\ Goto("advance")
  /\ UNCHANGED <<kube, user, pods, label, pvc, rec, ready, marker, down>>

Advanceable == in.gen = w.gen /\ in.nonce = w.nonce /\ ActorSnapshot(rec) /\ gn[rec.m].gen = wl[Home(rec.m)].ack[2]
\* Mutant: the record follows the correction in its revision only.
AdvanceRevision(r, rev) == [r EXCEPT !.rev = rev]
Advanced(r, rev) ==
  [r EXCEPT !.rev = rev, !.c = w.gen, !.n = gn[r.m].gen, !.rpod = NoUID,
            !.req = IF w.nonce # 0 /\ w.nonce # r.req THEN w.nonce ELSE @]
AdvanceRecord ==
  /\ w.pc = "advance"
  /\ \/ /\ Advanceable
        /\ rec' = Advanced(rec, wl[Home(rec.m)].rev)
        /\ Goto(IF StaleReplacement(rec, wl[Home(rec.m)].rev) = {} THEN "recover" ELSE "select")
     \/ ~Advanceable /\ Stop /\ UNCHANGED rec
  /\ UNCHANGED <<kube, user, wl, pods, label, pvc, ready, marker, config, down>>

-----------------------------------------------------------------------------
(* recoverStorageRollout without a record: the tail of a finished or       *)
(* abandoned handoff is cleaned up.                                        *)

ReleaseAllClaims == pvc' = [m \in Member |-> [pvc[m] EXCEPT !.prot = FALSE]]
RecoverIdle ==
  /\ w.pc = "recover" /\ rec = NoRec
  /\ ReleaseAllClaims /\ marker' = "none" /\ Goto("publish")
  /\ UNCHANGED <<kube, user, wl, pods, label, rec, ready, config, down>>

(* recoverNodeLocalPoolRolloutExclusion: the actor's gate, its incarnation *)
(* and then one matched Pod per member.                                    *)

Recovering == w.pc = "recover" /\ rec # NoRec
GatedActor == {p \in Of(rec.m) : p.st = "gated" /\ p.own = wl[0].uid}
OtherPodsOnNode(p) == {q \in Of(p.m) \ {p} : q.st # "gated"}
GateReleasable(p) ==
  /\ w.gen = rec.c /\ ActorSnapshot(rec) /\ gn[rec.m].gen = rec.n /\ wl[0].rev = rec.rev
  /\ p \in CurrentPod(rec) /\ p.uid # rec.prev /\ p.rev = rec.rev /\ OtherPodsOnNode(p) = {}
ReleaseActorGate ==
  /\ Recovering /\ rec.m \in Pool /\ wl[0].uid = rec.own /\ GatedActor # {}
  /\ pods' = {IF p \in GatedActor /\ GateReleasable(p) THEN [p EXCEPT !.st = "open"] ELSE p : p \in pods}
  /\ Stop
  /\ UNCHANGED <<kube, user, wl, label, pvc, rec, ready, marker, config, down>>

GateSettled == Recovering /\ (rec.m \in Pool => wl[0].uid = rec.own /\ GatedActor = {})
SameActor == ActorIdentity(rec) /\ SameWorkload
ForeignPod == \E m \in Claimed, p \in pods : p.m = m /\ Exists(m) /\ wl[m].uid # NoUID /\ p.own # wl[m].uid
OldPod == {p \in Of(rec.m) : p.uid = rec.prev}
OldPodLive == {p \in OldPod : Alive(p)}
OthersReady == \A m \in Member \ {rec.m} : Exists(m) => \E p \in pods : ObservedReady(m, p)
ReplacementReady == \E p \in pods : ObservedReady(rec.m, p) /\ p.uid # rec.prev /\ p.rev = rec.rev
CanCheck == GateSettled /\ SameActor /\ ~ForeignPod
Redrives == CanCheck /\ gn[rec.m].st = "live" /\ OldPodLive # {} /\ OthersReady
\* Mutant: the handoff ends once the old Pod is gone.
CompletesEarly == CanCheck /\ OldPod = {} /\ OthersReady
Completes == CanCheck /\ OldPod = {} /\ OthersReady /\ ReplacementReady /\ Healthy

RecoverWaits ==
  /\ Recovering /\ ~(rec.m \in Pool /\ wl[0].uid = rec.own /\ GatedActor # {})
  /\ ~Redrives /\ ~Completes
  /\ Stop /\ UNCHANGED <<kube, user, wl, pods, label, pvc, rec, ready, marker, config, down>>

RedriveOldPod ==
  /\ Redrives
  /\ \E p \in OldPodLive : Kill(p)
  /\ Stop
  /\ UNCHANGED <<kube, user, wl, label, pvc, rec, ready, marker, config>>

(* clearNodeLocalPoolRolloutExclusion: status first, then the claims, then *)
(* the marker.  A generation that moved on refuses it.                     *)
ClearRecord(pc) ==
  \/ /\ in.gen = w.gen /\ rec' = NoRec
     /\ w' = [w EXCEPT !.pc = pc, !.cand = rec]
  \/ in.gen # w.gen /\ Stop /\ UNCHANGED rec
CompleteHandoff ==
  /\ Completes /\ ClearRecord("release")
  /\ UNCHANGED <<kube, user, wl, pods, label, pvc, ready, marker, config, down>>

ReleaseClaims(r) == pvc' = [m \in Member |-> IF m = r.m /\ pvc[m].uid = r.disk THEN [pvc[m] EXCEPT !.prot = FALSE] ELSE pvc[m]]
ReleaseHandoff ==
  /\ w.pc \in {"release", "cancel"}
  /\ ReleaseClaims(w.cand) /\ marker' = "none"
  /\ IF w.pc = "release" THEN w' = [w EXCEPT !.pc = "publish", !.cand = NoRec] ELSE Stop
  /\ UNCHANGED <<kube, user, wl, pods, label, rec, ready, config, down>>

-----------------------------------------------------------------------------
(* The ordinary pass publishes the pool's template and takes the gates off *)
(* (NodeLocalPool is about that), then looks for the next candidate.       *)

GateAuthorized(p) == p.st = "gated" /\ p.m \in Pool /\ p.own = wl[0].uid /\ label[p.m] = p.own /\ OtherPodsOnNode(p) = {}
PublishPool ==
  /\ w.pc = "publish"
  /\ \/ /\ Pool = {} \/ (wl[0].uid = NoUID /\ \E p \in pods : p.m \in Pool)
        /\ UNCHANGED <<wl, config, pods, label>>
     \/ /\ Pool # {} /\ (wl[0].uid # NoUID \/ ~ \E p \in pods : p.m \in Pool)
        /\ Publish(Min(Pool), w.gen, FALSE)
        /\ label' = [m \in Member |-> IF m \in Pool THEN wl'[0].uid ELSE label[m]]
        /\ pods' = {IF GateAuthorized(p) THEN [p EXCEPT !.st = "open"] ELSE p : p \in pods}
  /\ Goto("scan")
  /\ UNCHANGED <<kube, user, pvc, rec, ready, marker, down>>

(* reconcileNodeLocalPoolRollout.  The members are enumerated and read     *)
(* again under the layout lock; what is read there is what counts.         *)
\* Mutant: the acknowledged generations are not compared.
AnyPublication(m) == wl[Home(m)].uid # NoUID /\ ~wl[Home(m)].fence
Publication(m) ==
  /\ wl[Home(m)].uid # NoUID /\ ~wl[Home(m)].fence /\ wl[Home(m)].rev \in config
  /\ m \in Claimed => wl[m].ack = <<w.gen, gn[m].gen>>
  /\ m \in Pool => label[m] = wl[0].uid
Scanned == {m \in Member : Exists(m) /\ (m \in Pool \/ gn[m].st = "live")}
Settled(m) == Publication(m) /\ (\E p \in pods : ObservedReady(m, p)) /\ \A p \in Of(m) : p.own = wl[Home(m)].uid /\ Alive(p)
Current(m) == \A p \in Of(m) : p.rev = wl[Home(m)].rev
Outdated == {m \in Scanned : ~Current(m)}
Candidate == LET S == IF Outdated \cap Pool # {} THEN Outdated \cap Pool ELSE Outdated IN Min(S)
NoneDeleting == \A m \in Member : gn[m].st # "deleting"
MayTakeDown == NoneDeleting /\ Healthy /\ in.gen = w.gen /\ in.nonce = w.nonce
Scanning == w.pc = "scan"

ScanWaits ==
  /\ Scanning
  /\ (\E m \in Scanned : ~Settled(m)) \/ (Outdated # {} /\ ~MayTakeDown)
  /\ Stop /\ UNCHANGED <<kube, user, wl, pods, label, pvc, rec, ready, marker, config, down>>

(* The record of the candidate as it is read under the lock.               *)
NewRecord(m) ==
  LET p == CHOOSE q \in pods : ObservedReady(m, q) IN
  [NoRec EXCEPT !.m = m, !.prev = p.uid, !.own = wl[Home(m)].uid, !.rev = wl[Home(m)].rev, !.c = w.gen, !.n = gn[m].gen,
                !.req = w.nonce, !.disk = IF m \in Claimed THEN pvc[m].uid ELSE 0, !.safe = m \in Claimed /\ ~scene.wipe]
SelectCandidate ==
  /\ Scanning /\ \A m \in Scanned : Settled(m)
  /\ Outdated # {} /\ MayTakeDown
  /\ \/ /\ ~pvc[Candidate].del
        /\ w' = [w EXCEPT !.pc = "protect", !.cand = NewRecord(Candidate)]
     \/ pvc[Candidate].del /\ Stop
  /\ UNCHANGED <<kube, user, wl, pods, label, pvc, rec, ready, marker, config, down>>

(* Nothing is outdated: the condition, the tail of the last handoff, and   *)
(* the configuration nothing mounts any more.                              *)
Referenced == {p.rev : p \in pods} \cup {wl[h].rev : h \in DOMAIN wl}
Converged ==
  /\ Scanning /\ \A m \in Scanned : Settled(m)
  /\ Outdated = {}
  /\ ready' = w.gen /\ ReleaseAllClaims /\ marker' = "none" /\ config' = config \cap Referenced
  /\ Stop
  /\ UNCHANGED <<kube, user, wl, pods, label, rec, down>>

-----------------------------------------------------------------------------
(* ensureNodeLocalPoolRolloutExclusion: marker, claims, status, marker.    *)

\* Mutant: the claims are protected after the record is published.
ProtectLater(r) == UNCHANGED pvc
ProtectClaims(r) == pvc' = [m \in Member |-> IF m = r.m /\ m \in Claimed THEN [pvc[m] EXCEPT !.prot = TRUE] ELSE pvc[m]]
ClaimUnchanged(r) == r.m \in Claimed => pvc[r.m].uid = r.disk /\ ~pvc[r.m].del
BeginHandoff ==
  /\ w.pc = "protect"
  /\ \/ /\ ClaimUnchanged(w.cand)
        /\ marker' = "provisional" /\ ProtectClaims(w.cand) /\ Goto("persist")
     \/ ~ClaimUnchanged(w.cand) /\ Stop /\ UNCHANGED <<marker, pvc>>
  /\ UNCHANGED <<kube, user, wl, pods, label, rec, ready, config, down>>

PersistHandoff ==
  /\ w.pc = "persist"
  /\ \/ /\ in.gen = w.gen /\ rec = NoRec
        /\ rec' = w.cand /\ marker' = "confirmed" /\ Goto("recheck") /\ UNCHANGED pvc
     \/ /\ in.gen # w.gen \/ rec # NoRec
        /\ ReleaseClaims(w.cand) /\ marker' = "none" /\ Stop /\ UNCHANGED rec
  /\ UNCHANGED <<kube, user, wl, pods, label, ready, config, down>>

(* After the record is durable the candidate is read once more: whatever   *)
(* changed since the scan cancels the handoff.                             *)
StillCandidate(r) ==
  /\ gn[r.m].st = "live" /\ gn[r.m].gen = r.n
  /\ Publication(r.m) /\ wl[Home(r.m)].uid = r.own /\ wl[Home(r.m)].rev = r.rev
  /\ ClaimHeld(r)
  /\ \E p \in pods : ObservedReady(r.m, p) /\ p.uid = r.prev /\ p.rev # r.rev
CancelHandoff ==
  /\ w.pc = "recheck" /\ ~StillCandidate(rec) /\ ClearRecord("cancel")
  /\ UNCHANGED <<kube, user, wl, pods, label, pvc, ready, marker, config, down>>
DeleteCandidatePod ==
  /\ w.pc = "recheck" /\ StillCandidate(rec)
  /\ \E p \in pods : ObservedReady(rec.m, p) /\ p.uid = rec.prev /\ Kill(p)
  /\ Stop
  /\ UNCHANGED <<kube, user, wl, label, pvc, rec, ready, marker, config>>

Worker ==
  \/ StartPass \/ RedriveRecoveryPod \/ ClearRecoveryPod
  \/ ActorLost \/ FenceNodes \/ AwaitOldPods \/ CreateFencedWorkload \/ AdoptWorkload
  \/ FenceAlreadyLifted \/ RemoveRetiredPod \/ RetokenNodes \/ CorrectFenced \/ EnableWorkload \/ ClearWorkloadFence
  \/ SelectRecoveryPod \/ SnapshotFails \/ NothingToCorrect \/ PublishCorrection \/ AdvanceRecord
  \/ RecoverIdle \/ ReleaseActorGate \/ RecoverWaits \/ RedriveOldPod \/ CompleteHandoff \/ ReleaseHandoff
  \/ PublishPool \/ ScanWaits \/ SelectCandidate \/ Converged
  \/ BeginHandoff \/ PersistHandoff \/ CancelHandoff \/ DeleteCandidatePod

-----------------------------------------------------------------------------
(* The GarageNode controller: it renders the StatefulSet of its node while *)
(* no handoff is active, and it reports the Pod it can reach.              *)

Handoff == rec # NoRec \/ marker # "none"
ReconcileStatefulSet(m) ==
  /\ m \in Claimed /\ gn[m].st = "live" /\ ~Handoff
  /\ wl[m].uid = NoUID \/ wl[m].rev # Rendered(m, in.gen) \/ wl[m].ack # <<in.gen, gn[m].gen>>
  /\ Publish(m, in.gen, wl[m].fence)
  /\ UNCHANGED <<kube, user, pods, label, pvc, rec, ready, marker, w, down>>

UpdateStatusFromGarage(m) ==
  /\ gn[m].st = "live"
  /\ (Handoff /\ rec.m # m) => seen[m].gen >= gn[m].gen
  /\ \E p \in Of(m) : /\ p.st = "ready" /\ p.own = wl[Home(m)].uid
                      /\ seen[m] # [pod |-> p.uid, gen |-> gn[m].gen]
                      /\ seen' = [seen EXCEPT ![m] = [pod |-> p.uid, gen |-> gn[m].gen]]
  /\ UNCHANGED <<gn, ghost, user, wl, pods, label, pvc, rec, ready, marker, w, config, down>>

FinalizeNode(m) ==
  /\ gn[m].st = "deleting" /\ ~Handoff
  /\ gn' = [gn EXCEPT ![m].st = "gone"]
  /\ wl' = [wl EXCEPT ![m] = NoWorkload]
  /\ UNCHANGED <<seen, ghost, user, pods, label, pvc, rec, ready, marker, w, config, down>>

-----------------------------------------------------------------------------
(* Kubernetes: a StatefulSet Pod has a fixed name, so there is one; the    *)
(* Pods of a DaemonSet are born behind the scheduling gate.                *)

NewPod(m, own, rev) ==
  /\ UnseenPods # {}
  /\ pods' = pods \cup {[m |-> m, uid |-> FreshPod, own |-> own, rev |-> rev, disk |-> pvc[m].uid,
                         st |-> IF m \in Pool THEN "gated" ELSE "run"]}
CreatePod(m) ==
  /\ Exists(m) /\ wl[Home(m)].uid # NoUID /\ ~wl[Home(m)].fence
  /\ IF m \in Pool THEN label[m] = wl[0].uid /\ ~ \E p \in Of(m) : p.own = wl[0].uid
                   ELSE Of(m) = {} /\ ~pvc[m].del
  /\ NewPod(m, wl[Home(m)].uid, wl[Home(m)].rev)
  /\ UNCHANGED <<kube, user, wl, label, pvc, rec, ready, marker, w, config, down>>
LateCreate(m) ==
  /\ \E g \in ghost :
       /\ g.h = Home(m)
       /\ IF m \in Pool THEN ~ \E p \in Of(m) : p.own = g.uid ELSE Of(m) = {} /\ ~pvc[m].del
       /\ NewPod(m, g.uid, g.rev) /\ ghost' = ghost \ {g}
  /\ UNCHANGED <<gn, seen, user, wl, label, pvc, rec, ready, marker, w, config, down>>
LateCreateLost ==
  /\ \E g \in ghost : ghost' = ghost \ {g}
  /\ UNCHANGED <<gn, seen, user, wl, pods, label, pvc, rec, ready, marker, w, config, down>>

PodStep(m) ==
  /\ \E p \in Of(m) :
       \/ /\ p.st = "open" /\ label[m] = p.own
          /\ pods' = (pods \ {p}) \cup {[p EXCEPT !.st = "run"]} /\ UNCHANGED down
       \/ /\ p.st = "run" /\ Good(p.rev)
          /\ pods' = (pods \ {p}) \cup {[p EXCEPT !.st = "ready"]} /\ down' = down \ {m}
       \/ /\ ~Alive(p)
          /\ pods' = pods \ {p} /\ UNCHANGED down
       \/ /\ Alive(p) /\ p.own # wl[Home(m)].uid      \* garbage collection of an owner that is gone
          /\ Dying(p) /\ UNCHANGED down
  /\ UNCHANGED <<kube, user, wl, label, pvc, rec, ready, marker, w, config>>

ClaimGone(m) ==
  /\ pvc[m].del /\ ~pvc[m].prot /\ ~ \E p \in Of(m) : Mounted(p)
  /\ pvc' = [pvc EXCEPT ![m] = [uid |-> 3 - @.uid, prot |-> FALSE, del |-> FALSE]]
  /\ UNCHANGED <<kube, user, wl, pods, label, rec, ready, marker, w, config, down>>

-----------------------------------------------------------------------------
(* What users and the environment do, as often as the scene allows.        *)

EditCluster ==
  /\ Spend("spec") /\ in' = [in EXCEPT !.gen = @ + 1]
  /\ UNCHANGED <<scene, kube, wl, pods, label, pvc, rec, ready, marker, w, config, down>>
EditSecret ==
  /\ Spend("ext") /\ in' = [in EXCEPT !.ext = @ + 1]
  /\ UNCHANGED <<scene, kube, wl, pods, label, pvc, rec, ready, marker, w, config, down>>
RequestRecovery ==
  /\ Spend("nonce") /\ in' = [in EXCEPT !.nonce = @ + 1]
  /\ UNCHANGED <<scene, kube, wl, pods, label, pvc, rec, ready, marker, w, config, down>>
(* Admission: while a handoff is recorded only its own actor may change,   *)
(* and no GarageNode may be deleted.                                       *)
EditNode(m) ==
  /\ m \in Claimed /\ gn[m].st = "live" /\ (rec = NoRec \/ rec.m = m)
  /\ Spend("node") /\ gn' = [gn EXCEPT ![m].gen = @ + 1]
  /\ UNCHANGED <<scene, in, seen, ghost, wl, pods, label, pvc, rec, ready, marker, w, config, down>>
DeleteNode(m) ==
  /\ m \in Claimed /\ gn[m].st = "live" /\ rec = NoRec
  /\ Spend("del") /\ gn' = [gn EXCEPT ![m].st = "deleting"]
  /\ UNCHANGED <<scene, in, seen, ghost, wl, pods, label, pvc, rec, ready, marker, w, config, down>>
DeleteWorkload(h) ==
  /\ h \in scene.frail /\ wl[h].uid # NoUID /\ Spend("wl")
  /\ ghost' = ghost \cup {[h |-> h, uid |-> wl[h].uid, rev |-> wl[h].rev]}
  /\ wl' = [wl EXCEPT ![h] = NoWorkload]
  /\ pvc' = IF h # 0 /\ scene.wipe THEN [pvc EXCEPT ![h].del = TRUE] ELSE pvc
  /\ UNCHANGED <<scene, in, gn, seen, pods, label, rec, ready, marker, w, config, down>>
LosePod(p) ==
  /\ Alive(p) /\ Spend("pod")
  /\ \/ Dying(p)
     \/ p.st = "ready" /\ pods' = (pods \ {p}) \cup {[p EXCEPT !.st = "run"]}
  /\ UNCHANGED <<scene, in, kube, wl, label, pvc, rec, ready, marker, w, config, down>>
DeleteClaim(m) ==
  /\ m \in Claimed /\ ~pvc[m].prot /\ ~pvc[m].del /\ Spend("pvc")
  /\ pvc' = [pvc EXCEPT ![m].del = TRUE]
  /\ UNCHANGED <<scene, in, kube, wl, pods, label, rec, ready, marker, w, config, down>>
Crash ==
  /\ w.pc # "idle" /\ Spend("crash")
  /\ Stop /\ marker' = "none"
  /\ UNCHANGED <<scene, in, kube, wl, pods, label, pvc, rec, ready, config, down>>

-----------------------------------------------------------------------------
FirstRev == [c |-> 1, n |-> 1, e |-> 0]
StartRev(m) == IF m \in Pool THEN [FirstRev EXCEPT !.n = 0] ELSE FirstRev
Init ==
  /\ scene \in Scenes
  /\ in = [gen |-> 1, nonce |-> 0, ext |-> 0]
  /\ gn = [m \in Member |-> [gen |-> 1, st |-> "live"]]
  /\ seen = [m \in Member |-> [pod |-> m, gen |-> 1]]
  /\ wl = [h \in Member \cup {0} |->
             IF h = 0 /\ Pool # {} THEN [NoWorkload EXCEPT !.uid = Min(Pool), !.rev = StartRev(Min(Pool)), !.ack = <<1, 1>>]
             ELSE IF h \in Claimed THEN [NoWorkload EXCEPT !.uid = h, !.rev = FirstRev, !.ack = <<1, 1>>]
             ELSE NoWorkload]
  /\ ghost = {}
  /\ pods = {[m |-> m, uid |-> m, own |-> wl[Home(m)].uid, rev |-> StartRev(m), disk |-> 1, st |-> "ready"] : m \in Member}
  /\ label = [m \in Member |-> IF m \in Pool THEN wl[0].uid ELSE NoUID]
  /\ pvc = [m \in Member |-> [uid |-> 1, prot |-> FALSE, del |-> FALSE]]
  /\ rec = NoRec /\ ready = 1 /\ marker = "none" /\ w = Idle /\ down = {}
  /\ config = {StartRev(m) : m \in Member}
  /\ spent = [k \in DOMAIN scene.b |-> 0]

Next ==
  \/ Worker
  \/ \E m \in Member : \/ ReconcileStatefulSet(m) \/ UpdateStatusFromGarage(m) \/ FinalizeNode(m)
                       \/ CreatePod(m) \/ LateCreate(m) \/ PodStep(m) \/ ClaimGone(m)
                       \/ EditNode(m) \/ DeleteNode(m) \/ DeleteClaim(m)
  \/ LateCreateLost
  \/ \E h \in DOMAIN wl : DeleteWorkload(h)
  \/ \E p \in pods : LosePod(p)
  \/ EditCluster \/ EditSecret \/ RequestRecovery \/ Crash

Spec == Init /\ [][Next]_vars
FairSpec ==
  /\ Spec
  /\ WF_vars(Worker) /\ WF_vars(LateCreateLost)
  /\ \A m \in Member :
       /\ WF_vars(ReconcileStatefulSet(m)) /\ WF_vars(UpdateStatusFromGarage(m)) /\ WF_vars(FinalizeNode(m))
       /\ WF_vars(CreatePod(m)) /\ WF_vars(PodStep(m)) /\ WF_vars(ClaimGone(m))
-----------------------------------------------------------------------------
Budget == {"spec", "node", "ext", "nonce", "wl", "pod", "crash", "del", "pvc"}
Steps == {"idle", "forward", "redrive", "adopt", "enabled", "select", "advance", "recover", "release", "cancel", "publish",
          "scan", "protect", "persist", "recheck"}

(* Incarnations are never confused, a record has room for the workloads it *)
(* retired, and the deletion of a Pod is remembered by its record.         *)
TypeOK ==
  /\ w.pc \in Steps /\ marker \in {"none", "provisional", "confirmed"}
  /\ \A p, q \in pods : p.uid = q.uid => p = q
  /\ \A h, k \in DOMAIN wl : wl[h].uid = wl[k].uid => h = k \/ wl[h] = NoWorkload
  /\ Cardinality(rec.retired) <= MaxRetired /\ rec.own \notin rec.retired \ {NoUID}
  /\ \A m \in Pool : label[m] \in 0..MaxUID

(* The point of the record: the operator has at most one member stopped,   *)
(* the one whose handoff is durable, whatever is edited, lost or restarted *)
(* meanwhile (storage_rollout.go, node_local_pool_rollout.go).             *)
OneOutage == \A m \in down : rec.m = m \/ gn[m].st # "live"

(* A replacement runs on the claim its predecessor had: the claim of a     *)
(* recorded actor cannot be exchanged under it.                            *)
SameDisk == rec.m \in Claimed => pvc[rec.m].uid = rec.disk

(* A Pod of a workload that exists finds the configuration its template    *)
(* named when it was created.                                              *)
MountedConfigExists == \A p \in pods : p.own = wl[Home(p.m)].uid => p.rev \in config

(* StorageRolloutReady=True for a generation is set only when every member *)
(* runs a Ready Pod of that generation and of its own GarageNode's.        *)
ReadyIsHonest ==
  [][ready' # ready =>
       \A m \in Member : gn[m].st = "live" =>
         \E p \in pods : p.m = m /\ p.st = "ready" /\ p.rev.c = ready' /\ (m \in Claimed => p.rev.n = gn[m].gen)]_vars
(* Progress: once the users rest, the rollout rests too, with every member *)
(* on the newest revision.  What it may rest in instead is named below.    *)
Done ==
  /\ rec = NoRec /\ marker = "none" /\ ready = in.gen
  /\ \A m \in Member : /\ gn[m].st # "deleting" /\ ~pvc[m].prot
                       /\ Exists(m) => \E p \in Of(m) : p.st = "ready" /\ p.rev = Rendered(m, in.gen)
\* The newest revision does not start: the rollout waits on one member for a correction.
BadRevision == \E m \in Member : Exists(m) /\ ~Good(Rendered(m, in.gen))
\* The documented manual cases: the claims or the workload of the actor cannot be replaced safely.
Supervised ==
  rec # NoRec /\ wl[Home(rec.m)].uid # rec.own /\ (~MayReplace(rec) \/ ~ClaimHeld(rec) \/ ~Replaceable)
\* The recorded recovery Pod is still gated, or is of the correction that the record has not followed.
RefusedRedrive == rec.rpod # NoUID /\ \E p \in RecoveryPod(rec) : Alive(p) /\ ~Redrivable(rec, p)
\* A member's claim is being deleted: its Pod is not taken down.
ClaimDeleting == \E m \in Claimed : Exists(m) /\ pvc[m].del
\* A correction arrives while the replacement workload is fenced.
FencedCorrection == rec.fenced /\ Fenced /\ (in.gen # rec.c \/ gn[rec.m].gen # rec.n \/ in.nonce # rec.req)
\* Another member needs the controllers the handoff has stopped.
Bystander ==
  rec # NoRec /\ \E m \in Member \ {rec.m} :
    \/ \E p \in Of(m) : p.st = "gated" \/ (p.st = "run" /\ ~Good(p.rev))
    \/ Exists(m) /\ (wl[Home(m)].uid = NoUID \/ seen[m].gen < gn[m].gen)
    \/ gn[m].st = "deleting" /\ ~ \E p \in pods : ObservedReady(m, p)
\* The actor was deleted before its record was durable and the cancellation was lost.
ActorDeleting == rec # NoRec /\ gn[rec.m].st = "deleting"
\* A Pod restarted by itself on a revision that does not start; the scan waits for it.
BadRestart == rec = NoRec /\ \E p \in pods : p.st = "run" /\ ~Good(p.rev)
Converges ==
  <>[](Done \/ BadRevision \/ Supervised \/ ClaimDeleting \/ RefusedRedrive \/ FencedCorrection \/ Bystander \/ ActorDeleting
       \/ BadRestart)
(* A recovery Pod that was selected is removed: the comment of             *)
(* rollForwardStorageRollout, "Never consume the request and then wait     *)
(* forever on that incarnation".                                           *)
RecoveryPodGoes == rec.rpod # NoUID ~> rec.rpod = NoUID

(* The state is well formed, and a replacement finds the claim of its      *)
(* predecessor and the configuration of its template                       *)
(* (protectStorageRolloutPersistentVolumeClaims,                           *)
(* cleanupObsoleteGarageConfigResources).                                  *)
ReplacementIsSound == TypeOK /\ SameDisk /\ MountedConfigExists
=============================================================================
