----------------------------- MODULE CosiBucket -----------------------------
(***************************************************************************)
(* The COSI driver's Bucket controller.  A COSI Bucket is provisioned      *)
(* through a shadow GarageBucket, in two phases: the shadow is reserved    *)
(* (Pending), a private alias bound to its UID is authorised, the Garage   *)
(* bucket is created under that alias, and only then its ID is handed to   *)
(* the shadow (status first, then annotation and state Bound) and at last  *)
(* to the COSI Bucket's status.  The ordinary GarageBucket controller runs *)
(* on the same shadow: it finalizes what was cancelled and forgets what is *)
(* retained.                                                               *)
(*                                                                         *)
(* There is one COSI Bucket.  An object that is not there has uid 0 and an *)
(* ID that is not recorded is 0.  Alias 0 is the public name and alias u   *)
(* the private one of the shadow with UID u.                               *)
(***************************************************************************)
EXTENDS Naturals, FiniteSets

CONSTANTS
  MaxUID,      \* bound: incarnations of a shadow
  MaxFaults,   \* bound, by scene: crashes, failed calls and interventions from outside
  Loss         \* somebody may delete a bucket or a key in Garage

ASSUME CosiBucketAssumption ==
  MaxUID \in Nat \ {0} /\ (\A s \in DOMAIN MaxFaults : MaxFaults[s] \in Nat) /\ Loss \in BOOLEAN

VARIABLES
  scene,    \* what the behaviour is about: the bucket, an access, legacy accesses
  cluster,  \* the GarageCluster: "Running", "NotReady" or "gone"
  parent,   \* the COSI Bucket
  claim,    \* the BucketClaim: is it bound, is it published as ready
  shadow,   \* the shadow GarageBucket
  garage,   \* the buckets and the aliases in Garage
  bw,       \* the reconcile of the COSI Bucket controller
  scope,    \* does the operator watch the claim's namespace
  faults

cosiBucketVars == <<scene, cluster, parent, claim, shadow, garage, bw, scope, faults>>

Foreign == 1                                 \* a bucket that is not the driver's
BucketId == 1..(MaxUID + 1)
ShadowUID == 0..MaxUID
Pub == 0                                     \* sanitizeBucketName: the name users see
Rsv(uid) == uid                              \* cosiBucketReservationAlias: bound to the shadow's UID
Alias == {Pub} \cup {Rsv(u) : u \in 1..MaxUID}

NoParent == [uid |-> 0, del |-> FALSE, fin |-> FALSE, policy |-> "Delete", id |-> 0, ready |-> FALSE,
             ok |-> TRUE,                    \* the class parameters parse (an older release took more)
             ref |-> TRUE]                   \* they name the cluster: what parses does
NewParent(policy) == [NoParent EXCEPT !.uid = 1, !.policy = policy]

(* ready and alias, the two annotations of an authorised create, are       *)
(* written and cleared together: auth.                                     *)
NoShadow == [uid |-> 0, del |-> FALSE, fin |-> FALSE, state |-> "Pending", auth |-> FALSE,
             ann |-> 0, id |-> 0, retain |-> FALSE, owned |-> FALSE,
             gc |-> FALSE]                   \* deleted with the cluster that owns it
ShadowBucket(uid) == [NoShadow EXCEPT !.uid = uid, !.fin = TRUE]

IdleBucket == [pc |-> "idle", sh |-> NoShadow, id |-> 0, know |-> 0, del |-> FALSE]

-----------------------------------------------------------------------------
(* The Admin API.                                                          *)

Live(g, id) == id # 0 /\ g.bucket[id] = "live"
CreateBucket(g, id, alias) == [g EXCEPT !.bucket[id] = "live", !.alias[alias] = id]
DeleteBucket(g, id) ==
  [g EXCEPT !.bucket[id] = "deleted", !.alias = [a \in DOMAIN @ |-> IF @[a] = id THEN 0 ELSE @[a]]]
FreeBuckets == {i \in BucketId \ {Foreign} : garage.bucket[i] = "free"}
FreshBucket == CHOOSE i \in FreeBuckets : TRUE

Fault == faults < MaxFaults[scene] /\ faults' = faults + 1
BucketRest == UNCHANGED <<scene, cluster, scope, faults>>

-----------------------------------------------------------------------------
(* Leaving a reconcile.  fail writes ReadyToUse=false, unless the Bucket   *)
(* changed since it was read.                                              *)

Done == bw' = IdleBucket
Unpublish == parent' = IF parent.del # bw.del THEN parent ELSE [parent EXCEPT !.ready = FALSE]
FailBucket ==
  /\ Unpublish
  /\ Done /\ UNCHANGED <<claim, shadow, garage>>
GoTo(pc) == bw' = [bw EXCEPT !.pc = pc]

(* The worker holds the shadow it last read or wrote.  An Update carries   *)
(* its resourceVersion: it fails when somebody wrote in between.  A Patch  *)
(* does not.                                                               *)
Fresh == shadow = bw.sh
Write(sh) == shadow' = sh /\ bw' = [bw EXCEPT !.sh = sh]

StepBucket(pc) == bw.pc = pc /\ BucketRest

-----------------------------------------------------------------------------
(* Reconcile: which way, from what the COSI Bucket says.  Outside the      *)
(* watched namespaces only the cleanup of a Bucket this driver's shadow    *)
(* provably owns goes on.                                                  *)

(* The shadow that owns an ID: annotation (and label) and status agree.    *)
Authoritative(id) == shadow.uid # 0 /\ id # 0 /\ shadow.ann = id /\ shadow.id = id
Claimed(id) == shadow.uid # 0 /\ id # 0 /\ shadow.ann = id
OwnsShadowBucket == Authoritative(parent.id)
InScope == scope \/ (parent.del /\ OwnsShadowBucket)

\* Mutant: a Bucket without an ID is cancelled whatever its policy says.
CancelBeforePolicy == IF parent.id = 0 THEN "cancel" ELSE IF parent.policy = "Retain" THEN "forget" ELSE "delete"
DeletionPath == IF parent.policy = "Retain" THEN "forget"
                ELSE IF parent.id = 0 THEN "cancel" ELSE "delete"

ReconcileBucket ==
  /\ StepBucket("idle") /\ parent.uid # 0 /\ InScope
  /\ \/ parent.del /\ bw' = [bw EXCEPT !.pc = DeletionPath, !.know = parent.id, !.del = TRUE]
        /\ UNCHANGED <<parent, claim, shadow, garage>>
     \/ ~parent.del /\ parent.ok /\ ~parent.fin /\ parent' = [parent EXCEPT !.fin = TRUE]
        /\ UNCHANGED <<claim, shadow, garage, bw>>
     \/ ~parent.del /\ (parent.fin \/ ~parent.ok)
        /\ IF parent.ok /\ cluster = "Running"
           THEN bw' = [bw EXCEPT !.pc = "reserve"] /\ UNCHANGED <<parent, claim, shadow, garage>>
           ELSE FailBucket                                   \* parse parameters, getCluster

-----------------------------------------------------------------------------
(* EnsureBucket.                                                           *)

ReserveShadowBucket ==
  /\ StepBucket("reserve")
  /\ \/ /\ shadow.uid = 0 /\ garage.uids < MaxUID
        /\ garage' = [garage EXCEPT !.uids = @ + 1]
        /\ shadow' = ShadowBucket(garage.uids + 1)
        /\ bw' = [bw EXCEPT !.pc = "resolve", !.sh = shadow'] /\ UNCHANGED <<parent, claim>>
     \/ shadow.uid # 0 /\ shadow.del /\ FailBucket
     \/ /\ shadow.uid # 0 /\ ~shadow.del                     \* the finalizer is put back
        /\ shadow' = [shadow EXCEPT !.fin = TRUE]
        /\ bw' = [bw EXCEPT !.pc = "resolve", !.sh = shadow'] /\ UNCHANGED <<parent, claim, garage>>

(* Where the reservation got to decides how the bucket is found.           *)
Tracked == IF bw.sh.ann # 0 THEN bw.sh.ann ELSE bw.sh.id
ResolveTracked ==
  /\ StepBucket("resolve") /\ Tracked # 0
  /\ IF bw.sh.ann # 0 /\ bw.sh.id # bw.sh.ann THEN FailBucket
     ELSE IF Live(garage, Tracked)
     THEN bw' = [bw EXCEPT !.pc = "bind", !.id = Tracked] /\ UNCHANGED <<parent, claim, shadow, garage>>
     ELSE bw' = [bw EXCEPT !.pc = IF bw.sh.ann # 0 THEN "stale" ELSE "staleStatus"]
          /\ UNCHANGED <<parent, claim, shadow, garage>>

(* Neither alias may resolve before the first create is authorised.        *)
AliasFree(a) == garage.alias[a] = 0
ResolveReservation ==
  /\ StepBucket("resolve") /\ Tracked = 0
  /\ IF bw.sh.auth THEN GoTo("create")
     ELSE IF AliasFree(Pub) /\ AliasFree(Rsv(bw.sh.uid)) THEN GoTo("authorize") ELSE GoTo("reject")
  /\ UNCHANGED <<parent, claim, shadow, garage>>

\* Mutant: the create is not made durable first.
CreateAtOnce == StepBucket("authorize") /\ GoTo("create") /\ UNCHANGED <<parent, claim, shadow, garage>>
AuthorizeShadowBucketCreate ==
  /\ StepBucket("authorize")
  /\ IF shadow.uid = bw.sh.uid
     THEN LET sh == [shadow EXCEPT !.auth = TRUE] IN
          shadow' = sh /\ bw' = [bw EXCEPT !.pc = "create", !.sh = sh] /\ UNCHANGED <<parent, claim, garage>>
     ELSE FailBucket

(* The cluster is checked again right before the remote create.  A create  *)
(* whose response is lost is found again through its private alias.  The   *)
(* check, the lookup and the create are one step: nobody else creates      *)
(* under this alias, and the create does not read the cluster.             *)
(* Bound: there are as many bucket IDs as incarnations, and one more.      *)
CreateOrRecover ==
  /\ StepBucket("create")
  /\ IF cluster # "Running" THEN FailBucket
     ELSE /\ IF AliasFree(Rsv(bw.sh.uid))
             THEN /\ FreeBuckets # {} /\ garage' = CreateBucket(garage, FreshBucket, Rsv(bw.sh.uid))
                  /\ bw' = [bw EXCEPT !.pc = "bind", !.id = FreshBucket]
             ELSE /\ bw' = [bw EXCEPT !.pc = "bind", !.id = garage.alias[Rsv(bw.sh.uid)]]
                  /\ UNCHANGED garage
          /\ UNCHANGED <<parent, claim, shadow>>

\* Mutant: the metadata handoff comes before the status write.
BindMetadataFirst ==
  /\ StepBucket("bind")
  /\ IF Fresh /\ bw.sh.ann \in {0, bw.id} /\ bw.sh.id \in {0, bw.id}
     THEN /\ Write([bw.sh EXCEPT !.ann = bw.id, !.state = "Bound"])
          /\ bw' = [bw EXCEPT !.sh = shadow', !.pc = "bindMeta"]
          /\ UNCHANGED <<parent, claim, garage>>
     ELSE FailBucket

(* BindShadowBucket writes the status ID before annotation and state.      *)
BindShadowStatus ==
  /\ StepBucket("bind")
  /\ IF bw.sh.ann \in {0, bw.id} /\ bw.sh.id \in {0, bw.id} /\ (bw.sh.id # 0 \/ Fresh)
     THEN LET sh == IF bw.sh.id = 0 THEN [bw.sh EXCEPT !.id = bw.id] ELSE bw.sh IN
          /\ shadow' = IF bw.sh.id = 0 THEN sh ELSE shadow
          /\ bw' = [bw EXCEPT !.sh = sh, !.pc = "bindMeta"]
          /\ UNCHANGED <<parent, claim, garage>>
     ELSE FailBucket
BindShadowMetadata ==
  /\ StepBucket("bindMeta")
  /\ IF Fresh
     THEN LET sh == [bw.sh EXCEPT !.ann = bw.id, !.state = "Bound"] IN
          shadow' = sh /\ bw' = [bw EXCEPT !.sh = sh, !.pc = "settings"] /\ UNCHANGED <<parent, claim, garage>>
     ELSE FailBucket

EnsureCOSIBucketSettings ==                                  \* quotas, then website
  /\ StepBucket("settings")
  /\ IF Live(garage, bw.id)
     THEN /\ garage' = [garage EXCEPT !.conf[bw.id] = TRUE] /\ GoTo("alias")
          /\ UNCHANGED <<parent, claim, shadow>>
     ELSE FailBucket
\* Mutant: a public name somebody else has is no error.
TolerateAliasConflict ==
  /\ StepBucket("alias") /\ GoTo("unreserve") /\ UNCHANGED <<parent, claim, shadow>>
  /\ garage' = IF garage.alias[Pub] = 0 THEN [garage EXCEPT !.alias[Pub] = bw.id] ELSE garage
EnsureCOSIGlobalAlias ==
  /\ StepBucket("alias")
  /\ IF Live(garage, bw.id) /\ garage.alias[Pub] \in {0, bw.id}
     THEN /\ garage' = [garage EXCEPT !.alias[Pub] = bw.id] /\ GoTo("unreserve")
          /\ UNCHANGED <<parent, claim, shadow>>
     ELSE FailBucket                                         \* somebody else has the name by now
RemoveReservationAlias ==
  /\ StepBucket("unreserve")
  /\ garage' = [garage EXCEPT !.alias = [a \in DOMAIN @ |-> IF bw.sh.auth /\ a = Rsv(bw.sh.uid) /\ @[a] = bw.id
                                                         THEN 0 ELSE @[a]]]
  /\ GoTo("clear") /\ UNCHANGED <<parent, claim, shadow>>
ClearShadowBucketReservationAlias ==
  /\ StepBucket("clear")
  /\ IF ~bw.sh.auth \/ shadow.uid = bw.sh.uid
     THEN /\ shadow' = IF bw.sh.auth THEN [shadow EXCEPT !.auth = FALSE] ELSE shadow
          /\ bw' = [bw EXCEPT !.sh.auth = FALSE, !.pc = "status"] /\ UNCHANGED <<parent, claim, garage>>
     ELSE FailBucket

(* buildBucketResult needs the authoritative shadow; the COSI status is an *)
(* Update, which a Bucket that began to be deleted meanwhile refuses.      *)
PublishBucketStatus ==
  /\ StepBucket("status")
  /\ IF Authoritative(bw.id) /\ ~parent.del
     THEN /\ parent' = [parent EXCEPT !.id = bw.id, !.ready = TRUE] /\ GoTo("claim")
          /\ UNCHANGED <<claim, shadow, garage>>
     ELSE FailBucket

(* Only a claim the upstream controller has bound is published.            *)
SyncBoundBucketClaimReady ==
  /\ StepBucket("claim")
  /\ claim' = [claim EXCEPT !.ready = @ \/ claim.bound]
  /\ Done /\ UNCHANGED <<parent, shadow, garage>>

-----------------------------------------------------------------------------
(* Reservations that are given up.  deleteShadow is two calls: a Patch     *)
(* strips the finalizer, which is the end of a shadow that is being        *)
(* deleted, and then a Delete bound to the UID.  In between the shadow's   *)
(* controller may put the finalizer back.  It is used where no Garage      *)
(* bucket can be left.  A shadow that may still stand for one is deleted   *)
(* through its finalizer.  The UID of a reservation that authorised        *)
(* nothing is free again.                                                  *)

Strip(sh) == IF sh.del THEN NoShadow ELSE [sh EXCEPT !.fin = FALSE]
DeleteShadowSteps(pc, next) ==
  /\ StepBucket(pc)
  /\ shadow' = IF shadow.uid = bw.sh.uid THEN Strip(shadow) ELSE shadow
  /\ GoTo(next) /\ UNCHANGED <<parent, claim, garage>>
StripStale == DeleteShadowSteps("stale", "staleDelete")          \* the tracked bucket is gone
StripRejected == DeleteShadowSteps("reject", "staleDelete")      \* an alias was taken
\* Mutant: an object that is gone is still taken for a bound one.
RemoveUID(sh) == IF sh.fin THEN [sh EXCEPT !.del = TRUE] ELSE [sh EXCEPT !.uid = 0]
Remove(sh) == IF sh.fin THEN [sh EXCEPT !.del = TRUE] ELSE NoShadow
DropReservation ==
  /\ StepBucket("staleDelete")
  /\ shadow' = IF shadow.uid = bw.sh.uid THEN Remove(shadow) ELSE shadow
  /\ garage' = [garage EXCEPT !.uids = IF Tracked = 0 /\ ~bw.sh.auth /\ shadow.uid = bw.sh.uid THEN @ - 1 ELSE @]
  /\ Unpublish
  /\ Done /\ UNCHANGED claim

RequestDeleteShadow(sh) == IF sh.uid = 0 \/ sh.del THEN sh ELSE Remove(sh)
DropStatusTracked ==
  /\ StepBucket("staleStatus")
  /\ shadow' = RequestDeleteShadow(shadow)
  /\ Unpublish /\ Done /\ UNCHANGED <<claim, garage>>

-----------------------------------------------------------------------------
(* Deletion.                                                               *)

ReleaseParent == parent' = [NoParent EXCEPT !.policy = parent.policy] /\ Done

\* Mutant: the Bucket is released as soon as the shadow's deletion was requested.
CancelAtOnce ==
  /\ StepBucket("cancel") /\ UNCHANGED <<claim, garage>>
  /\ shadow' = RequestDeleteShadow(shadow) /\ ReleaseParent

\* Mutant: the shadow's deletion is awaited but never requested.
AwaitShadowGone ==
  /\ StepBucket("cancel") /\ UNCHANGED <<claim, garage, shadow>>
  /\ IF shadow.uid = 0 THEN ReleaseParent ELSE Done /\ UNCHANGED parent

(* The Bucket's status never got an ID: the shadow's finalizer cleans up,  *)
(* and the Bucket is released only when the shadow is gone.                *)
CancelBucketProvisioning ==
  /\ StepBucket("cancel") /\ UNCHANGED <<claim, garage>>
  /\ IF shadow.uid = 0 THEN UNCHANGED shadow /\ ReleaseParent
     ELSE shadow' = RequestDeleteShadow(shadow) /\ Done /\ UNCHANGED parent

(* Retain: the known ID must agree with the shadow's; it is persisted, the *)
(* UID-bound marker is written and the shadow is deleted.                  *)
ForgetShadowBucket ==
  /\ StepBucket("forget") /\ UNCHANGED <<claim, garage>>
  /\ \/ shadow.uid = 0 /\ UNCHANGED shadow /\ ReleaseParent
     \/ /\ shadow.uid # 0
        /\ IF bw.know # 0 /\ (shadow.ann \notin {0, bw.know} \/ shadow.id \notin {0, bw.know})
           THEN Unpublish /\ Done /\ UNCHANGED shadow
           ELSE /\ shadow' = [shadow EXCEPT !.id = IF @ = 0 THEN bw.know ELSE @, !.retain = TRUE]
                /\ GoTo("forgetDelete") /\ UNCHANGED parent
DeleteRetainedShadow ==
  /\ StepBucket("forgetDelete") /\ UNCHANGED <<parent, claim, garage>>
  /\ shadow' = RequestDeleteShadow(shadow) /\ Done

(* The Garage bucket first, then the shadow that owns the ID.  Parameters  *)
(* that do not even name the cluster leave it to that shadow to name it.   *)
ClusterKnown == parent.ref \/ Authoritative(bw.know)
DeleteRemoteBucket ==
  /\ StepBucket("delete") /\ UNCHANGED <<claim, shadow>>
  /\ IF ~ClusterKnown \/ cluster = "gone" \/ (Live(garage, bw.know) /\ garage.full) THEN
          Unpublish /\ Done /\ UNCHANGED garage
     ELSE /\ garage' = IF Live(garage, bw.know) THEN DeleteBucket(garage, bw.know) ELSE garage
          /\ GoTo("deleteShadow") /\ UNCHANGED parent
DeleteShadowBucketByID ==
  /\ StepBucket("deleteShadow") /\ UNCHANGED <<claim, garage>>
  /\ IF Authoritative(bw.know)
     THEN shadow' = Strip(shadow) /\ bw' = [bw EXCEPT !.pc = "dropShadow", !.sh = shadow] /\ UNCHANGED parent
     ELSE IF Claimed(bw.know) THEN UNCHANGED shadow /\ Unpublish /\ Done
     ELSE UNCHANGED <<shadow, parent>> /\ GoTo("release")
DropShadow ==
  /\ StepBucket("dropShadow") /\ UNCHANGED <<parent, claim, garage>>
  /\ shadow' = IF shadow.uid = bw.sh.uid THEN Remove(shadow) ELSE shadow
  /\ GoTo("release")
RemoveCleanupFinalizers ==
  /\ StepBucket("release") /\ ReleaseParent /\ UNCHANGED <<claim, shadow, garage>>

-----------------------------------------------------------------------------
(* The GarageBucket controller on the shadow.                              *)

(* validatedCOSIRetain: the parent must be there, deleting, Retain, and    *)
(* must know exactly the identity the shadow has.                          *)
ValidatedCOSIRetain ==
  /\ parent.uid # 0 /\ parent.del /\ parent.policy = "Retain"
  /\ IF shadow.state = "Bound"
     THEN shadow.ann # 0 /\ shadow.id = shadow.ann /\ parent.id = shadow.ann
     ELSE parent.id = 0 /\ shadow.ann \in {0, shadow.id}

ShadowRest == UNCHANGED <<scene, cluster, parent, claim, bw, scope, faults>>
ReconcileRetained ==
  /\ shadow.uid # 0 /\ shadow.retain /\ ValidatedCOSIRetain
  /\ shadow' = IF shadow.del THEN NoShadow ELSE Remove(shadow)
  /\ UNCHANGED garage /\ ShadowRest

(* A Pending shadow is the provisioner's: only its finalizer is restored.  *)
ReconcilePendingShadow ==
  /\ shadow.uid # 0 /\ ~shadow.del /\ ~shadow.retain /\ shadow.state = "Pending" /\ ~shadow.fin
  /\ shadow' = [shadow EXCEPT !.fin = TRUE] /\ UNCHANGED garage /\ ShadowRest

(* A Bound shadow is reconciled like any GarageBucket, but a COSI bucket   *)
(* that is gone is never replaced.  It gets the cluster as an owner.       *)
ReconcileBoundShadow ==
  /\ shadow.uid # 0 /\ ~shadow.del /\ ~shadow.retain /\ shadow.state = "Bound" /\ cluster = "Running"
  /\ \/ ~shadow.owned /\ shadow' = [shadow EXCEPT !.owned = TRUE] /\ UNCHANGED garage
     \/ shadow.owned /\ ~shadow.fin /\ shadow' = [shadow EXCEPT !.fin = TRUE] /\ UNCHANGED garage
     \/ /\ shadow.owned /\ shadow.fin /\ shadow.id = shadow.ann /\ Live(garage, shadow.id)
        /\ garage.alias[Pub] \in {0, shadow.id}
        /\ garage' = [garage EXCEPT !.alias[Pub] = shadow.id, !.conf[shadow.id] = TRUE]
        /\ garage' # garage /\ UNCHANGED shadow
  /\ ShadowRest

(* Finalization resolves every durable identity: status, and the UID-bound *)
(* alias of an authorised create.  They must agree with the annotation.    *)
FinalizationIDs(sh) ==
  ({sh.id} \cup (IF sh.auth THEN {garage.alias[Rsv(sh.uid)]} ELSE {})) \ {0}
Consistent(sh) ==
  LET ids == FinalizationIDs(sh) IN Cardinality(ids) <= 1 /\ (sh.ann # 0 => ids = {sh.ann})
FinalizeShadow ==
  /\ shadow.uid # 0 /\ shadow.del /\ shadow.fin /\ ~shadow.retain
  /\ cluster # "gone" /\ Consistent(shadow)
  /\ LET live == {id \in FinalizationIDs(shadow) : Live(garage, id)} IN
     /\ live # {} => ~garage.full
     /\ garage' = IF live = {} THEN garage ELSE DeleteBucket(garage, CHOOSE id \in live : TRUE)
  /\ \/ shadow' = NoShadow /\ faults' = faults
     \/ UNCHANGED shadow /\ Fault /\ garage' # garage         \* crash before the finalizer is dropped
  /\ UNCHANGED <<scene, cluster, parent, claim, bw, scope>>

-----------------------------------------------------------------------------
(* Users, the upstream COSI controller, Kubernetes and faults.             *)

Outside == UNCHANGED <<scene, bw>>
BindClaim ==
  /\ ~claim.bound /\ parent.uid # 0 /\ claim' = [claim EXCEPT !.bound = TRUE]
  /\ Outside /\ UNCHANGED <<cluster, parent, shadow, garage, scope, faults>>
DeleteParent ==
  /\ parent.uid # 0 /\ ~parent.del
  /\ parent' = IF parent.fin THEN [parent EXCEPT !.del = TRUE] ELSE NoParent
  /\ Outside /\ UNCHANGED <<cluster, claim, shadow, garage, scope, faults>>
WriteObjects ==
  /\ scene = "bucket" /\ parent.ready /\ ~garage.full /\ ~parent.del
  /\ garage' = [garage EXCEPT !.full = TRUE]
  /\ Outside /\ UNCHANGED <<cluster, parent, claim, shadow, scope, faults>>
EmptyBucket ==
  /\ garage.full /\ (parent.del \/ parent.uid = 0) /\ garage' = [garage EXCEPT !.full = FALSE]
  /\ Outside /\ UNCHANGED <<cluster, parent, claim, shadow, scope, faults>>

(* The cluster goes away; what it owns is garbage collected with it.       *)
ClusterGoes ==
  /\ scene = "bucket" /\ cluster = "Running" /\ Fault
  /\ \/ cluster' = "NotReady" /\ UNCHANGED shadow
     \/ cluster' = "gone" /\ shadow' = IF shadow.owned /\ ~shadow.del
                                         THEN [RequestDeleteShadow(shadow) EXCEPT !.gc = shadow.fin] ELSE shadow
  /\ Outside /\ UNCHANGED <<parent, claim, garage, scope>>
ClusterReturns ==
  /\ cluster # "Running" /\ cluster' = "Running"
  /\ Outside /\ UNCHANGED <<parent, claim, shadow, garage, scope, faults>>

(* Somebody else takes the public name, or deletes the bucket in Garage.   *)
TakeAlias ==
  /\ scene = "bucket" /\ garage.alias[Pub] = 0 /\ Fault
  /\ garage' = [garage EXCEPT !.alias[Pub] = Foreign]
  /\ Outside /\ UNCHANGED <<cluster, parent, claim, shadow, scope>>
LoseBucket ==
  /\ Loss /\ scene = "bucket" /\ ~garage.full /\ Fault
  /\ \E id \in BucketId \ {Foreign} : Live(garage, id) /\ garage' = DeleteBucket(garage, id)
  /\ Outside /\ UNCHANGED <<cluster, parent, claim, shadow, scope>>
Rescope ==
  /\ scene = "bucket" /\ scope /\ bw.pc = "idle" /\ Fault /\ scope' = FALSE
  /\ Outside /\ UNCHANGED <<cluster, parent, claim, shadow, garage>>

(* The process stops between two calls, or a call fails.                   *)
CrashBucket ==
  /\ bw.pc # "idle" /\ Fault
  /\ \/ Done /\ UNCHANGED parent
     \/ Done /\ Unpublish /\ parent' # parent
  /\ UNCHANGED <<scene, cluster, claim, shadow, garage, scope>>

EnsureBucket ==
  \/ ReserveShadowBucket \/ ResolveTracked \/ ResolveReservation \/ AuthorizeShadowBucketCreate
  \/ CreateOrRecover \/ BindShadowStatus \/ BindShadowMetadata \/ EnsureCOSIBucketSettings
  \/ EnsureCOSIGlobalAlias \/ RemoveReservationAlias \/ ClearShadowBucketReservationAlias
  \/ PublishBucketStatus \/ SyncBoundBucketClaimReady
  \/ StripStale \/ StripRejected \/ DropReservation \/ DropStatusTracked
ReleaseBucket ==
  \/ CancelBucketProvisioning \/ ForgetShadowBucket \/ DeleteRetainedShadow \/ DeleteRemoteBucket
  \/ DeleteShadowBucketByID \/ DropShadow \/ RemoveCleanupFinalizers
BucketWorker == ReconcileBucket \/ EnsureBucket \/ ReleaseBucket
ShadowWorker == ReconcileRetained \/ ReconcilePendingShadow \/ ReconcileBoundShadow \/ FinalizeShadow
BucketEnvironment ==
  \/ BindClaim \/ DeleteParent \/ WriteObjects \/ EmptyBucket \/ ClusterGoes \/ ClusterReturns
  \/ TakeAlias \/ LoseBucket \/ Rescope \/ CrashBucket
=============================================================================
