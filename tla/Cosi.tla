-------------------------------- MODULE Cosi --------------------------------
(***************************************************************************)
(* The COSI driver: the Bucket and the BucketAccess controller with the    *)
(* GarageBucket and GarageKey controllers on their shadows, in one Garage. *)
(* A behaviour starts with a new Bucket ("bucket"), with a provisioned     *)
(* Bucket and a new access to it ("access"), or with what a release before *)
(* v0.7.4 left of two accesses of the same name ("legacy").                *)
(***************************************************************************)
EXTENDS CosiAccess

CONSTANT Scenes
ASSUME CosiAssumption == Scenes \subseteq {"bucket", "access", "legacy"} /\ Scenes \subseteq DOMAIN MaxFaults

Mine == 2
ReadyParent(policy) == [NewParent(policy) EXCEPT !.fin = TRUE, !.id = Mine, !.ready = TRUE]
BoundShadow == [ShadowBucket(1) EXCEPT !.state = "Bound", !.ann = Mine, !.id = Mine, !.owned = TRUE]
LegacyShadow(state) ==
  [ShadowKey(1) EXCEPT !.state = state, !.id = Legacy, !.ann = Legacy, !.label = state = "Bound"]
LegacyAccess == [NoAccess EXCEPT !.st = "live", !.fin = TRUE, !.id = Legacy, !.ready = TRUE]
NewAccess == [NoAccess EXCEPT !.st = "live"]

Provisioned ==
  /\ \E p \in {"Delete", "Retain"}, ok, ref \in BOOLEAN :
       parent = [ReadyParent(p) EXCEPT !.ok = ok, !.ref = ref]
  /\ parent.ok <=> scene # "bucket"
  /\ parent.ok => parent.ref
  /\ scene # "bucket" => parent.policy = "Delete"
  /\ claim = [bound |-> TRUE, ready |-> TRUE] /\ shadow = BoundShadow
  /\ garage = [bucket |-> [b \in BucketId |-> IF b \in {Foreign, Mine} THEN "live" ELSE "free"],
               alias |-> [a \in Alias |-> IF a = Pub THEN Mine ELSE 0],
               conf |-> [b \in BucketId |-> b = Mine], full |-> FALSE, uids |-> 1]
Unprovisioned ==
  /\ parent \in {NewParent("Delete"), NewParent("Retain")}
  /\ claim = [bound |-> FALSE, ready |-> FALSE] /\ shadow = NoShadow
  /\ \E taken \in {0, Foreign} :
       garage = [bucket |-> [b \in BucketId |-> IF b = Foreign THEN "live" ELSE "free"],
                 alias |-> [a \in Alias |-> IF a = Pub THEN taken ELSE 0],
                 conf |-> [b \in BucketId |-> FALSE], full |-> FALSE, uids |-> 0]

NoKeys == [key |-> [k \in KeyId |-> "free"], perm |-> [k \in KeyId |-> {}]]
WithLegacyKey(acs) == [acs EXCEPT !.key[Legacy] = "live", !.perm[Legacy] = AllPerms]

(* The legacy accesses share a bound key, one of them perhaps with a       *)
(* duplicate of its own; or a reservation of the old name is still pending.*)
InitLegacy ==
  \/ /\ \E ok \in BOOLEAN : access = [a \in Access |-> [LegacyAccess EXCEPT !.ok = ok]]
     /\ \E o \in {0, 2} : keys = [i \in Identity |-> IF i = Name THEN [LegacyShadow("Bound") EXCEPT !.owner = o]
                                                     ELSE NoShadowKey]
     /\ accounts = WithLegacyKey(NoKeys) /\ rsv = [i \in Identity |-> 0]
  \/ /\ access = [a \in Access |-> LegacyAccess]
     /\ keys = [i \in Identity |-> IF i = Name THEN LegacyShadow("Bound") ELSE IF i = 1
                                   THEN [ShadowKey(2) EXCEPT !.state = "Bound", !.id = 2, !.ann = 2, !.label = TRUE]
                                   ELSE NoShadowKey]
     /\ accounts = [WithLegacyKey(NoKeys) EXCEPT !.key[2] = "live"]
     /\ rsv = [i \in Identity |-> 0]
  \/ /\ access = [a \in Access |-> NewAccess]
     /\ keys = [i \in Identity |-> IF i = Name THEN LegacyShadow("Pending") ELSE NoShadowKey]
     /\ accounts \in {WithLegacyKey(NoKeys), NoKeys}
     /\ rsv = [i \in Identity |-> IF i = Name THEN Legacy ELSE 0]

Init ==
  /\ scene \in Scenes /\ cluster = "Running" /\ scope = TRUE /\ faults = 0
  /\ bw = IdleBucket /\ aw = IdleAccess
  /\ secret = [a \in Access |-> [by |-> 0, id |-> 0]]
  /\ \/ scene # "bucket" /\ Provisioned
     \/ scene = "bucket" /\ (Provisioned \/ Unprovisioned)
  /\ IF scene = "legacy" THEN InitLegacy
     ELSE /\ access = [a \in Access |-> IF scene = "access" /\ a = 1 THEN NewAccess ELSE NoAccess]
          /\ keys = [i \in Identity |-> NoShadowKey] /\ rsv = [i \in Identity |-> 0]
          /\ accounts = NoKeys

BucketStep == (BucketWorker \/ ShadowWorker \/ BucketEnvironment) /\ scene # "legacy" /\ UNCHANGED cosiAccessVars
AccessStep == scene # "bucket" /\ ((\E a \in Access : ReconcileAccess(a)) \/ AccessSteps \/ KeyWorker \/ AccessEnvironment)
Next == BucketStep \/ AccessStep
Spec == Init /\ [][Next]_vars

(* Every controller requeues what is not finished, and faults are finitely *)
(* many.  The two accesses share one worker, so each needs strong fairness *)
(* to be picked.  The upstream controller binds a claim and releases an    *)
(* access, users empty a bucket they delete, and the cluster comes back.   *)
InBucket == scene # "legacy" /\ UNCHANGED cosiAccessVars
InAccess == scene # "bucket"
FairSpec ==
  /\ Spec
  /\ WF_vars(InBucket /\ BucketWorker) /\ WF_vars(InBucket /\ ShadowWorker)
  /\ WF_vars(InBucket /\ (BindClaim \/ ClusterReturns \/ EmptyBucket))
  /\ WF_vars(InAccess /\ AccessSteps) /\ WF_vars(InAccess /\ KeyWorker)
  /\ \A a \in Access : /\ SF_vars(InAccess /\ ReconcileAccess(a))
                         /\ WF_vars(InAccess /\ UpstreamReleases(a))

-----------------------------------------------------------------------------
(* Every variable stays in its range, and an object that is gone leaves    *)
(* nothing in its place.                                                   *)
TypeOK ==
  /\ scene \in Scenes /\ cluster \in {"Running", "NotReady", "gone"}
  /\ parent.id \in {0} \cup BucketId /\ parent.policy \in {"Delete", "Retain"}
  /\ shadow.uid \in ShadowUID /\ {shadow.ann, shadow.id, bw.id, bw.know} \subseteq {0} \cup BucketId
  /\ shadow.uid = 0 => shadow = NoShadow
  /\ garage.bucket \in [BucketId -> {"free", "live", "deleted"}]
  /\ garage.alias \in [Alias -> {0} \cup BucketId]
  /\ \A a \in Access : access[a].id \in {0} \cup KeyId /\ secret[a].by \in 0..Name
  /\ \A i \in Identity : {keys[i].ann, keys[i].id, rsv[i]} \subseteq {0} \cup KeyId
  /\ accounts.key \in [KeyId -> {"free", "live", "tombstone"}] /\ faults \in 0..MaxFaults[scene]

Provided == {b \in BucketId \ {Foreign} : Live(garage, b)}
Kept == parent.policy = "Retain" /\ (parent.uid = 0 \/ parent.del)

(* Whatever crashes: a bucket the driver made is the one its shadow's      *)
(* finalization would resolve, or is retained; there is never a second one.*)
BucketIsTracked ==
  /\ \A b \in Provided : Kept \/ (shadow.uid # 0 /\ FinalizationIDs(shadow) = {b})
  /\ Cardinality(Provided) <= 1

(* A released COSI Bucket leaves no shadow that stands for anything: at    *)
(* most one on its way out, whose finalizer its controller put back        *)
(* between the two calls of deleteShadow.  Or its first bucket was lost    *)
(* and the shadow is a second one (CleanupIsComplete).                     *)
NoShadowIsLeft ==
  parent.uid = 0 => shadow.uid # 1 \/ (shadow.del /\ \A b \in FinalizationIDs(shadow) : ~Live(garage, b))

(* Retain: no step of the operator deletes the bucket, except that the     *)
(* shadow is garbage collected with the cluster that owns it.              *)
RetainedBucketIsKept ==
  [][parent.policy = "Retain" /\ ~shadow.gc /\ ~LoseBucket => \A b \in Provided : garage'.bucket[b] = "live"]_vars

(* A Bucket published as ready can be used under its name.                 *)
ReadyMeansUsable ==
  parent.ready /\ Live(garage, parent.id) =>
    /\ parent.id # Foreign /\ garage.alias[Pub] = parent.id /\ garage.conf[parent.id]
    /\ claim.ready => claim.bound

Gone == scene = "legacy" /\ \A a \in Access : access[a].st = "gone"

(* What is released leaves nothing behind, whatever happened before.       *)
CleanupIsComplete ==
  /\ parent.uid = 0 => shadow.uid = 0
  /\ Gone => keys[Name].uid = 0

(* A key the driver imported is the one some shadow's status records, and  *)
(* an access that is gone leaves no shadow but one on its way out.         *)
Left(i) == keys[i].uid # 0 /\ (keys[i].del => LiveKey(keys[i].id))
KeyIsTracked ==
  /\ \A k \in KeyId : LiveKey(k) => \E i \in Identity : keys[i].uid # 0 /\ keys[i].id = k
  /\ \A a \in Access : access[a].st = "gone" => ~Left(a)
  /\ Gone /\ keys[Name].owner = 0 => ~Left(Name)

(* A key two accesses share outlives the first of them.                    *)
SharedAccountSurvives ==
  [][\A a \in Access : access[a].st = "live" /\ access[a].id # 0 /\ LiveKey(access[a].id) /\ ~LoseKey
        => accounts'.key[access[a].id] = "live"]_vars

(* Credentials are only in Secrets the access controls, never in those of  *)
(* another access that does not own the key, and the key can do no more    *)
(* than the access asked for.                                              *)
CredentialsArePrivate ==
  \A a \in Access : secret[a].id # 0 =>
    /\ secret[a].by = a
    /\ LiveKey(secret[a].id) => accounts.perm[secret[a].id] \subseteq Want
    /\ \A b \in Access \ {a} : access[b].id = secret[a].id => access[a].id = secret[a].id

(* Deleting a Bucket ends, and a shadow left on its way out goes as well,  *)
(* unless a Retain Bucket is deleted while its shadow knows an ID the      *)
(* Bucket's status does not (the marker is written, and                    *)
(* validatedCOSIRetain refuses it for good), or unless the parameters do   *)
(* not name the cluster and the shadow that does was deleted before the    *)
(* Bucket could be released (DeleteBucket then fails for good).            *)
Disagree == parent.policy = "Retain" /\ shadow.uid # 0 /\ ~(IF shadow.state = "Bound" THEN parent.id = shadow.id
                                                                  ELSE parent.id = 0)
Unnamed == bw.pc = "idle" /\ parent.del /\ parent.id # 0 /\ ~parent.ref /\ ~Authoritative(parent.id)
BucketDeletionCompletes ==
  parent.del ~> ((parent.uid = 0 /\ shadow.uid # 1) \/ ~scope \/ Disagree \/ Unnamed)

(* Deleting an access ends, unless its parameters do not parse and the     *)
(* shadow that names the cluster is deleted already, by a reconcile that   *)
(* did not reach the handoff or with the other access of the same key:     *)
(* RevokeAccess then fails for good.  A shadow left on its way out goes.   *)
Orphaned(a) ==
  /\ aw.pc = "idle" /\ access[a].id # 0 /\ ~access[a].ok /\ ~access[a].handed
  /\ \A i \in Identity : ~Authority(i, access[a].id)
AccessDeletionCompletes ==
  \A a \in Access : access[a].st = "del" ~> ((access[a].st = "gone" /\ keys[a].uid = 0) \/ Orphaned(a))

(* A Bucket whose name is free becomes ready, and its claim with it.       *)
BucketIsProvisioned ==
  (parent.uid # 0 /\ parent.ok) ~> (claim.ready \/ parent.del \/ parent.uid = 0 \/ ~scope \/ shadow.gc
                                    \/ garage.alias[Pub] = Foreign)

-----------------------------------------------------------------------------
(* What the runs check.                                                    *)

(* The state is well formed, and whatever crashes, a bucket, a key or a    *)
(* shadow the driver made is one that its owner will find again            *)
(* (EnsureBucket, CancelBucketProvisioning, CancelAccessProvisioning).     *)
ProvisionedIsTracked == TypeOK /\ BucketIsTracked /\ NoShadowIsLeft /\ KeyIsTracked

(* No step of the operator deletes what is retained or still in use by     *)
(* another access (validatedCOSIRetain, ResolveBucketAccessIdentity).      *)
NothingInUseIsDeleted == RetainedBucketIsKept /\ SharedAccountSurvives

(* Provisioning and deletion of Buckets and accesses come to their end     *)
(* (Reconcile of both controllers, with the shadows' finalizers).          *)
RequestsComplete == BucketDeletionCompletes /\ AccessDeletionCompletes /\ BucketIsProvisioned
=============================================================================
