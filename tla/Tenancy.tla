------------------------------ MODULE Tenancy ------------------------------
(***************************************************************************)
(* The tenant controllers together: GarageBucket, GarageKey,               *)
(* GarageReferenceGrant and GarageAdminToken, one worker each, with the    *)
(* users who edit the objects and a Garage they share.                     *)
(***************************************************************************)
EXTENDS GarageBucket, GarageKey, AdminToken, ReferenceGrant

Mine == 2                      \* the bucket of the GarageBucket that is there at the start
BoundBucket == [NewBucket(1, 0) EXCEPT !.fin = TRUE, !.id = Mine, !.mAlias = "a1", !.phase = "Ready"]
BoundKey == [NewKey(1, "none", FALSE) EXCEPT !.fin = TRUE, !.id = Derived(0), !.sref = "s1",
                                             !.phase = "Ready"]
(* Another bucket holds alias a2.                                          *)
WithForeign(r) == [r EXCEPT !.bucket[Foreign] = "live", !.alias["a2"] = Foreign]
WithBucket(r) == [r EXCEPT !.bucket[Mine] = "live", !.by[Mine] = 1, !.alias["a1"] = Mine]
WithKey(r) == ImportKey(r, Derived(0), 1, FALSE)

HasBucket == focus \in {"perms", "alias", "local", "settings", "lookup", "lostBucket"}
HasKey == focus \in {"perms", "local", "secret", "lostKey"}

(* With focus "legacy" an import of a release before v0.7.4 was committed  *)
(* without a status; with focus "secret" the first Secret has no label yet.*)
Upgraded == focus = "legacy"
UnboundLegacyKey == [NewKey(1, "none", TRUE) EXCEPT !.fin = TRUE]
Init ==
  /\ focus \in Focus
  /\ cluster = [state |-> "Running", repair |-> "none"]
  /\ bucket = IF HasBucket THEN BoundBucket ELSE NoBucket
  /\ key = IF HasKey THEN BoundKey ELSE IF Upgraded THEN UnboundLegacyKey ELSE NoKey
  /\ secrets = [s \in SecretName |->
                  IF HasKey /\ s = "s1" THEN [by |-> 1, label |-> 0, full |-> TRUE] ELSE NoSecret]
  /\ source \in Material /\ (focus # "import" => source = MaxNonce + 3)
  /\ snapshot = [by |-> 0, id |-> 0]
  /\ grants = [to |-> [n \in {"c", "k"} |-> IF n = "c" THEN {} ELSE {"GarageKey"}],
               inUse |-> [n \in {"c", "k"} |-> n = "c" /\ (HasKey \/ Upgraded)], queue |-> {}]
  /\ LET r == WithForeign(EmptyGarage)
         s == IF HasBucket THEN WithBucket(r) ELSE r
         t == IF HasKey THEN WithKey(s) ELSE s IN
     \/ remote = IF Upgraded THEN ImportKey(t, Legacy, 1, TRUE) ELSE t
     \/ focus = "settings" /\ remote = [t EXCEPT !.old = TRUE]
     \/ focus = "settings" /\ remote = [t EXCEPT !.uploads = TRUE]
  /\ bw = Idle(NoBucket) /\ kw = KeyIdle(NoKey) /\ token = NoToken
  /\ edits = 0 /\ faults = 0

-----------------------------------------------------------------------------
(* Users.                                                                  *)

Edit == edits < MaxEdits /\ Affordable /\ edits' = edits + 1
Others == UNCHANGED <<focus, bw, kw, faults, snapshot>>
Change(b) == bucket' = [b EXCEPT !.ver = @ + 1] /\ UNCHANGED key
ChangeKey(k) == key' = [k EXCEPT !.ver = @ + 1] /\ UNCHANGED bucket

Decls == {Undeclared} \cup {[on |-> TRUE, p |-> p] : p \in SUBSET Perm}

(* Admission keeps an object that is being deleted out of further edits of *)
(* interest; spec.bucketId is set at creation.                             *)
EditBucket ==
  /\ bucket.uid # 0 /\ ~bucket.del
  /\ \/ focus = "perms" /\ \E d \in Decls \ {bucket.kp} : Change([bucket EXCEPT !.kp = d])
     \/ focus = "alias" /\ \E a \in {"a1", "a2"} \ {bucket.alias} : Change([bucket EXCEPT !.alias = a])
     \/ focus = "local" /\ \E l \in SUBSET LocalAlias \ {bucket.la} : Change([bucket EXCEPT !.la = l])
     \/ focus = "settings" /\ Change([bucket EXCEPT !.cfg = 1 - @])
     \/ focus = "settings" /\ Change([bucket EXCEPT !.life = 1 - @])
     \/ focus = "settings" /\ ~bucket.mpu /\ Change([bucket EXCEPT !.mpu = TRUE])
  /\ Edit /\ Others /\ TenantWatch /\ UNCHANGED <<cluster, secrets, source, remote, token>>

EditKey ==
  /\ key.uid # 0 /\ ~key.del
  /\ \/ focus = "perms" /\ \E d \in Decls \ {key.bp} : ChangeKey([key EXCEPT !.bp = d])
     \/ focus \in {"perms", "secret"} /\ ChangeKey([key EXCEPT !.all = ~@])
     \/ focus = "secret" /\ \E s \in SecretName \ {key.sec} : ChangeKey([key EXCEPT !.sec = s])
     \/ focus = "key" /\ ChangeKey([key EXCEPT !.renamed = ~@])
  /\ Edit /\ Others /\ TenantWatch /\ UNCHANGED <<cluster, secrets, source, remote, token>>

(* A new object is a new incarnation; its old one is gone for good.        *)
NextUID(objects) == 1 + Cardinality({u \in 1..MaxUID : \E i \in DOMAIN objects : objects[i] = u})
CreateOrDelete ==
  /\ \/ /\ focus = "bucket" /\ bucket.uid = 0
        /\ \E want \in {0, Foreign}, uid \in {NextUID(remote.by)} :
             uid <= MaxUID /\ bucket' = NewBucket(uid, want)
        /\ UNCHANGED key
     \/ /\ focus \in {"bucket", "alias", "local", "lostBucket"} /\ bucket.uid # 0 /\ ~bucket.del
        /\ bucket' = IF bucket.fin THEN [bucket EXCEPT !.del = TRUE] ELSE NoBucket
        /\ UNCHANGED key
     \/ /\ focus \in {"key", "import", "legacy"} /\ key.uid = 0
        /\ \E renamed \in BOOLEAN, uid \in {NextUID(remote.keyBy)} :
             /\ uid <= MaxUID
             /\ key' = NewKey(uid, IF focus = "import" THEN "ref" ELSE "none", renamed)
        /\ UNCHANGED bucket
     \/ /\ focus \in {"key", "legacy", "import", "secret", "local", "perms", "lostKey"} /\ key.uid # 0 /\ ~key.del
        /\ key' = IF key.fin THEN [key EXCEPT !.del = TRUE] ELSE NoKey
        /\ UNCHANGED bucket
  /\ Edit /\ Others /\ TenantWatch /\ UNCHANGED <<cluster, secrets, source, remote, token>>

EditGrant ==
  /\ focus = "perms"
  /\ \E n \in {"c", "k"} : \E to \in IF n = "k" THEN {{}, {"GarageKey"}}
                                    ELSE {{}, {"GarageCluster"}, {"GarageBucket"}} :
       /\ to # grants.to[n]
       /\ grants' = [grants EXCEPT !.to[n] = to, !.queue = @ \cup {n}]
  /\ Edit /\ Others /\ UNCHANGED <<cluster, bucket, key, secrets, source, remote, token>>

EditToken ==
  /\ focus = "token"
  /\ \/ /\ token.uid = 0 /\ token.next <= MaxUID
        /\ token' = [token EXCEPT !.uid = token.next]
     \/ token.uid # 0 /\ ~token.del /\ token' = [token EXCEPT !.ver = @ + 1]
     \/ token.uid # 0 /\ ~token.del
        /\ token' = IF token.fin THEN [token EXCEPT !.del = TRUE]
                    ELSE [NoToken EXCEPT !.consumed = token.consumed, !.next = token.next]
     \/ token' = [token EXCEPT !.consumed = ~@]
     \/ token.sec.by # 0   \* somebody deletes the generated Secret
        /\ token' = [token EXCEPT !.sec = [by |-> 0, val |-> 0], !.lost = @ \cup {token.sec.val}]
  /\ Edit /\ Others /\ UNCHANGED <<cluster, bucket, key, secrets, source, remote, grants>>

(* The GarageCluster goes; buckets of its namespace are collected with it. *)
DeleteCluster ==
  /\ focus \in {"bucket", "key", "token"} /\ cluster.state # "gone"
  /\ \/ cluster.state = "Running" /\ cluster' = [cluster EXCEPT !.state = "deleting"] /\ Edit
     \/ cluster.state = "deleting" /\ cluster' = [cluster EXCEPT !.state = "gone"] /\ UNCHANGED edits
  /\ Others /\ UNCHANGED <<bucket, key, secrets, source, remote, grants, token>>

CollectBucket ==
  /\ cluster.state = "gone" /\ bucket.fin /\ ~bucket.del
  /\ bucket' = [bucket EXCEPT !.del = TRUE]
  /\ Others /\ UNCHANGED <<cluster, key, secrets, source, remote, grants, token, edits>>

(* What happens to Garage and to the import Secret from outside.  Bound:   *)
(* what is lost can be made again.                                         *)
Outside ==
  /\ \/ focus = "lookup" /\ \E s \in {"ok", "hang", "decode"} \ {remote.sick} :
          remote' = [remote EXCEPT !.sick = s] /\ UNCHANGED source
     \/ focus = "alias" /\ remote.alias["a2"] = Foreign
        /\ remote' = [remote EXCEPT !.alias["a2"] = 0] /\ UNCHANGED source
     \/ focus = "bucket" /\ IsBucket(bucket.id)   \* objects are put or removed
        /\ \E full \in SUBSET {bucket.id} \ {remote.full} : remote' = [remote EXCEPT !.full = full]
        /\ UNCHANGED source
     \/ focus = "import" /\ source' \in Material \ {source} /\ UNCHANGED remote
     \/ focus = "lostKey" /\ IsKey(key.id) /\ key.nonce < MaxNonce /\ remote' = DeleteKey(remote, key.id) /\ UNCHANGED source
     \/ focus = "lostBucket" /\ IsBucket(bucket.id) /\ MayCreate
        /\ remote' = DeleteBucket(remote, bucket.id) /\ UNCHANGED source
  /\ Edit /\ Others /\ UNCHANGED <<cluster, bucket, key, secrets, grants, token>>

(* The GarageCluster controller consumes the annotation and runs the repair.*)
RunRepair ==
  /\ cluster.repair # "none" /\ cluster.state = "Running"
  /\ cluster' = [cluster EXCEPT !.repair = "none"]
  /\ remote' = [remote EXCEPT !.sick = IF @ = "decode" THEN "ok" ELSE @]
  /\ Others /\ UNCHANGED <<bucket, key, secrets, source, grants, token, edits>>

Next ==
  \/ BucketNext \/ KeyNext \/ BucketFault \/ KeyFault
  \/ TokenNext \/ TokenFault \/ ReconcileGrant
  \/ EditBucket \/ EditKey \/ CreateOrDelete \/ EditGrant \/ EditToken
  \/ DeleteCluster \/ CollectBucket \/ Outside \/ RunRepair

Spec == Init /\ [][Next]_tenantVars

(* Every queued object is reconciled again and again (drift and error      *)
(* requeues); the garbage collector and the cluster controller run.        *)
FairSpec ==
  /\ Spec
  /\ SF_tenantVars(BucketNext) /\ SF_tenantVars(KeyNext)
  /\ WF_tenantVars(TokenNext) /\ WF_tenantVars(ReconcileGrant)
  /\ WF_tenantVars(CollectBucket) /\ WF_tenantVars(RunRepair)
  /\ WF_tenantVars(CollectKeySecrets)

-----------------------------------------------------------------------------
(* A bucket or a key the operator created is live in Garage only while the *)
(* object it was created for exists, and there is never a second one for   *)
(* the same object: whatever crash falls between the remote create, the    *)
(* status write and the finalizer, creates are found again and finalizers  *)
(* delete them (getOrCreateBucket, createOrAdoptDeterministic, finalize).  *)
NothingIsLeftBehind ==
  cluster.state = "Running" /\ focus # "lostKey" =>
    /\ \A b \in BucketId : IsBucket(b) /\ remote.by[b] # 0 => remote.by[b] = bucket.uid
    /\ \A k \in KeyId : IsKey(k) /\ remote.keyBy[k] # 0 =>
                           remote.keyBy[k] = key.uid
    /\ Cardinality({b \in BucketId : IsBucket(b) /\ remote.by[b] = bucket.uid /\ bucket.uid # 0}) <= 1

(* A bucket somebody else made is never renamed, unaliased or deleted by   *)
(* the workers unless spec.bucketId names it: an alias alone is no         *)
(* authority (getOrCreateBucket, reconcileGlobalAlias, finalize).          *)
ForeignBucketIsUntouched ==
  [][edits' = edits /\ Foreign \notin {bucket.want, bw.obj.want} =>
       /\ remote'.bucket[Foreign] = remote.bucket[Foreign]
       /\ \A a \in Alias : remote.alias[a] = Foreign => remote'.alias[a] = Foreign]_tenantVars

(* No global alias is forgotten: what resolves to the bucket is the        *)
(* managed, the pending or the reservation alias; and a bucket that is     *)
(* Ready at its generation resolves under one of them                      *)
(* (reconcileGlobalAlias, clearBucketReservationAlias).                    *)
OwnAliases == {a \in Alias : remote.alias[a] = bucket.id}
OwnBucket == IsBucket(bucket.id) /\ remote.by[bucket.id] = bucket.uid
AliasHandoffIsSafe ==
  OwnBucket =>
    /\ OwnAliases \subseteq {bucket.mAlias, bucket.pAlias, Reservation(bucket.uid)}
    /\ bucket.phase = "Ready" /\ bucket.og = bucket.ver => OwnAliases # {}

(* A rename never leaves the bucket without any alias, also between the    *)
(* two calls of reconcileGlobalAlias.                                      *)
RenameKeepsAnAlias ==
  OwnBucket /\ bucket.mAlias # NoAlias => OwnAliases # {}

(* Every permission a key has on a bucket is reserved in the status of the *)
(* GarageBucket or of the GarageKey, so that removing its declaration can  *)
(* revoke it (reconcileKeyPermissions, reconcileManagedBucketPermissions); *)
(* but for a key whose allBuckets was removed during a Secret handoff: its *)
(* last status write clears clusterWide for the newer spec, and the grants *)
(* made for the older one are forgotten (updateStatusFromGarage).          *)
GrantsAreRevocable ==
  \A b \in BucketId, k \in KeyId : remote.perm[b][k] # {} =>
    \/ b = bucket.id /\ k \in bucket.mKeys
    \/ k = key.id /\ (b \in key.mBuckets \/ key.wide \/ key.lost)

(* Every local alias of the bucket is one its status manages, so that      *)
(* finalization and a later edit can remove it (reconcileLocalAliases).    *)
LocalAliasesAreTracked ==
  IsBucket(bucket.id) => remote.local[bucket.id] \subseteq bucket.mLocal

(* LifecycleConfigured=True at the current generation means that Garage    *)
(* stores the rules of the spec, even when an old Garage accepts and       *)
(* ignores the write (verifyLifecycleApplied).                             *)
LifecycleIsHonest ==
  bucket.phase = "Ready" /\ bucket.og = bucket.ver /\ bucket.rulesSet = "true"
    => remote.rules[bucket.id] = bucket.life

(* No Secret with a credential of a live GarageKey is lost sight of: it is *)
(* the one the status names or carries the label cleanup looks for         *)
(* (markPreviousGeneratedSecret, cleanupStaleGeneratedSecrets).            *)
CredentialIsTracked ==
  \A s \in SecretName : secrets[s].by = key.uid /\ key.uid # 0 =>
    s = key.sref \/ secrets[s].label = key.uid

(* Once recorded, the identity of a key is never exchanged under a live    *)
(* object, whatever happens to the Secret it was imported from             *)
(* (reconcileKey, getOrCreateKey).                                         *)
KeyIdentityIsStable ==
  [][IsKey(key.id) /\ key'.uid = key.uid => key'.id = key.id]_tenantVars

(* status.inUseBy of a grant is exact once its queue is drained: the watch *)
(* of the old and the new object queues every grant that is concerned      *)
(* (SetupWithManager, findUsers).                                          *)
InUseIsExact ==
  \A n \in {"c", "k"} : n \notin grants.queue => grants.inUse[n] = UsedBy(n)

(* The digest the status pins is that of the bearer in the Secret, across  *)
(* crashes and conflicts between the two writes, unless the pinned bearer  *)
(* is lost: somebody deleted its Secret, or its Create failed after the    *)
(* digest was taken.  A missing Secret is generated again whatever is      *)
(* pinned, and when the status write is lost then, the digest keeps naming *)
(* the lost bearer (reconcileSecret).                                      *)
TokenIsPinned ==
  token.digest # 0 /\ token.sec.by = token.uid =>
    token.sec.val = token.digest \/ token.digest \in token.lost

(* A bearer that is in its Secret is never replaced there, and a digest is *)
(* only ever exchanged for another when its bearer is lost: no reconcile   *)
(* rotates the credential the cluster consumes (reconcileSecret,           *)
(* updateStatus).                                                          *)
TokenIsNeverRotated ==
  [][token'.uid = token.uid =>
       /\ token.digest # 0 /\ token'.digest # token.digest => token.digest \in token.lost
       /\ token.sec.by # 0 /\ token'.sec # token.sec =>
            token.del \/ token.sec.val \in token'.lost]_tenantVars

(* When users and faults stop, a key ends up with exactly the union of     *)
(* what the two objects declare and the grants permit, whichever of the    *)
(* two controllers ran last (reconcileKeyPermissions).                     *)
Declared ==
  (IF bucket.kp.on /\ Permitted("bucket-key") THEN bucket.kp.p ELSE {})
  \cup (IF key.bp.on /\ Permitted("key-bucket") THEN key.bp.p ELSE {})
  \cup (IF key.all THEN Perm ELSE {})
PermissionsSettle ==
  <>[](/\ focus = "perms" /\ key.uid # 0 /\ ~key.del /\ Permitted("key-cluster")
       /\ key.all => Permitted("key-bucket")
       => remote.perm[Mine][Derived(0)] = Declared)

(* The same without the condition on allBuckets: the GarageBucket side     *)
(* asks for a grant from the key's namespace to the bucket, the GarageKey  *)
(* side does not, so that each undoes the other.                           *)
PermissionsDoNotFlap ==
  <>[](focus = "perms" /\ key.uid # 0 /\ ~key.del /\ Permitted("key-cluster")
       => remote.perm[Mine][Derived(0)] = Declared)

(* A key or a bucket that somebody deletes in Garage is made again, the    *)
(* key under a fresh identity, since its tombstone blocks the old one      *)
(* (createOrAdoptDeterministic, getOrCreateBucket).                        *)
LostIsReplaced ==
  /\ key.id # 0 /\ ~IsKey(key.id) ~> key.uid = 0 \/ key.del \/ IsKey(key.id)
  /\ bucket.id # 0 /\ ~IsBucket(bucket.id) ~> bucket.uid = 0 \/ IsBucket(bucket.id)

(* Decode errors of the key table lead to a repair and heal: the counter   *)
(* in the status survives failing reconciles (recordBucketDecodeError).    *)
DecodeErrorsHeal == remote.sick = "decode" ~> remote.sick # "decode"

(* A rename of the generated Secret removes the old one in the end         *)
(* (cleanupStaleGeneratedSecrets).                                         *)
StaleSecretsGo ==
  \A s \in SecretName :
    secrets[s].by # 0 /\ s # key.sec ~> secrets[s].by = 0 \/ s = key.sec

(* A deletion completes, except for a bucket with objects in it, which     *)
(* Garage refuses to delete, and for an import whose material was never    *)
(* secured: its finalizer is kept on purpose (finalize,                    *)
(* garageKeyFinalizationID).                                               *)
DeletionCompletes ==
  /\ bucket.del ~> bucket.uid = 0 \/ remote.sick # "ok" \/ {bucket.id, bucket.want} \cap remote.full # {}
  /\ key.del ~> key.uid = 0 \/ (key.imp = "ref" /\ key.id = 0 /\ snapshot.by # key.uid)

-----------------------------------------------------------------------------
(* What the runs check.                                                    *)

(* The state is well formed, and whatever the operator put into Garage or  *)
(* into a Secret is recorded where a later edit or the finalizer looks for *)
(* it: buckets and keys, their aliases, permissions and credentials        *)
(* (getOrCreateBucket, createOrAdoptDeterministic, reconcileGlobalAlias,   *)
(* reconcileKeyPermissions, markPreviousGeneratedSecret).                  *)
EverythingIsTracked ==
  /\ TypeOK /\ NothingIsLeftBehind
  /\ AliasHandoffIsSafe /\ LocalAliasesAreTracked
  /\ GrantsAreRevocable /\ CredentialIsTracked

(* What a status claims is so: the rules that are applied, the users of a  *)
(* grant and the digest of a bearer, across crashes, missed events and a   *)
(* Garage that ignores writes (verifyLifecycleApplied, findUsers,          *)
(* reconcileSecret).                                                       *)
StatusIsHonest == LifecycleIsHonest /\ InUseIsExact /\ TokenIsPinned

(* No step takes what is not the object's own: neither a foreign bucket    *)
(* nor another identity for a key nor another bearer for a token           *)
(* (getOrCreateBucket, getOrCreateKey, reconcileSecret).                   *)
IdentitiesAreRespected ==
  ForeignBucketIsUntouched /\ KeyIdentityIsStable /\ TokenIsNeverRotated

(* What was lost or broken in Garage is made again or repaired             *)
(* (createOrAdoptDeterministic, recordBucketDecodeError).                  *)
DamageHeals == DecodeErrorsHeal /\ LostIsReplaced

(* Deletions and renames come to their end, whatever faults fall into them *)
(* (finalize, cleanupStaleGeneratedSecrets).                               *)
CleanupCompletes == DeletionCompletes /\ StaleSecretsGo
=============================================================================
