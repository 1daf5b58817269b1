---------------------------- MODULE TenantState ----------------------------
(***************************************************************************)
(* What the GarageBucket and the GarageKey controller share: their two     *)
(* custom resources, the ReferenceGrants between their namespaces, and     *)
(* Garage itself, reached through its Admin API.                           *)
(*                                                                         *)
(* One GarageBucket lives in the namespace of its cluster, one GarageKey   *)
(* in another namespace, so that every reference between them needs a      *)
(* grant (with focus "local" they share the namespace: a local alias names *)
(* a key of the bucket's own namespace).                                   *)
(* Object names, payloads and messages are left out.  An object that is    *)
(* not there has uid 0; a remote ID that is not recorded is 0.             *)
(*                                                                         *)
(* A behaviour is about one aspect of the two specs (variable focus): the  *)
(* user edits only that aspect, so that one run covers every aspect        *)
(* without their product.                                                  *)
(***************************************************************************)
EXTENDS Naturals, FiniteSets, Functions

CONSTANTS
  Perm,          \* the permission bits of a key on a bucket
  Focus,         \* the aspects of the two specs a run covers
  MaxUID,        \* bound: incarnations of one object
  MaxNonce,      \* bound: replacement identities of one key
  MaxEdits,      \* bound: user actions
  MaxFaults,     \* bound: crashes, lost responses, failed calls
  Concurrent,    \* the two controllers may reconcile at the same time
  CrashOnLoss,   \* faults may also hit the re-creation of a lost bucket
  LookupThreshold \* BucketLookupStuckThreshold, BucketDecodeErrorThreshold

AllFocus == {"perms", "bucket", "alias", "local", "settings", "lookup",
             "key", "legacy", "import", "secret", "token",
             "lostKey", "lostBucket"}  \* somebody deletes it in Garage, behind the operator

ASSUME TenantAssumption ==
  /\ Focus \subseteq AllFocus
  /\ MaxUID \in Nat \ {0} /\ MaxNonce \in Nat /\ MaxEdits \in Nat
  /\ MaxFaults \in Nat /\ Concurrent \in BOOLEAN /\ CrashOnLoss \in BOOLEAN
  /\ LookupThreshold \in Nat \ {0}

VARIABLES
  focus,     \* the aspect this behaviour is about
  cluster,   \* the GarageCluster: its state, and its trigger-repair annotation
  bucket,    \* the GarageBucket in the API server
  key,       \* the GarageKey in the API server
  secrets,   \* Secrets a GarageKey may publish its credential in
  source,    \* the key material in the user's import Secret
  snapshot,  \* the immutable import snapshot: the material and its owner
  grants,    \* the GarageReferenceGrants: spec.to, status.inUseBy, queued reconciles
  remote,    \* Garage
  bw,        \* the reconcile the GarageBucket worker is in
  kw,        \* the reconcile the GarageKey worker is in
  token,     \* the GarageAdminToken: object, Secret, consumer and worker
  edits, faults

tenantVars == <<focus, cluster, bucket, key, secrets, source, snapshot, grants,
                remote, bw, kw, token, edits, faults>>

-----------------------------------------------------------------------------
(* Identities.                                                             *)

UID == 0..MaxUID
Foreign == 1                           \* a bucket the operator did not create
BucketId == 1..(MaxUID + 2)
Legacy == 1                            \* the identity derived from spec.name before v0.7.4
KeyId == 1..(MaxNonce + 4)
\* Mutant: the nonce is left out.
DerivedOnce(nonce) == 2

Derived(nonce) == nonce + 2            \* deriveKeyMaterial(rpcSecret, namespace, deterministicKeyName)
Material == {MaxNonce + 3, MaxNonce + 4}
SecretName == {"s1", "s2"}
LocalAlias == {"l1"}
NoAlias == "-"
Reservation(uid) == IF uid = 1 THEN "rsv1" ELSE "rsv2"   \* UIDBoundReservationAlias
Alias == {"a1", "a2", "rsv1", "rsv2"}

Decl == [on : BOOLEAN, p : SUBSET Perm]
Undeclared == [on |-> FALSE, p |-> {}]

(* One grant in the cluster's namespace ("c") names the key's namespace in  *)
(* spec.from, one in the key's namespace ("k") the bucket's.  spec.to lists *)
(* kinds; an empty list grants the two kinds that were there first.         *)
GrantPermits(to, kind) ==
  kind \in (IF to = {} THEN {"GarageCluster", "GarageBucket"} ELSE to)
CheckReferenceGrant(namespace, kind) ==
  focus = "local" \/ GrantPermits(grants.to[namespace], kind)

Permitted(ref) == CASE ref = "key-cluster" -> CheckReferenceGrant("c", "GarageCluster")
                    [] ref = "key-bucket"  -> CheckReferenceGrant("c", "GarageBucket")
                    [] ref = "bucket-key"  -> CheckReferenceGrant("k", "GarageKey")

-----------------------------------------------------------------------------
(* The Garage Admin API.                                                   *)

IsBucket(id) == id # 0 /\ remote.bucket[id] = "live"
IsKey(id) == id # 0 /\ remote.key[id] = "live"
MayCreate == \E b \in BucketId : remote.bucket[b] = "free"   \* bound: Garage has an ID left
FreeBucket == CHOOSE i \in BucketId :
                /\ remote.bucket[i] = "free"
                /\ \A j \in BucketId : j < i => remote.bucket[j] # "free"

CreateBucket(r, id, alias, uid) ==
  [r EXCEPT !.bucket[id] = "live", !.by[id] = uid, !.alias[alias] = id]

(* Deleting a bucket takes its aliases and its permissions with it.        *)
DeleteBucket(r, id) ==
  [r EXCEPT !.bucket[id] = IF @ = "live" THEN "deleted" ELSE @,
            !.alias = [a \in Alias |-> IF @[a] = id THEN 0 ELSE @[a]],
            !.perm[id] = [k \in KeyId |-> {}],
            !.local[id] = {}]

ImportKey(r, id, uid, name) ==
  [r EXCEPT !.key[id] = "live", !.keyBy[id] = uid, !.name[id] = name]

(* A deleted key leaves a tombstone: its ID cannot be imported again.      *)
DeleteKey(r, id) ==
  [r EXCEPT !.key[id] = IF @ = "live" THEN "tombstone" ELSE @,
            !.perm = [b \in BucketId |-> [@[b] EXCEPT ![id] = {}]],
            !.local = [b \in BucketId |-> {l \in @[b] : l[1] # id}]]

\* Mutant: permissions are only ever added.
ExactAllowOnly(r, id, k, current, desired) ==
  [r EXCEPT !.perm[id][k] = IF r.bucket[id] = "live" /\ r.key[k] = "live"
                            THEN @ \cup (desired \ current) ELSE @]

(* reconcileExactBucketKeyPermissions: the difference between what the     *)
(* worker read and what it wants is denied and then allowed.  Denying a    *)
(* key that is gone is not an error, allowing one is.                      *)
Exact(r, id, k, current, desired) ==
  [r EXCEPT !.perm[id][k] = IF r.bucket[id] = "live" /\ r.key[k] = "live"
                            THEN (@ \ (current \ desired)) \cup (desired \ current)
                            ELSE @]
ExactFails(id, k, current, desired) ==
  desired \ current # {} /\ ~(IsBucket(id) /\ IsKey(k))

-----------------------------------------------------------------------------
(* The objects.  ver is the generation, og status.observedGeneration; cfg   *)
(* stands for website access and quotas, life for the lifecycle rules, want *)
(* for spec.bucketId, rsv for the reservation annotation; renamed says that *)
(* a key's spec.name differs from its object name, pin is the recorded      *)
(* import identity, sec and sref the spec's and the status' Secret.         *)
(* lost is no field of the object: a status write has cleared clusterWide   *)
(* while the grants it stands for were there.                               *)

NoBucket == [uid |-> 0, del |-> FALSE, fin |-> FALSE, ver |-> 0, og |-> 0, rsv |-> FALSE,
             mpu |-> FALSE, want |-> 0, alias |-> "a1", kp |-> Undeclared, la |-> {},
             cfg |-> 0, life |-> 0, id |-> 0, mAlias |-> NoAlias, pAlias |-> NoAlias,
             mKeys |-> {}, mLocal |-> {}, phase |-> "", rules |-> 0, rulesSet |-> "none",
             timeouts |-> 0, stuck |-> FALSE, decodes |-> 0]

NoKey == [uid |-> 0, del |-> FALSE, fin |-> FALSE, ver |-> 0, nonce |-> 0,
          renamed |-> FALSE, imp |-> "none", pin |-> 0, bp |-> Undeclared,
          all |-> FALSE, sec |-> "s1", id |-> 0, mBuckets |-> {}, wide |-> FALSE,
          sref |-> NoAlias, phase |-> "", lost |-> FALSE]

NewBucket(uid, want) == [NoBucket EXCEPT !.uid = uid, !.want = want]
NewKey(uid, imp, renamed) == [NoKey EXCEPT !.uid = uid, !.imp = imp, !.renamed = renamed]

(* A reconcile: obj is the object as it was read or last written, seen what *)
(* Garage answered about the bucket, des and man the desired and the        *)
(* declared part of a set under reconciliation, tgt what is left to do.     *)
Unseen == [alias |-> {}, perm |-> [k \in KeyId |-> {}], local |-> {}, cfg |-> 0]
SeenOf(r, id) == [alias |-> {a \in Alias : r.alias[a] = id}, perm |-> r.perm[id],
                  local |-> r.local[id], cfg |-> r.cfg[id]]
Idle(obj) == [pc |-> "idle", obj |-> obj, id |-> 0, name |-> NoAlias, seen |-> Unseen,
              des |-> [k \in KeyId |-> {}], man |-> {}, tgt |-> {}, err |-> FALSE]

KeyIdle(obj) == [pc |-> "idle", obj |-> obj, id |-> 0, full |-> FALSE,
                 cur |-> [b \in BucketId |-> {}], des |-> [b \in BucketId |-> {}],
                 man |-> {}, tgt |-> {}, err |-> FALSE]

EmptyGarage ==
  [bucket |-> [b \in BucketId |-> "free"], by |-> [b \in BucketId |-> 0],
   alias |-> [a \in Alias |-> 0], key |-> [k \in KeyId |-> "free"],
   keyBy |-> [k \in KeyId |-> 0], name |-> [k \in KeyId |-> FALSE],
   perm |-> [b \in BucketId |-> [k \in KeyId |-> {}]],
   local |-> [b \in BucketId |-> {}], cfg |-> [b \in BucketId |-> 0],
   rules |-> [b \in BucketId |-> 0], full |-> {}, old |-> FALSE, sick |-> "ok", uploads |-> FALSE]

(* Bound: where both objects are edited and reconciled, and where several  *)
(* fields are, users and faults share a smaller budget.                    *)
Affordable == focus \in {"perms", "local", "settings"} => edits + faults < MaxEdits - 1
Fault == /\ faults < MaxFaults /\ Affordable /\ (focus = "lostBucket" => CrashOnLoss)
         /\ faults' = faults + 1

(* A change of a GarageKey or a GarageBucket queues the grants of the       *)
(* namespaces its old or its new spec refers to.                            *)

(* grantTargetNamespaces *)
KeyTargets(k) == IF k.uid # 0 THEN {"c"} ELSE {}
BucketTargets(b) == IF b.uid # 0 /\ b.kp.on THEN {"k"} ELSE {}

\* Mutant: only the object after the change is mapped.
MapNewToGrants(old, new) == new

(* mapToGrants: a watch delivers the object before and after a change.  A  *)
(* change of neither identity nor references queues nothing new.           *)
MapToGrants(old, new) == old \cup new
TenantWatch ==
  grants' = [grants EXCEPT !.queue = @
     \cup (IF <<key.uid, key.bp>> = <<key'.uid, key'.bp>> THEN {}
           ELSE MapToGrants(KeyTargets(key), KeyTargets(key')))
     \cup (IF <<bucket.uid, bucket.kp>> = <<bucket'.uid, bucket'.kp>> THEN {}
           ELSE MapToGrants(BucketTargets(bucket), BucketTargets(bucket')))]

(* Every variable stays in its range, and the phases, the counters and the *)
(* recorded identities in theirs.                                          *)
TypeOK ==
  /\ focus \in Focus
  /\ cluster \in [state : {"Running", "deleting", "gone"}, repair : {"none", "Blocks", "Tables"}]
  /\ bucket \in [uid : UID, del : BOOLEAN, fin : BOOLEAN, ver : 0..MaxEdits, og : 0..MaxEdits,
                 rsv : BOOLEAN, mpu : BOOLEAN, want : {0, Foreign}, alias : {"a1", "a2"},
                 kp : Decl, la : SUBSET LocalAlias, cfg : 0..1, life : 0..1,
                 id : BucketId \cup {0}, mAlias : Alias \cup {NoAlias},
                 pAlias : Alias \cup {NoAlias}, mKeys : SUBSET KeyId,
                 mLocal : SUBSET (KeyId \X LocalAlias), phase : {"", "Ready", "Failed", "Pending"},
                 rules : 0..1, rulesSet : {"none", "true", "false"},
                 timeouts : 0..LookupThreshold, stuck : BOOLEAN, decodes : 0..LookupThreshold]
  /\ key \in [uid : UID, del : BOOLEAN, fin : BOOLEAN, ver : 0..MaxEdits, nonce : 0..MaxNonce,
              renamed : BOOLEAN, imp : {"none", "ref"}, pin : KeyId \cup {0}, bp : Decl,
              all : BOOLEAN, sec : SecretName, id : KeyId \cup {0},
              mBuckets : SUBSET BucketId, wide : BOOLEAN, sref : SecretName \cup {NoAlias},
              phase : {"", "Ready", "Failed", "Pending"}, lost : BOOLEAN]
  /\ secrets \in [SecretName -> [by : UID, label : UID, full : BOOLEAN]]
  /\ source \in Material
  /\ snapshot \in [by : UID, id : KeyId \cup {0}]
  /\ grants.inUse \in [{"c", "k"} -> BOOLEAN] /\ grants.queue \subseteq {"c", "k"}
  /\ remote.bucket \in [BucketId -> {"free", "live", "deleted"}]
  /\ remote.key \in [KeyId -> {"free", "live", "tombstone"}]
  /\ remote.alias \in [Alias -> BucketId \cup {0}]
  /\ remote.perm \in [BucketId -> [KeyId -> SUBSET Perm]]
  /\ edits \in 0..MaxEdits /\ faults \in 0..MaxFaults
=============================================================================
