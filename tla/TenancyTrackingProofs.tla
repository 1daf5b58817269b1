----------------------- MODULE TenancyTrackingProofs -----------------------
(***************************************************************************)
(* Theorems about the tenant controllers: whatever they put into Garage or *)
(* into a Secret is recorded where a later edit or the finalizer looks for *)
(* it, and no step takes a bucket or an identity that is not the object's. *)
(***************************************************************************)
EXTENDS TenancyProofs

-----------------------------------------------------------------------------
(* Buckets in Garage.                                                      *)
Attended == cluster.state = "Running" \/ bucket.fin
Own(b) == remote.bucket[b] = "live" /\ remote.by[b] # 0
Rsv == Reservation(bucket.uid)
Tracked(b) ==
  /\ remote.by[b] = bucket.uid
  /\ b = bucket.id \/ (bucket.rsv /\ remote.alias[Rsv] = b)

GarageForm ==
  /\ \A b \in BucketId : remote.bucket[b] = "free" => remote.by[b] = 0
  /\ \A b \in BucketId : remote.bucket[b] # "live" =>
       remote.local[b] = {} /\ \A k \in KeyId : remote.perm[b][k] = {}
  /\ \A k \in KeyId : remote.key[k] # "live" => \A b \in BucketId : remote.perm[b][k] = {}
  /\ \A k \in KeyId : remote.key[k] = "free" <=> remote.keyBy[k] = 0
  /\ \A a \in Alias : remote.alias[a] # 0 => remote.bucket[remote.alias[a]] = "live"

ForeignForm ==
  /\ remote.by[Foreign] = 0 /\ remote.bucket[Foreign] # "free"
  /\ \A a \in {"rsv1", "rsv2"} : remote.alias[a] # Foreign
  /\ bucket.id = Foreign => bucket.want = Foreign
  /\ bw.pc \in Holding /\ bw.id = Foreign => bucket.want = Foreign
  /\ bucket.want # 0 => ~bucket.rsv

BucketTracking ==
  /\ Attended => \A b \in BucketId : Own(b) => Tracked(b)
  /\ Attended => \A b, c \in BucketId : Own(b) /\ Own(c) => b = c
  /\ bw.pc \in {"create", "drop"} => \A b \in BucketId : ~Own(b)
  /\ bw.pc = "create" => bucket.want = 0 /\ bucket.rsv
  /\ bw.pc \in Holding \ {"bind"} => bucket.id = bw.id
  /\ bw.pc \in Holding /\ bucket.rsv => remote.alias[Rsv] \in {0, bw.id}
  /\ bw.pc = "bind" => ~IsBucket(bucket.id) \/ bucket.id = bw.id
  /\ bw.pc = "bind" /\ Own(bw.id) => bucket.rsv /\ remote.alias[Rsv] = bw.id
  /\ bw.pc \in Holding => remote.bucket[bw.id] # "free"
  /\ bw.pc = "create" => ~IsBucket(bucket.id)
  /\ bucket.want # 0 => bucket.id \in {0, bucket.want} /\ (bw.pc \in Holding => bw.id = bucket.want)

(* Keys in Garage.                                                         *)
KeyAttended == cluster.state = "Running" \/ key.fin
KeyTracked(k) ==
  IF key.imp = "ref" THEN snapshot.by = key.uid /\ snapshot.id = k
  ELSE \/ k = key.id
       \/ key.id = 0 /\ (k = Derived(key.nonce) \/ (k = Legacy /\ key.renamed /\ key.nonce = 0))
Live(k) == remote.key[k] = "live"
KeysHeld ==
  /\ focus = "lostKey" => key.uid \in {0, 1} /\ \A k \in KeyId : remote.keyBy[k] \in {0, 1}
  /\ KeyAttended /\ (focus # "lostKey" \/ key.uid # 0) => \A k \in KeyId : Live(k) => remote.keyBy[k] = key.uid
  /\ key.id # 0 => remote.keyBy[key.id] = key.uid
  /\ Live(Legacy) => focus = "legacy" /\ key.renamed /\ key.nonce = 0 /\ key.uid # 0 /\ key.imp = "none"
  /\ KeyAttended /\ focus # "lostKey" =>
       /\ \A k \in KeyId : Live(k) => KeyTracked(k) /\ key.fin
       /\ \A k, l \in KeyId : Live(k) /\ Live(l) => k = l

\* What a worker knows of the key it holds.
KeyAtHand ==
  /\ focus # "lostKey" /\ key.id # 0 /\ ~Live(key.id) => key.del /\ kw.pc \notin KWorking
  /\ focus # "lostKey" /\ kw.pc \in KHolding => Live(kw.id)
  /\ kw.pc \in KHolding => remote.keyBy[kw.id] = key.uid
  /\ kw.pc \in KHolding \ {"bind"} => kw.id = key.id
  /\ kw.pc \in {"mark", "publish", "handoff", "sweep", "status"} => key.id # 0
  /\ kw.pc = "revoke" /\ focus # "lostKey" => \A k \in KeyId : Live(k) => k \in kw.tgt

Used == {u \in 1..MaxUID : \E k \in KeyId : remote.keyBy[k] = u}
Credentials ==
  /\ CredentialIsTracked
  /\ kw.pc \in {"publish", "handoff"} => \A s \in SecretName : secrets[s].by = key.uid => secrets[s].label = key.uid
  /\ \A s \in SecretName : secrets[s].by # 0 => \E k \in KeyId : remote.keyBy[k] = secrets[s].by
  /\ \E n \in 0..MaxUID : Used = 1..n /\ key.uid <= n + 1

-----------------------------------------------------------------------------
(* What a step does to Garage, entry by entry.                             *)

SameGarage ==
  /\ remote'.bucket = remote.bucket /\ remote'.by = remote.by /\ remote'.alias = remote.alias
  /\ remote'.perm = remote.perm /\ remote'.local = remote.local
SameKeys == remote'.key = remote.key /\ remote'.keyBy = remote.keyBy
Creates(i) ==
  /\ i \in BucketId /\ remote.bucket[i] = "free" /\ remote'.perm = remote.perm /\ remote'.local = remote.local
  /\ \A b \in BucketId : remote'.bucket[b] = (IF b = i THEN "live" ELSE remote.bucket[b])
  /\ \A b \in BucketId : remote'.by[b] = (IF b = i THEN bucket.uid ELSE remote.by[b])
  /\ \A a \in Alias : remote'.alias[a] = (IF a = Rsv THEN i ELSE remote.alias[a])
Deletes(i) ==
  /\ i \in BucketId /\ remote'.by = remote.by
  /\ \A b \in BucketId : remote'.bucket[b] = (IF b = i /\ remote.bucket[b] = "live" THEN "deleted" ELSE remote.bucket[b])
  /\ \A a \in Alias : remote'.alias[a] = (IF remote.alias[a] = i THEN 0 ELSE remote.alias[a])
  /\ \A b \in BucketId, k \in KeyId : remote'.perm[b][k] = (IF b = i THEN {} ELSE remote.perm[b][k])
  /\ \A b \in BucketId : remote'.local[b] = (IF b = i THEN {} ELSE remote.local[b])
SameBuckets ==
  remote'.bucket = remote.bucket /\ remote'.by = remote.by /\ remote'.perm = remote.perm /\ remote'.local = remote.local
Unaliases(a) ==
  /\ a \in Alias /\ SameBuckets
  /\ \A c \in Alias : remote'.alias[c] = (IF c = a /\ remote.alias[c] = bw.id THEN 0 ELSE remote.alias[c])
Aliased ==
  /\ IsBucket(bw.id) /\ remote.alias[bw.name] \in {0, bw.id} /\ SameBuckets
  /\ \A c \in Alias : remote'.alias[c] = (IF c = bw.name THEN bw.id ELSE remote.alias[c])
SameNames == remote'.bucket = remote.bucket /\ remote'.by = remote.by /\ remote'.alias = remote.alias
Permits(i, k, c, d) ==
  /\ i \in BucketId /\ k \in KeyId /\ SameNames /\ remote'.local = remote.local
  /\ \A b \in BucketId, l \in KeyId :
       remote'.perm[b][l] = (IF b = i /\ l = k /\ remote.bucket[i] = "live" /\ remote.key[k] = "live"
                             THEN (remote.perm[b][l] \ (c \ d)) \cup (d \ c) ELSE remote.perm[b][l])
Localizes(l) ==
  /\ l \in KeyId \X LocalAlias /\ IsBucket(bw.id) /\ SameNames /\ remote'.perm = remote.perm
  /\ \A b \in BucketId : remote'.local[b] = (IF b = bw.id THEN remote.local[b] \cup {l} ELSE remote.local[b])
Unlocalizes ==
  /\ SameNames /\ remote'.perm = remote.perm
  /\ \A b \in BucketId : remote'.local[b] =
       (IF b = bw.id THEN remote.local[b] \ ((bw.obj.mLocal \ bw.man) \cap bw.seen.local) ELSE remote.local[b])

BucketCalls ==
  /\ SameKeys
  /\ \/ SameGarage
     \/ bw.pc = "create" /\ bw'.pc = "bind" /\ bw'.id = FreeBucket /\ Creates(FreeBucket)
        /\ bw'.seen = SeenOf(remote', FreeBucket)
     \/ bw.pc = "finalize" /\ bw'.pc = "drop" /\ Doomed(bw.obj) # 0 /\ Deletes(Doomed(bw.obj))
     \/ bw.pc = "alias" /\ bw'.pc = "abandoned" /\ Abandoned /\ bw.obj.pAlias \in bw.seen.alias /\ Unaliases(bw.obj.pAlias)
     \/ bw.pc = "aliasAdd" /\ bw'.pc = "aliasDrop" /\ bw.name \notin bw.seen.alias /\ Aliased
     \/ bw.pc = "aliasDrop" /\ bw'.pc = "aliasDone" /\ bw.obj.mAlias \notin {NoAlias, bw.name} /\ Unaliases(bw.obj.mAlias)
     \/ bw.pc = "unreserve" /\ bw'.pc = "unannotate" /\ Unaliases(Reservation(bw.obj.uid))
     \/ bw.pc = "apply" /\ bw'.pc = "apply" /\ \E k \in bw.tgt :
          /\ Permits(bw.id, k, bw.seen.perm[k], bw.des[k]) /\ bw'.tgt = bw.tgt \ {k}
     \/ bw.pc = "localAdd" /\ bw'.pc = "localAdd" /\ \E l \in bw.tgt : Localizes(l) /\ bw'.tgt = bw.tgt \ {l}
     \/ bw.pc = "localAdd" /\ bw'.pc = "localDone" /\ Unlocalizes

\* Where a worker holds a bucket and a name, they are a bucket's and an alias.
LEMMA BucketHeld ==
  ASSUME Base
  PROVE  /\ bw.pc \in Holding => bw.id \in BucketId
         /\ bw.pc \in Working => bw.name \in {"a1", "a2"} /\ bw.name \in Alias /\ bw.name # NoAlias
         /\ bw.pc \in {"union", "apply"} => bw.tgt \subseteq KeyId
         /\ bw.pc = "localAdd" => bw.tgt \subseteq KeyId \X LocalAlias
<1>1. bw.id \in Ids /\ bw.name \in {"a1", "a2", NoAlias}
  BY BucketReads DEF Base, BWorkers
<1>2. bw.pc \in Holding => bw.id # 0
  BY DEF Base, BucketWorker
<1>3. bw.pc \in Working => bw.name # NoAlias
  BY DEF Base, BucketWorker
<1> QED BY <1>1, <1>2, <1>3, Constants DEF Base, BucketWorker, Ids, Alias, NoAlias, Locals

LEMMA UnaliasesStep ==
  ASSUME Base, NEW a \in Alias, remote' = Unalias(remote, a)
  PROVE  SameKeys /\ Unaliases(a)
  BY BucketReads, UnaliasIs DEF Base, SameKeys, Unaliases, SameBuckets

LEMMA CreateCall == ASSUME Base, BucketObject, CreateReservedBucket PROVE BucketCalls
<1>1. /\ bw.pc = "create" /\ FreeBucket \in BucketId /\ remote.bucket[FreeBucket] = "free"
      /\ remote' = CreateBucket(remote, FreeBucket, Reservation(bw.obj.uid), bw.obj.uid)
      /\ bw'.pc = "bind" /\ bw'.id = FreeBucket /\ bw'.seen = SeenOf(remote', FreeBucket)
  BY CreateFlat
<1>2. bw.obj.uid = bucket.uid
  BY <1>1 DEF BucketObject, SameStatus
<1>3. Reservation(bw.obj.uid) \in Alias /\ remote \in Garages
  BY RsvTyped, BucketReads DEF Base
<1>4. SameKeys /\ Creates(FreeBucket)
  BY <1>1, <1>2, <1>3, CreateBucketIs DEF SameKeys, Creates, Rsv
<1> QED BY <1>1, <1>4 DEF BucketCalls

LEMMA FinalizeCall == ASSUME Base, BucketObject, FinalizeBucket PROVE BucketCalls
<1>1. bw.pc = "finalize" /\ remote \in Garages /\ Doomed(bw.obj) \in Ids
  BY FinalizeFlat, BucketReads, DoomedTyped DEF Base
<1>2. CASE remote' = remote
  BY <1>2 DEF BucketCalls, SameKeys, SameGarage
<1>3. CASE remote' = DeleteBucket(remote, Doomed(bw.obj)) /\ Doomed(bw.obj) # 0 /\ bw'.pc = "drop"
  <2>1. Doomed(bw.obj) \in BucketId
    BY <1>1, <1>3 DEF Ids
  <2>2. SameKeys /\ Deletes(Doomed(bw.obj))
    BY <1>1, <1>3, <2>1, DeleteBucketIs DEF SameKeys, Deletes
  <2> QED BY <1>1, <1>3, <2>2 DEF BucketCalls
<1>4. remote' = remote \/ (remote' = (IF Doomed(bw.obj) = 0 THEN remote ELSE DeleteBucket(remote, Doomed(bw.obj))) /\ bw'.pc = "drop")
  <2> HIDE DEF Doomed, Ended
  <2> QED BY FinalizeFlat
<1>5. \/ remote' = remote
      \/ remote' = DeleteBucket(remote, Doomed(bw.obj)) /\ Doomed(bw.obj) # 0 /\ bw'.pc = "drop"
  BY <1>4
<1> QED BY <1>2, <1>3, <1>5

LEMMA AliasCalls ==
  ASSUME Base, BucketObject,
         RemoveAbandonedAlias \/ AddGlobalAlias \/ RemovePreviousAlias \/ RemoveReservationAlias
  PROVE  BucketCalls
<1>1. remote \in Garages /\ (bw.pc \in Working => bw.name \in Alias) /\ (bw.pc \in Holding => bw.id \in BucketId)
  BY BucketReads, BucketHeld DEF Base
<1>2. bw.obj.pAlias \in Alias \cup {NoAlias} /\ bw.obj.mAlias \in Alias \cup {NoAlias}
  BY BucketReads DEF Base, Buckets
<1>3. CASE remote' = remote
  BY <1>3 DEF BucketCalls, SameKeys, SameGarage
<1>4. CASE RemoveAbandonedAlias /\ remote' # remote
  <2>1. bw.pc = "alias" /\ Abandoned /\ bw.obj.pAlias \in bw.seen.alias /\ remote' = Unalias(remote, bw.obj.pAlias) /\ Go("abandoned")
    BY <1>4 DEF RemoveAbandonedAlias, B
  <2>2. bw.obj.pAlias \in Alias
    BY <1>2, <2>1 DEF Abandoned
  <2>3. bw'.pc = "abandoned"
    BY <2>1, GoFlat DEF Went
  <2> QED BY <2>1, <2>2, <2>3, UnaliasesStep DEF BucketCalls
<1>5. CASE AddGlobalAlias /\ remote' # remote
  <2>1. /\ bw.pc = "aliasAdd" /\ bw.name \notin bw.seen.alias /\ IsBucket(bw.id) /\ remote.alias[bw.name] \in {0, bw.id}
        /\ remote' = [remote EXCEPT !.alias[bw.name] = bw.id] /\ Go("aliasDrop")
    BY <1>5 DEF AddGlobalAlias, B
  <2>2. bw.name \in Alias
    BY <1>1, <2>1 DEF Working, Holding
  <2>3. bw'.pc = "aliasDrop"
    BY <2>1, GoFlat DEF Went
  <2>4. SameKeys /\ Aliased
    BY <1>1, <2>1, <2>2 DEF Garages, SameKeys, Aliased, SameBuckets
  <2> QED BY <2>1, <2>3, <2>4 DEF BucketCalls
<1>6. CASE RemovePreviousAlias /\ remote' # remote
  <2>1. /\ bw.pc = "aliasDrop" /\ bw.obj.mAlias \notin {NoAlias, bw.name} /\ Go("aliasDone")
        /\ remote' = Unalias(remote, bw.obj.mAlias)
    BY <1>6 DEF RemovePreviousAlias, B
  <2>3. bw'.pc = "aliasDone"
    BY <2>1, GoFlat DEF Went
  <2> QED BY <1>2, <2>1, <2>3, UnaliasesStep DEF BucketCalls
<1>7. CASE RemoveReservationAlias /\ remote' # remote
  <2>1. bw.pc = "unreserve" /\ Go("unannotate") /\ remote' = Unalias(remote, Reservation(bw.obj.uid))
    BY <1>7 DEF RemoveReservationAlias, B
  <2>3. bw'.pc = "unannotate"
    BY <2>1, GoFlat DEF Went
  <2> QED BY <2>1, <2>3, RsvTyped, UnaliasesStep DEF BucketCalls
<1> QED BY <1>3, <1>4, <1>5, <1>6, <1>7

LEMMA PermissionCall == ASSUME Base, BucketObject, ApplyKeyPermissions PROVE BucketCalls
<1>1. PICK k \in bw.tgt : /\ bw.pc = "apply" /\ bw'.pc = "apply" /\ bw'.tgt = bw.tgt \ {k}
                          /\ remote' = Exact(remote, bw.id, k, bw.seen.perm[k], bw.des[k])
  BY ApplyFlat
<1>2. remote \in Garages /\ bw.id \in BucketId /\ k \in KeyId
  BY <1>1, BucketReads, BucketHeld DEF Base, Holding
<1>3. SameKeys /\ Permits(bw.id, k, bw.seen.perm[k], bw.des[k])
  <2> DEFINE c == bw.seen.perm[k]
             d == bw.des[k]
  <2>1. remote' = Exact(remote, bw.id, k, c, d)
    BY <1>1
  <2> HIDE DEF c, d
  <2>2. SameKeys /\ SameNames /\ remote'.local = remote.local
    BY <1>2, <2>1, ExactIs DEF SameKeys, SameNames
  <2>3. \A b \in BucketId, l \in KeyId :
          remote'.perm[b][l] = (IF b = bw.id /\ l = k /\ remote.bucket[bw.id] = "live" /\ remote.key[k] = "live"
                                THEN (remote.perm[b][l] \ (c \ d)) \cup (d \ c) ELSE remote.perm[b][l])
    BY <1>2, <2>1 DEF Exact, Garages, Perms
  <2>4. Permits(bw.id, k, c, d)
    BY <1>2, <2>2, <2>3 DEF Permits
  <2> QED BY <2>2, <2>4 DEF c, d
<1>4. \E l \in bw.tgt : Permits(bw.id, l, bw.seen.perm[l], bw.des[l]) /\ bw'.tgt = bw.tgt \ {l}
  BY <1>1, <1>3
<1> QED BY <1>1, <1>3, <1>4 DEF BucketCalls

LEMMA LocalCalls == ASSUME Base, BucketObject, AddLocalAlias \/ RemoveLocalAliases PROVE BucketCalls
<1>1. bw.pc = "localAdd"
  BY AddLocalFlat, RemoveLocalFlat
<1>2. remote \in Garages /\ bw.id \in BucketId
  BY <1>1, BucketReads, BucketHeld DEF Base, Holding
<1>3. CASE remote' = remote
  BY <1>3 DEF BucketCalls, SameKeys, SameGarage
<1>4. CASE AddLocalAlias /\ remote' # remote
  <2>1. PICK l \in bw.tgt : /\ remote' = [remote EXCEPT !.local[bw.id] = @ \cup {l}] /\ IsBucket(bw.id)
                            /\ bw'.pc = "localAdd" /\ bw'.tgt = bw.tgt \ {l}
    BY <1>4, AddLocalFlat
  <2>2. l \in KeyId \X LocalAlias
    BY <1>1, BucketHeld
  <2>3. SameKeys /\ Localizes(l)
    BY <1>2, <2>1, <2>2 DEF Garages, SameKeys, Localizes, SameNames
  <2> QED BY <1>1, <2>1, <2>3 DEF BucketCalls
<1>5. CASE RemoveLocalAliases
  <2>1. bw'.pc = "localDone" /\ remote' = [remote EXCEPT !.local[bw.id] = @ \ ((bw.obj.mLocal \ bw.man) \cap bw.seen.local)]
    BY <1>5, RemoveLocalFlat DEF Went
  <2>2. SameKeys /\ Unlocalizes
    BY <1>2, <2>1 DEF Garages, SameKeys, Unlocalizes, SameNames
  <2> QED BY <1>1, <2>1, <2>2 DEF BucketCalls
<1> QED BY <1>3, <1>4, <1>5

LEMMA BucketCallsStep == ASSUME Base, BucketObject, BucketNext \/ BucketFault PROVE BucketCalls
<1>1. CASE CreateReservedBucket
  BY <1>1, CreateCall
<1>2. CASE FinalizeBucket
  BY <1>2, FinalizeCall
<1>3. CASE RemoveAbandonedAlias \/ AddGlobalAlias \/ RemovePreviousAlias \/ RemoveReservationAlias
  BY <1>3, AliasCalls
<1>4. CASE ApplyKeyPermissions
  BY <1>4, PermissionCall
<1>5. CASE AddLocalAlias \/ RemoveLocalAliases
  BY <1>5, LocalCalls
<1>6. CASE remote' = remote
  BY <1>6 DEF BucketCalls, SameKeys, SameGarage
<1>7. CASE CleanupIncompleteUploads
  BY <1>7, BucketReads, CleanupFlat DEF Base, Garages, BucketCalls, SameKeys, SameGarage
<1>8. CASE UpdateBucketSettings /\ remote' # remote
  BY <1>8, BucketReads DEF Base, Garages, UpdateBucketSettings, BucketCalls, SameKeys, SameGarage
<1>9. CASE ReconcileLifecycleSafe \/ VerifyLifecycleApplied
  BY <1>9, BucketReads, LifecycleFlat DEF Base, Garages, SetLifecycle, BucketCalls, SameKeys, SameGarage
<1>10. CASE \/ StartBucket \/ RemoveCleanupAnnotation \/ GetOrCreateBucket \/ PersistBucketID \/ ClearAbandonedAlias
            \/ ReserveGlobalAlias \/ CompleteAliasHandoff \/ ClearReservationAnnotation \/ ReserveKeyGrants
            \/ UnionKeyPermissions \/ NarrowKeyGrants \/ ReserveLocalAliases \/ NarrowLocalAliases
            \/ UpdateStatusFromGarage \/ BucketLookupTimeout \/ BucketDecodeError \/ DropBucketFinalizer \/ BucketFault
  <2>1. remote' = remote
    BY <1>10 DEF StartBucket, RemoveCleanupAnnotation, GetOrCreateBucket, PersistBucketID, ClearAbandonedAlias,
       ReserveGlobalAlias, CompleteAliasHandoff, ClearReservationAnnotation, ReserveKeyGrants, UnionKeyPermissions,
       NarrowKeyGrants, ReserveLocalAliases, NarrowLocalAliases, UpdateStatusFromGarage, BucketLookupTimeout,
       BucketDecodeError, DropBucketFinalizer, BucketFault
  <2> QED BY <1>6, <2>1
<1> QED BY <1>1, <1>2, <1>3, <1>4, <1>5, <1>6, <1>7, <1>8, <1>9, <1>10 DEF BucketNext

Imports(id) ==
  /\ id \in KeyId /\ remote.key[id] = "free" /\ SameGarage
  /\ \A k \in KeyId : remote'.key[k] = (IF k = id THEN "live" ELSE remote.key[k])
  /\ \A k \in KeyId : remote'.keyBy[k] = (IF k = id THEN key.uid ELSE remote.keyBy[k])
Revokes(id) ==
  /\ id \in KeyId /\ SameNames /\ remote'.keyBy = remote.keyBy
  /\ \A k \in KeyId : remote'.key[k] = (IF k = id /\ remote.key[k] = "live" THEN "tombstone" ELSE remote.key[k])
  /\ \A b \in BucketId, k \in KeyId : remote'.perm[b][k] = (IF k = id THEN {} ELSE remote.perm[b][k])
  /\ \A b \in BucketId : remote'.local[b] = {l \in remote.local[b] : l[1] # id}
KeyCalls ==
  \/ SameGarage /\ SameKeys
  \/ kw.pc = "resolve" /\ key.imp = "none" /\ ~AdoptsLegacy /\ ~IsKey(key.id) /\ Imports(Derived(key.nonce)) /\ Learned(Derived(key.nonce))
  \/ kw.pc = "import" /\ Imports(snapshot.id) /\ Learned(snapshot.id)
  \/ kw.pc = "apply" /\ SameKeys /\ \E b \in kw.tgt :
       Permits(b, kw.id, kw.cur[b], kw.des[b]) /\ kw'.pc = "apply" /\ kw'.tgt = kw.tgt \ {b}
  \/ kw.pc = "revoke" /\ \E id \in kw.tgt : Revokes(id) /\ kw'.pc = "revoke" /\ kw'.tgt = kw.tgt \ {id}

LEMMA KeyHeld ==
  ASSUME Base
  PROVE  /\ kw.pc \in KHolding => kw.id \in KeyId /\ kw.tgt \subseteq BucketId
         /\ kw.pc = "revoke" => kw.tgt \subseteq KeyId
<1>1. kw.id \in KeyIds
  BY KeyReads DEF Base
<1>2. kw.pc \in KHolding => kw.id # 0
  BY DEF Base, KeyWorker
<1> QED BY <1>1, <1>2, Constants DEF Base, KeyWorker, KeyIds, KEarly

LEMMA KPermissionCall == ASSUME Base, ApplyBucketPermissions PROVE KeyCalls
<1>1. PICK b \in kw.tgt : /\ kw.pc = "apply" /\ kw'.pc = "apply" /\ kw'.tgt = kw.tgt \ {b}
                          /\ remote' = Exact(remote, b, kw.id, kw.cur[b], kw.des[b])
  BY ApplyKeyFlat
<1>2. remote \in Garages /\ b \in BucketId /\ kw.id \in KeyId
  BY <1>1, KeyReads, KeyHeld DEF Base, KHolding
<1>3. SameKeys /\ Permits(b, kw.id, kw.cur[b], kw.des[b])
  <2> DEFINE c == kw.cur[b]
             d == kw.des[b]
  <2>1. remote' = Exact(remote, b, kw.id, c, d)
    BY <1>1
  <2> HIDE DEF c, d
  <2>2. SameKeys /\ SameNames /\ remote'.local = remote.local
    BY <1>2, <2>1, ExactIs DEF SameKeys, SameNames
  <2>3. \A e \in BucketId, l \in KeyId :
          remote'.perm[e][l] = (IF e = b /\ l = kw.id /\ remote.bucket[b] = "live" /\ remote.key[kw.id] = "live"
                                THEN (remote.perm[e][l] \ (c \ d)) \cup (d \ c) ELSE remote.perm[e][l])
    BY <1>2, <2>1 DEF Exact, Garages, Perms
  <2>4. Permits(b, kw.id, c, d)
    BY <1>2, <2>2, <2>3 DEF Permits
  <2> QED BY <2>2, <2>4 DEF c, d
<1>4. \E e \in kw.tgt : Permits(e, kw.id, kw.cur[e], kw.des[e]) /\ kw'.pc = "apply" /\ kw'.tgt = kw.tgt \ {e}
  BY <1>1, <1>3
<1> QED BY <1>1, <1>3, <1>4 DEF KeyCalls

LEMMA RevokeCall == ASSUME Base, RevokeAndDeleteKey PROVE KeyCalls
<1>1. PICK id \in kw.tgt : kw.pc = "revoke" /\ remote' = DeleteKey(remote, id) /\ kw'.pc = "revoke" /\ kw'.tgt = kw.tgt \ {id}
  BY RevokeFlat
<1>2. remote \in Garages /\ id \in KeyId
  BY <1>1, KeyReads, KeyHeld DEF Base
<1>3. Revokes(id)
  BY <1>1, <1>2, DeleteKeyIs DEF Revokes, SameNames
<1>4. \E k \in kw.tgt : Revokes(k) /\ kw'.pc = "revoke" /\ kw'.tgt = kw.tgt \ {k}
  BY <1>1, <1>3
<1> QED BY <1>1, <1>4 DEF KeyCalls

LEMMA ImportCalls ==
  ASSUME Base, KeyObject, SnapshotKnown, ImportPinnedKey \/ CreateOrAdoptDeterministic \/ GetTrackedKey
  PROVE  KeyCalls
<1>1. remote \in Garages /\ snapshot.id \in KeyIds /\ key \in Keys
  BY KeyReads DEF Base
<1>2. CASE remote' = remote
  BY <1>2 DEF KeyCalls, SameKeys, SameGarage
<1>3. CASE GetTrackedKey
  <2>1. SameKeys /\ SameGarage
    BY <1>1, <1>3, TrackedFlat DEF SameKeys, SameGarage, Garages
  <2> QED BY <2>1 DEF KeyCalls
<1>4. CASE ImportPinnedKey /\ remote' # remote
  <2>1. /\ kw.pc = "import" /\ remote.key[snapshot.id] = "free" /\ Learned(snapshot.id)
        /\ remote' = ImportKey(remote, snapshot.id, kw.obj.uid, kw.obj.renamed)
    BY <1>4, ImportFlat
  <2>2. snapshot.id \in KeyId /\ kw.obj.uid = key.uid
    BY <1>1, <2>1 DEF SnapshotKnown, KeyObject, SameKey, KeyIds
  <2>3. Imports(snapshot.id)
    BY <1>1, <2>1, <2>2, ImportKeyIs DEF Imports, SameGarage
  <2> QED BY <2>1, <2>3 DEF KeyCalls
<1>5. CASE CreateOrAdoptDeterministic /\ remote' # remote
  <2> DEFINE id == Derived(key.nonce)
  <2>1. id \in KeyId
    BY <1>1, Constants DEF Keys
  <2>2. kw.pc = "resolve" /\ kw.obj.imp = "none" /\ ~IsKey(kw.obj.id)
    BY <1>5, AdoptFlat
  <2>3. kw.obj.uid = key.uid /\ key.imp = "none" /\ kw.obj.id = key.id
    BY <2>2 DEF KeyObject, SameKey
  <2> HIDE DEF id
  <2>4. \/ remote' = [remote EXCEPT !.name[Legacy] = TRUE]
        \/ ~AdoptsLegacy /\ remote.key[id] = "free" /\ Learned(id) /\ remote' = ImportKey(remote, id, kw.obj.uid, kw.obj.renamed)
        \/ remote' = [remote EXCEPT !.name[id] = kw.obj.renamed]
    BY <1>5, AdoptFlat DEF id
  <2>5. CASE remote' = [remote EXCEPT !.name[Legacy] = TRUE] \/ remote' = [remote EXCEPT !.name[id] = kw.obj.renamed]
    BY <1>1, <2>5 DEF Garages, KeyCalls, SameKeys, SameGarage
  <2>6. CASE ~AdoptsLegacy /\ remote.key[id] = "free" /\ Learned(id) /\ remote' = ImportKey(remote, id, kw.obj.uid, kw.obj.renamed)
    <3>1. Imports(id)
      BY <1>1, <2>1, <2>3, <2>6, ImportKeyIs DEF Imports, SameGarage
    <3> QED BY <2>2, <2>3, <2>6, <3>1 DEF KeyCalls, id
  <2> QED BY <2>4, <2>5, <2>6
<1> QED BY <1>2, <1>3, <1>4, <1>5

LEMMA KeyCallsStep == ASSUME Base, KeyObject, SnapshotKnown, KeyNext \/ KeyFault PROVE KeyCalls
<1>1. CASE ImportPinnedKey \/ CreateOrAdoptDeterministic \/ GetTrackedKey
  BY <1>1, ImportCalls
<1>2. CASE ApplyBucketPermissions
  BY <1>2, KPermissionCall
<1>3. CASE RevokeAndDeleteKey
  BY <1>3, RevokeCall
<1>4. CASE remote' = remote
  BY <1>4 DEF KeyCalls, SameKeys, SameGarage
<1>5. CASE \/ StartKey \/ EnsureImportKeySnapshot \/ PinImport \/ PersistAccessKeyID \/ ReserveBucketGrants
           \/ UnionBucketPermissions \/ NarrowBucketGrants \/ MarkPreviousGeneratedSecret \/ PublishSecret \/ PersistSecretRef
           \/ CleanupStaleGeneratedSecrets \/ UpdateKeyStatus \/ FinalizeKey \/ DropKeyFinalizer \/ CollectKeySecrets \/ KeyFault
  <2>1. remote' = remote
    BY <1>5 DEF StartKey, EnsureImportKeySnapshot, PinImport, PersistAccessKeyID, ReserveBucketGrants,
       UnionBucketPermissions, NarrowBucketGrants, MarkPreviousGeneratedSecret, PublishSecret, PersistSecretRef,
       CleanupStaleGeneratedSecrets, UpdateKeyStatus, FinalizeKey, DropKeyFinalizer, CollectKeySecrets, KeyFault
  <2> QED BY <1>4, <2>1
<1> QED BY <1>1, <1>2, <1>3, <1>5 DEF KeyNext

Unforeign ==
  /\ remote.alias["a2"] = Foreign /\ SameBuckets
  /\ \A a \in Alias : remote'.alias[a] = (IF a = "a2" THEN 0 ELSE remote.alias[a])
UserCalls ==
  \/ SameGarage /\ SameKeys
  \/ focus = "alias" /\ SameKeys /\ Unforeign /\ UNCHANGED <<bucket, key>>
  \/ focus = "lostKey" /\ IsKey(key.id) /\ key.nonce < MaxNonce /\ Revokes(key.id) /\ UNCHANGED <<bucket, key>>
  \/ focus = "lostBucket" /\ IsBucket(bucket.id) /\ MayCreate /\ SameKeys /\ Deletes(bucket.id) /\ UNCHANGED <<bucket, key>>
LEMMA UserCallsStep == ASSUME Base, UserNext PROVE UserCalls
<1>1. remote \in Garages /\ bucket.id \in Ids /\ key.id \in KeyIds
  BY BucketReads, KeyReads DEF Base
<1>2. CASE remote' = remote \/ SickOnly
  BY <1>2 DEF UserCalls, SameKeys, SameGarage, SickOnly
<1>3. CASE /\ focus = "alias" /\ remote.alias["a2"] = Foreign /\ remote' = [remote EXCEPT !.alias["a2"] = 0]
           /\ UNCHANGED <<bucket, key>>
  <2>1. SameKeys /\ Unforeign
    BY <1>1, <1>3 DEF Garages, SameKeys, Unforeign, SameBuckets
  <2> QED BY <1>3, <2>1 DEF UserCalls
<1>4. CASE focus = "lostKey" /\ IsKey(key.id) /\ key.nonce < MaxNonce /\ remote' = DeleteKey(remote, key.id) /\ UNCHANGED <<bucket, key>>
  <2>1. key.id \in KeyId
    BY <1>1, <1>4 DEF IsKey, KeyIds
  <2>2. Revokes(key.id)
    BY <1>1, <1>4, <2>1, DeleteKeyIs DEF Revokes, SameNames
  <2> QED BY <1>4, <2>2 DEF UserCalls
<1>5. CASE focus = "lostBucket" /\ IsBucket(bucket.id) /\ MayCreate /\ remote' = DeleteBucket(remote, bucket.id) /\ UNCHANGED <<bucket, key>>
  <2>1. bucket.id \in BucketId
    BY <1>1, <1>5 DEF IsBucket, Ids
  <2>2. SameKeys /\ Deletes(bucket.id)
    BY <1>1, <1>5, <2>1, DeleteBucketIs DEF SameKeys, Deletes
  <2> QED BY <1>5, <2>2 DEF UserCalls
<1> QED BY <1>2, <1>3, <1>4, <1>5, UserRemoteFlat DEF UserRemote

-----------------------------------------------------------------------------
(* Garage's own consistency.                                               *)

LEMMA FormSame == ASSUME GarageForm, SameGarage, SameKeys PROVE GarageForm'
  BY DEF GarageForm, SameGarage, SameKeys
LEMMA FormCreates == ASSUME Base, GarageForm, NEW i, Creates(i), SameKeys PROVE GarageForm'
<1>1. \A b \in BucketId : (remote.bucket[b] = "free" => remote.by[b] = 0)
                          /\ (remote.bucket[b] # "live" => remote.local[b] = {} /\ \A k \in KeyId : remote.perm[b][k] = {})
  BY DEF GarageForm
<1>2. \A a \in Alias : remote.alias[a] \in Ids /\ (remote.alias[a] # 0 => remote.bucket[remote.alias[a]] = "live")
  BY BucketReads DEF GarageForm, Base, Garages
<1>3. \A b \in BucketId : remote'.bucket[b] = "free" => remote'.by[b] = 0
  BY <1>1 DEF Creates
<1>4. \A b \in BucketId : remote'.bucket[b] # "live" => remote'.local[b] = {} /\ \A k \in KeyId : remote'.perm[b][k] = {}
  BY <1>1 DEF Creates
<1>5. ASSUME NEW a \in Alias, remote'.alias[a] # 0 PROVE remote'.bucket[remote'.alias[a]] = "live"
  <2>1. i \in BucketId /\ remote'.bucket[i] = "live"
    BY DEF Creates
  <2>2. remote'.alias[a] = i \/ remote'.alias[a] = remote.alias[a]
    BY DEF Creates
  <2>3. CASE remote'.alias[a] = i
    BY <2>1, <2>3
  <2>4. CASE remote'.alias[a] = remote.alias[a]
    <3>1. remote.alias[a] \in BucketId /\ remote.bucket[remote.alias[a]] = "live"
      BY <1>2, <1>5, <2>4 DEF Ids
    <3> QED BY <2>4, <3>1 DEF Creates
  <2> QED BY <2>2, <2>3, <2>4
<1>6. /\ \A k \in KeyId : remote'.key[k] # "live" => \A b \in BucketId : remote'.perm[b][k] = {}
      /\ \A k \in KeyId : remote'.key[k] = "free" <=> remote'.keyBy[k] = 0
  BY DEF GarageForm, Creates, SameKeys
<1> QED BY <1>3, <1>4, <1>5, <1>6 DEF GarageForm
LEMMA FormDeletes == ASSUME Base, GarageForm, NEW i, Deletes(i), SameKeys PROVE GarageForm'
<1>1. \A b \in BucketId : (remote.bucket[b] = "free" => remote.by[b] = 0)
                          /\ (remote.bucket[b] # "live" => remote.local[b] = {} /\ \A k \in KeyId : remote.perm[b][k] = {})
  BY DEF GarageForm
<1>2. \A a \in Alias : remote.alias[a] \in Ids /\ (remote.alias[a] # 0 => remote.bucket[remote.alias[a]] = "live")
  BY BucketReads DEF GarageForm, Base, Garages
<1>3. \A b \in BucketId : remote'.bucket[b] = "free" => remote'.by[b] = 0
  BY <1>1 DEF Deletes
<1>4. \A b \in BucketId : remote'.bucket[b] # "live" => remote'.local[b] = {} /\ \A k \in KeyId : remote'.perm[b][k] = {}
  <2>1. \A b \in BucketId : remote'.bucket[b] # "live" => b = i \/ remote.bucket[b] # "live"
    BY DEF Deletes
  <2> QED BY <1>1, <2>1 DEF Deletes
<1>5. ASSUME NEW a \in Alias, remote'.alias[a] # 0 PROVE remote'.bucket[remote'.alias[a]] = "live"
  <2>1. remote'.alias[a] = remote.alias[a] /\ remote.alias[a] # i
    BY <1>5 DEF Deletes
  <2>2. remote.alias[a] \in BucketId /\ remote.bucket[remote.alias[a]] = "live"
    BY <1>2, <1>5, <2>1 DEF Ids
  <2> QED BY <2>1, <2>2 DEF Deletes
<1>6. /\ \A k \in KeyId : remote'.key[k] # "live" => \A b \in BucketId : remote'.perm[b][k] = {}
      /\ \A k \in KeyId : remote'.key[k] = "free" <=> remote'.keyBy[k] = 0
  BY DEF GarageForm, Deletes, SameKeys
<1> QED BY <1>3, <1>4, <1>5, <1>6 DEF GarageForm
LEMMA FormNames ==
  ASSUME GarageForm, SameBuckets, SameKeys,
         \A a \in Alias : remote'.alias[a] \in {0, remote.alias[a]} \/ (remote'.alias[a] \in BucketId /\ remote.bucket[remote'.alias[a]] = "live")
  PROVE  GarageForm'
  BY DEF GarageForm, SameBuckets, SameKeys
LEMMA FormPermits == ASSUME GarageForm, SameKeys, NEW i, NEW k, NEW c, NEW d, Permits(i, k, c, d) PROVE GarageForm'
<1>1. \A b \in BucketId, l \in KeyId :
        remote'.perm[b][l] = remote.perm[b][l] \/ (remote.bucket[b] = "live" /\ remote.key[l] = "live")
  BY DEF Permits
<1> QED BY <1>1 DEF GarageForm, SameKeys, Permits, SameNames
LEMMA FormLocal ==
  ASSUME GarageForm, SameNames, SameKeys, remote'.perm = remote.perm,
         \A b \in BucketId : remote'.local[b] \subseteq remote.local[b] \/ remote.bucket[b] = "live"
  PROVE  GarageForm'
  BY DEF GarageForm, SameNames, SameKeys
LEMMA FormImports == ASSUME GarageForm, key.uid # 0, NEW k, Imports(k) PROVE GarageForm'
<1>1. \A l \in KeyId : remote'.key[l] # "live" => remote.key[l] # "live"
  BY DEF Imports
<1>2. \A l \in KeyId : remote'.key[l] = "free" <=> remote'.keyBy[l] = 0
  BY DEF Imports, GarageForm
<1> QED BY <1>1, <1>2 DEF GarageForm, Imports, SameGarage
LEMMA FormRevokes == ASSUME GarageForm, NEW k, Revokes(k) PROVE GarageForm'
<1>1. \A l \in KeyId : remote'.key[l] = "free" <=> remote.key[l] = "free"
  BY DEF Revokes
<1>2. \A l \in KeyId : remote'.key[l] # "live" => remote.key[l] # "live" \/ l = k
  BY DEF Revokes
<1>3. \A b \in BucketId, l \in KeyId : remote'.perm[b][l] = {} \/ remote'.perm[b][l] = remote.perm[b][l]
  BY DEF Revokes
<1>4. \A l \in KeyId : remote'.key[l] # "live" => \A b \in BucketId : remote'.perm[b][l] = {}
  BY <1>2, <1>3 DEF Revokes, GarageForm
<1>5. \A b \in BucketId : remote'.local[b] \subseteq remote.local[b]
  BY DEF Revokes
<1> QED BY <1>1, <1>3, <1>4, <1>5 DEF GarageForm, Revokes, SameNames

\* The steps that concern neither the objects nor Garage.
LEMMA QuietFrame ==
  ASSUME TokenNext \/ TokenFault \/ ReconcileGrant
  PROVE  UNCHANGED <<focus, cluster, bucket, key, secrets, source, snapshot, remote, bw, kw>>
<1>1. CASE ReconcileGrant
  BY <1>1 DEF ReconcileGrant
<1> QED BY <1>1, TokenFrame

LEMMA GarageFormNext == ASSUME Objects, GarageForm, Next PROVE GarageForm'
<1>0. Base /\ BucketObject /\ KeyObject /\ SnapshotKnown
  BY DEF Objects
<1>1. CASE BucketNext \/ BucketFault
  <2>0. BucketCalls /\ SameKeys
    BY <1>0, <1>1, BucketCallsStep DEF BucketCalls
  <2>1. ASSUME NEW a, Unaliases(a) PROVE GarageForm'
    BY <2>0, <2>1, FormNames DEF Unaliases
  <2>2. ASSUME bw.pc = "aliasAdd", Aliased PROVE GarageForm'
    <3>1. bw.id \in BucketId
      BY <1>0, <2>2, BucketHeld DEF Holding
    <3> QED BY <2>0, <2>2, <3>1, FormNames DEF Aliased, IsBucket
  <2>3. ASSUME NEW l, Localizes(l) PROVE GarageForm'
    <3>1. \A b \in BucketId : remote'.local[b] \subseteq remote.local[b] \/ remote.bucket[b] = "live"
      BY <2>3 DEF Localizes, IsBucket
    <3> QED BY <2>0, <2>3, <3>1, FormLocal DEF Localizes
  <2>4. ASSUME Unlocalizes PROVE GarageForm'
    <3>1. \A b \in BucketId : remote'.local[b] \subseteq remote.local[b]
      BY <2>4 DEF Unlocalizes
    <3> QED BY <2>0, <2>4, <3>1, FormLocal DEF Unlocalizes
  <2>5. ASSUME NEW i, Creates(i) \/ Deletes(i) PROVE GarageForm'
    BY <1>0, <2>0, <2>5, FormCreates, FormDeletes
  <2>6. ASSUME SameGarage PROVE GarageForm'
    BY <2>0, <2>6, FormSame
  <2>7. ASSUME NEW k, Permits(bw.id, k, bw.seen.perm[k], bw.des[k]) PROVE GarageForm'
    BY <2>0, <2>7, FormPermits
  <2> QED BY <2>0, <2>1, <2>2, <2>3, <2>4, <2>5, <2>6, <2>7 DEF BucketCalls
<1>2. CASE KeyNext \/ KeyFault
  <2>0. KeyCalls
    BY <1>0, <1>2, KeyCallsStep
  <2>1. kw.pc # "idle" => key.uid # 0
    BY <1>0 DEF KeyObject
  <2>2. ASSUME NEW k, Imports(k), kw.pc # "idle" PROVE GarageForm'
    BY <2>1, <2>2, FormImports
  <2>3. ASSUME NEW k, Revokes(k) PROVE GarageForm'
    BY <2>3, FormRevokes
  <2>4. ASSUME NEW b, SameKeys, Permits(b, kw.id, kw.cur[b], kw.des[b]) PROVE GarageForm'
    BY <2>4, FormPermits
  <2> QED BY <2>0, <2>2, <2>3, <2>4, FormSame DEF KeyCalls
<1>3. CASE UserNext
  <2>0. UserCalls
    BY <1>0, <1>3, UserCallsStep
  <2>1. ASSUME SameKeys, Unforeign PROVE GarageForm'
    <3>1. \A a \in Alias : remote'.alias[a] \in {0, remote.alias[a]}
      BY <2>1 DEF Unforeign
    <3> QED BY <2>1, <3>1, FormNames DEF Unforeign
  <2> QED BY <1>0, <2>0, <2>1, FormSame, FormRevokes, FormDeletes DEF UserCalls
<1>4. CASE TokenNext \/ TokenFault \/ ReconcileGrant
  BY <1>4, QuietFrame DEF GarageForm
<1> QED BY <1>1, <1>2, <1>3, <1>4, NextCases

-----------------------------------------------------------------------------
(* The bucket that is not the operator's.                                  *)

LEMMA ForeignHeld ==
  ASSUME Base, BucketObject, GarageForm, ForeignForm
  PROVE  /\ Resolved(bw.obj) = Foreign => bw.obj.want = Foreign
         /\ Doomed(bw.obj) = Foreign => bw.obj.want = Foreign
         /\ Foreign \in BucketId /\ Foreign # 0
<1>1. Foreign \in BucketId /\ Foreign # 0
  BY Constants DEF Foreign
<1>2. Reserved(bw.obj) # Foreign
  BY <1>1, RsvTyped DEF Reserved, ForeignForm
<1>3. bw.obj.id = Foreign => bw.obj.want = Foreign
  <2>1. CASE bw.pc = "idle"
    BY <2>1, NoBucketIs, <1>1 DEF BucketObject
  <2>2. CASE bw.pc # "idle"
    BY <2>2 DEF BucketObject, SameStatus, ForeignForm
  <2> QED BY <2>1, <2>2
<1>4. Doomed(bw.obj) = Foreign => bw.obj.want = Foreign
  BY <1>1, <1>2, <1>3 DEF Doomed, Recorded
<1>5. Resolved(bw.obj) = Foreign => bw.obj.want = Foreign
  BY <1>1, <1>2, <1>3 DEF Resolved
<1> QED BY <1>1, <1>4, <1>5

-----------------------------------------------------------------------------
(* What a step of a bucket's worker writes.                                *)

BWrites ==
  /\ bw.pc = "drop" => /\ bw'.pc = "idle" /\ remote' = remote
                       /\ bucket' = NoBucket \/ (SameObj(bucket', bucket) /\ SameMarks(bucket', bucket))
  /\ bw.pc \notin {"idle", "drop"} /\ bw'.pc = "idle" => SameMarks(bucket', bucket) /\ remote' = remote
  /\ bw.pc = "resolve" /\ bw'.pc \in {"alias", "bind"} =>
       /\ bucket' = bucket /\ Resolved(bw.obj) # 0 /\ bw'.id = Resolved(bw.obj)
       /\ ~(Reserved(bw.obj) # 0 /\ Disagrees(bw.obj, Reserved(bw.obj)))
       /\ bw'.seen = SeenOf(remote, Resolved(bw.obj))
       /\ bw'.pc = (IF bw.obj.id = Resolved(bw.obj) THEN "alias" ELSE "bind")
  /\ bw.pc = "resolve" /\ bw'.pc = "create" =>
       Resolved(bw.obj) = 0 /\ bw.obj.want = 0 /\ remote.alias[bw.name] = 0 /\ bucket'.rsv
  /\ bw.pc = "bind" /\ bw'.pc = "alias" => bucket'.id = bw.id
  /\ bw.pc = "alias" /\ bw'.pc = "abandoned" => bucket' = bucket /\ Abandoned
  /\ bw.pc = "alias" /\ bw'.pc = "aliasAdd" => ~Abandoned /\ bucket'.pAlias = bw.name
  /\ bw.pc = "abandoned" /\ bw'.pc = "alias" => bucket'.pAlias = NoAlias
  /\ bw.pc = "aliasDone" /\ bw'.pc = "unreserve" => bucket'.mAlias = bw.name /\ bucket'.pAlias = NoAlias
  /\ bw.pc = "unreserve" /\ bw'.pc = "settings" => ~bw.obj.rsv
  /\ bw.pc = "unannotate" /\ bw'.pc = "settings" => ~bucket'.rsv
  /\ bw.pc = "local" /\ bw'.pc = "localAdd" =>
       /\ bw.obj.la = {} \/ key.id # 0
       /\ bucket'.mLocal = bw.obj.mLocal \cup LocalDesired /\ bw'.man = LocalDesired /\ bw'.tgt = LocalDesired
  /\ bw.pc = "localDone" /\ bw'.pc = "life" => bucket'.mLocal = bw.man

LEMMA EndedWrites == ASSUME bw.pc # "idle", Ended, remote' = remote PROVE BWrites
<1>1. bw'.pc = "idle"
  BY EndedStops
<1> QED BY <1>1 DEF BWrites, Ended

LEMMA BWritesStep == ASSUME Base, BucketObject, BucketNext \/ BucketFault PROVE BWrites
<1>0. CASE BucketFault
  BY <1>0, BucketFaultFlat, EndedWrites
<1>00. CASE bw.pc = "idle"
  BY <1>00 DEF BWrites
<1> SUFFICES ASSUME BucketNext, bw.pc # "idle" PROVE BWrites
  BY <1>0, <1>00
<1>1. CASE CleanupIncompleteUploads \/ RemoveCleanupAnnotation
  <2>1. bw.pc \in {"cleanup", "cleaned"}
    BY <1>1 DEF CleanupIncompleteUploads, RemoveCleanupAnnotation, B
  <2>2. CASE bw'.pc # "idle"
    BY <2>1, <2>2 DEF BWrites
  <2>3. CASE bw'.pc = "idle"
    <3>1. Ended /\ remote' = remote
      BY <1>1, <2>3, CleanupFlat, CleanedFlat DEF Went, Wrote
    <3> QED BY <3>1, EndedWrites
  <2> QED BY <2>2, <2>3
<1>2. CASE GetOrCreateBucket
  <2>1. CASE FailEnds
    BY <1>2, <2>1, ResolveFlat, EndedWrites DEF FailEnds
  <2>2. CASE ~FailEnds
    BY <1>2, <2>2, ResolveFlat DEF BWrites, Wrote
  <2> QED BY <2>1, <2>2
<1>3. CASE CreateReservedBucket
  BY <1>3, CreateFlat DEF BWrites
<1>4. CASE PersistBucketID
  <2>1. bw.pc = "bind" /\ Persist([bucket EXCEPT !.id = bw.id], "alias")
    BY <1>4 DEF PersistBucketID, B
  <2>2. bw'.pc = "alias" /\ bucket'.id = bw.id
    BY <2>1, WriteID DEF Wrote
  <2> QED BY <2>1, <2>2 DEF BWrites
<1>5. CASE RemoveAbandonedAlias
  <2>1. bw.pc = "alias" /\ Abandoned /\ bw'.pc = "abandoned" /\ bucket' = bucket
    BY <1>5, GoFlat DEF RemoveAbandonedAlias, B, Went
  <2> QED BY <2>1 DEF BWrites
<1>6. CASE ClearAbandonedAlias
  <2>1. bw.pc = "abandoned" /\ Persist([bucket EXCEPT !.pAlias = NoAlias], "alias")
    BY <1>6 DEF ClearAbandonedAlias, B
  <2>2. bw'.pc = "alias" /\ bucket'.pAlias = NoAlias
    BY <2>1, WritePending DEF Wrote
  <2> QED BY <2>1, <2>2 DEF BWrites
<1>7. CASE ReserveGlobalAlias
  <2>0. bw.pc = "alias" /\ ~Abandoned /\ bw.obj.pAlias = bucket.pAlias
    BY <1>7 DEF ReserveGlobalAlias, B, BucketObject, SameStatus
  <2>1. CASE bw.obj.pAlias = bw.name /\ Go("aliasAdd")
    <3>1. bw'.pc = "aliasAdd" /\ bucket' = bucket
      BY <2>1, GoFlat DEF Went
    <3> QED BY <2>0, <2>1, <3>1 DEF BWrites
  <2>2. CASE Persist([bucket EXCEPT !.pAlias = bw.name], "aliasAdd")
    <3>1. bw'.pc = "aliasAdd" /\ bucket'.pAlias = bw.name
      BY <2>2, WritePending DEF Wrote
    <3> QED BY <2>0, <3>1 DEF BWrites
  <2> QED BY <1>7, <2>1, <2>2 DEF ReserveGlobalAlias
<1>8. CASE AddGlobalAlias
  <2>1. bw.pc = "aliasAdd"
    BY <1>8 DEF AddGlobalAlias, B
  <2>2. CASE Fail /\ remote' = remote
    BY <2>1, <2>2, FailFlat, EndedWrites DEF FailEnds
  <2>3. CASE Go("aliasDrop")
    BY <2>1, <2>3, GoFlat DEF Went, BWrites
  <2>4. (Fail /\ remote' = remote) \/ Go("aliasDrop")
    BY <1>8 DEF AddGlobalAlias, B
  <2> QED BY <2>2, <2>3, <2>4
<1>9. CASE RemovePreviousAlias
  <2>1. bw.pc = "aliasDrop" /\ bw'.pc = "aliasDone"
    BY <1>9, GoFlat DEF RemovePreviousAlias, B, Went
  <2> QED BY <2>1 DEF BWrites
<1>10. CASE CompleteAliasHandoff
  <2>1. bw.pc = "aliasDone" /\ Persist([bucket EXCEPT !.mAlias = bw.name, !.pAlias = NoAlias], "unreserve")
    BY <1>10 DEF CompleteAliasHandoff, B
  <2>2. bw'.pc = "unreserve" /\ bucket'.mAlias = bw.name /\ bucket'.pAlias = NoAlias
    BY <2>1, WriteManaged DEF Wrote
  <2> QED BY <2>1, <2>2 DEF BWrites
<1>11. CASE RemoveReservationAlias
  <2>1. bw.pc = "unreserve"
    BY <1>11 DEF RemoveReservationAlias, B
  <2>2. CASE ~bw.obj.rsv /\ Go("settings")
    <3>1. bw'.pc = "settings"
      BY <2>2, GoFlat DEF Went
    <3> QED BY <2>1, <2>2, <3>1 DEF BWrites
  <2>3. CASE Go("unannotate")
    <3>1. bw'.pc = "unannotate"
      BY <2>3, GoFlat DEF Went
    <3> QED BY <2>1, <3>1 DEF BWrites
  <2> QED BY <1>11, <2>2, <2>3 DEF RemoveReservationAlias
<1>12. CASE ClearReservationAnnotation
  <2>1. bw.pc = "unannotate" /\ Persist([bucket EXCEPT !.rsv = FALSE], "settings")
    BY <1>12 DEF ClearReservationAnnotation, B
  <2>2. bw'.pc = "settings" /\ bucket'.rsv = FALSE
    BY <2>1, WriteRsv DEF Wrote
  <2> QED BY <2>1, <2>2 DEF BWrites
<1>13. CASE UpdateBucketSettings
  <2>1. bw.pc = "settings"
    BY <1>13 DEF UpdateBucketSettings, B
  <2>2. CASE Fail /\ remote' = remote
    BY <2>1, <2>2, FailFlat, EndedWrites DEF FailEnds
  <2>3. CASE Go("perms")
    BY <2>1, <2>3, GoFlat DEF Went, BWrites
  <2> QED BY <1>13, <2>2, <2>3 DEF UpdateBucketSettings
<1>14. CASE ReserveKeyGrants
  BY <1>14, ReserveFlat, EndedWrites DEF FailEnds, Moved, BWrites
<1>15. CASE UnionKeyPermissions
  BY <1>15, UnionFlat DEF BWrites
<1>16. CASE ApplyKeyPermissions
  BY <1>16, ApplyFlat DEF BWrites
<1>17. CASE NarrowKeyGrants
  BY <1>17, NarrowFlat, EndedWrites DEF FailEnds, Moved, BWrites
<1>18. CASE ReserveLocalAliases
  <2>1. CASE FailEnds
    BY <1>18, <2>1, ReserveLocalFlat, EndedWrites DEF FailEnds
  <2>2. CASE ~FailEnds
    BY <1>18, <2>2, ReserveLocalFlat DEF BWrites
  <2> QED BY <2>1, <2>2
<1>19. CASE AddLocalAlias
  <2>1. CASE FailEnds /\ remote' = remote
    BY <2>1, EndedWrites DEF FailEnds
  <2>2. CASE bw.pc = "localAdd" /\ bw'.pc = "localAdd"
    BY <2>2 DEF BWrites
  <2> QED BY <1>19, <2>1, <2>2, AddLocalFlat
<1>20. CASE RemoveLocalAliases
  BY <1>20, RemoveLocalFlat DEF Went, BWrites
<1>21. CASE NarrowLocalAliases
  <2>1. bw.pc = "localDone" /\ Persist([bucket EXCEPT !.mLocal = bw.man], "life")
    BY <1>21 DEF NarrowLocalAliases, B
  <2>2. bw'.pc = "life" /\ bucket'.mLocal = bw.man
    BY <2>1, WriteLocal DEF Wrote
  <2> QED BY <2>1, <2>2 DEF BWrites
<1>22. CASE ReconcileLifecycleSafe \/ VerifyLifecycleApplied
  <2>1. bw.pc \in {"life", "verify"} /\ bw'.pc \in {"status", "verify"}
    BY <1>22, LifecycleFlat DEF Went
  <2> QED BY <2>1 DEF BWrites
<1>23. CASE UpdateStatusFromGarage
  BY <1>23, StatusFlat, EndedWrites DEF FailEnds
<1>24. CASE BucketLookupTimeout \/ BucketDecodeError
  BY <1>24, LookupFlat, EndedWrites
<1>25. CASE FinalizeBucket
  <2>1. CASE Ended /\ remote' = remote
    BY <2>1, EndedWrites
  <2>2. CASE bw.pc = "finalize" /\ bw'.pc = "drop"
    BY <2>2 DEF BWrites
  <2> HIDE DEF Doomed, Recorded, Ended
  <2> QED BY <1>25, <2>1, <2>2, FinalizeFlat
<1>26. CASE DropBucketFinalizer
  <2>1. bw.pc = "drop" /\ bucket' = NoBucket /\ bw' = Idle(NoBucket) /\ remote' = remote
    BY <1>26, DropFlat
  <2>2. bw'.pc = "idle"
    BY <2>1, IdleFlat
  <2> QED BY <2>1, <2>2 DEF BWrites
<1>27. CASE StartBucket
  BY <1>27 DEF StartBucket, B
<1> QED BY <1>1, <1>2, <1>3, <1>4, <1>5, <1>6, <1>7, <1>8, <1>9, <1>10, <1>11, <1>12, <1>13, <1>14, <1>15, <1>16, <1>17,
   <1>18, <1>19, <1>20, <1>21, <1>22, <1>23, <1>24, <1>25, <1>26, <1>27 DEF BucketNext

LEMMA ForeignStep ==
  ASSUME Objects, GarageForm, ForeignForm, BucketNext \/ BucketFault
  PROVE  ForeignForm'
<1>0. Base /\ BucketObject /\ Foreign \in BucketId /\ Foreign # 0 /\ BucketCalls /\ BWrites /\ Kept /\ BMoves
  BY BucketCallsStep, BWritesStep, KeptStep, BMovesStep, ForeignHeld DEF Objects
<1>1. remote'.by[Foreign] = 0 /\ remote'.bucket[Foreign] # "free"
  BY <1>0 DEF ForeignForm, BucketCalls, SameGarage, Creates, Deletes, Unaliases, Aliased, SameBuckets, Permits, Localizes,
     Unlocalizes, SameNames
<1>2. ASSUME NEW a \in {"rsv1", "rsv2"} PROVE remote'.alias[a] # Foreign
  <2>1. remote.alias[a] # Foreign /\ a \in Alias
    BY DEF ForeignForm, Alias
  <2>2. ASSUME NEW i, Creates(i) \/ Deletes(i) PROVE remote'.alias[a] # Foreign
    BY <1>0, <2>1, <2>2 DEF Creates, Deletes, ForeignForm
  <2>3. ASSUME bw.pc = "aliasAdd", Aliased PROVE remote'.alias[a] # Foreign
    <3>1. bw.name # a
      BY <1>0, <2>3, BucketHeld DEF Working, Holding
    <3> QED BY <2>1, <2>3, <3>1 DEF Aliased
  <2>4. ASSUME NEW c, Unaliases(c) PROVE remote'.alias[a] # Foreign
    BY <1>0, <2>1, <2>4 DEF Unaliases
  <2> QED BY <1>0, <2>1, <2>2, <2>3, <2>4 DEF BucketCalls, SameGarage, Permits, Localizes, Unlocalizes, SameNames
<1>a. CASE bw.pc = "idle"
  <2>1. StartBucket
    BY <1>a, BucketActs DEF BucketFault, B
  <2>2. bw'.pc \notin Holding
    BY <1>0, <1>a DEF BMoves, Holding
  <2>3. bucket'.id = Foreign => bucket'.want = Foreign
    BY <1>0, <2>1, StartFlat, NoBucketIs DEF ForeignForm, SameMarks
  <2>4. bucket'.want # 0 => ~bucket'.rsv
    BY <1>0, <2>1, StartFlat, NoBucketIs DEF ForeignForm, SameMarks
  <2> QED BY <1>1, <1>2, <2>2, <2>3, <2>4 DEF ForeignForm
<1>b. CASE bw.pc = "drop"
  <2>1. bw'.pc \notin Holding
    BY <1>0, <1>b DEF BMoves, Holding
  <2>2. (bucket'.id = Foreign => bucket'.want = Foreign) /\ (bucket'.want # 0 => ~bucket'.rsv)
    BY <1>0, <1>b, NoBucketIs DEF BWrites, ForeignForm, SameMarks, SameObj
  <2> QED BY <1>1, <1>2, <2>1, <2>2 DEF ForeignForm
<1>c. CASE bw.pc \notin {"idle", "drop"}
  <2>1. bucket'.want = bucket.want /\ bw.obj.want = bucket.want
    BY <1>0, <1>c DEF Kept, SameObj, BucketObject, SameStatus
  <2>2. bucket'.id = Foreign => bucket'.want = Foreign
    <3>1. bucket'.id = bucket.id \/ (bw.pc = "bind" /\ bucket'.id = bw.id)
      BY <1>0, <1>c DEF Kept, BWrites, BMoves, SameMarks
    <3> QED BY <2>1, <3>1 DEF ForeignForm, Holding
  <2>3. bucket'.want # 0 => ~bucket'.rsv
    <3>1. CASE bw.pc = "resolve" /\ bw'.pc = "create"
      BY <2>1, <3>1, <1>0 DEF BWrites
    <3>2. CASE bw.pc = "resolve" /\ bw'.pc # "create"
      BY <2>1, <3>2, <1>0 DEF BWrites, BMoves, SameMarks, ForeignForm
    <3>3. CASE bw.pc = "unannotate"
      BY <2>1, <3>3, <1>0 DEF BWrites, BMoves, SameMarks, ForeignForm
    <3>4. CASE bw.pc \notin {"resolve", "unannotate"}
      BY <2>1, <3>4, <1>0, <1>c DEF Kept, ForeignForm
    <3> QED BY <3>1, <3>2, <3>3, <3>4
  <2>4. bw'.pc \in Holding /\ bw'.id = Foreign => bucket'.want = Foreign
    <3>1. CASE bw.pc = "resolve"
      BY <1>0, <2>1, <3>1, ForeignHeld DEF BWrites, BMoves, Holding
    <3>2. CASE bw.pc = "create"
      <4>1. CASE CreateReservedBucket
        BY <1>0, <4>1, CreateFlat DEF ForeignForm
      <4>2. CASE bw'.pc = "idle"
        BY <4>2 DEF Holding
      <4> QED BY <1>0, <3>2, <4>1, <4>2, BucketActs, BucketFaultFlat, EndedStops
    <3>3. CASE bw.pc \in Holding
      BY <1>0, <2>1, <3>3 DEF Kept, BMoves, Holding, ForeignForm
    <3>4. CASE bw.pc \notin Holding \cup {"resolve", "create"}
      BY <1>0, <1>c, <3>4 DEF BMoves, Holding
    <3> QED BY <3>1, <3>2, <3>3, <3>4
  <2> QED BY <1>1, <1>2, <2>2, <2>3, <2>4 DEF ForeignForm
<1> QED BY <1>a, <1>b, <1>c
LEMMA ForeignNext == ASSUME Objects, GarageForm, ForeignForm, Next PROVE ForeignForm'
<1>0. Base /\ BucketObject /\ KeyObject /\ SnapshotKnown /\ Foreign \in BucketId /\ Foreign # 0
  BY ForeignHeld DEF Objects
<1>1. CASE BucketNext \/ BucketFault
  BY <1>1, ForeignStep
<1>2. CASE KeyNext \/ KeyFault
  <2>1. UNCHANGED <<bucket, bw>> /\ remote'.bucket = remote.bucket /\ remote'.by = remote.by /\ remote'.alias = remote.alias
    BY <1>0, <1>2, KeyFrame, KRemoteStep DEF KRemote
  <2> QED BY <2>1 DEF ForeignForm
<1>3. CASE TokenNext \/ TokenFault \/ ReconcileGrant
  BY <1>3, QuietFrame DEF ForeignForm
<1>4. CASE UserNext
  <2>0. bw' = bw /\ UserCalls /\ UserBucket
    BY <1>0, <1>4, UserFrame, UserCallsStep, UserBucketFlat
  <2>1. /\ remote'.by[Foreign] = 0 /\ remote'.bucket[Foreign] # "free"
        /\ \A a \in {"rsv1", "rsv2"} : remote'.alias[a] # Foreign
    BY <1>0, <2>0 DEF UserCalls, SameGarage, Unforeign, SameBuckets, Revokes, SameNames, Deletes, ForeignForm, Alias
  <2>2. CASE bucket' = bucket
    BY <2>0, <2>1, <2>2 DEF ForeignForm
  <2>3. CASE EditedBucket \/ MarkedBucket
    <3>1. bucket'.id = bucket.id /\ bucket'.want = bucket.want /\ bucket'.rsv = bucket.rsv
      BY <2>3 DEF EditedBucket, MarkedBucket, SameMarks
    <3> QED BY <2>0, <2>1, <3>1 DEF ForeignForm
  <2>4. CASE bucket'.id = 0 /\ ~bucket'.rsv /\ bw.pc = "idle"
    <3>1. bw'.pc \notin Holding
      BY <2>0, <2>4 DEF Holding
    <3> QED BY <1>0, <2>1, <2>4, <3>1 DEF ForeignForm
  <2>5. bucket.uid = 0 \/ ~bucket.fin => bw.pc = "idle"
    BY <1>0 DEF BucketObject
  <2> QED BY <2>0, <2>2, <2>3, <2>4, <2>5, NoBucketIs DEF UserBucket, CreatedBucket
<1> QED BY <1>1, <1>2, <1>3, <1>4, NextCases

\* No step takes the foreign bucket.
LEMMA ForeignKept ==
  ASSUME Objects, GarageForm, ForeignForm, Next, edits' = edits, Foreign \notin {bucket.want, bw.obj.want}
  PROVE  /\ remote'.bucket[Foreign] = remote.bucket[Foreign]
         /\ \A a \in Alias : remote.alias[a] = Foreign => remote'.alias[a] = Foreign
<1>0. Base /\ BucketObject /\ KeyObject /\ SnapshotKnown /\ Foreign \in BucketId /\ Foreign # 0 /\ Doomed(bw.obj) # Foreign
  BY ForeignHeld DEF Objects
<1>1. CASE BucketNext \/ BucketFault
  <2>0. BucketCalls /\ (bw.pc \in Holding => bw.id # Foreign)
    BY <1>0, <1>1, BucketCallsStep DEF ForeignForm
  <2>1. ASSUME NEW i, Creates(i)
        PROVE  /\ remote'.bucket[Foreign] = remote.bucket[Foreign]
               /\ \A a \in Alias : remote.alias[a] = Foreign => remote'.alias[a] = Foreign
    BY <1>0, <2>1, RsvTyped DEF Creates, ForeignForm, Rsv
  <2>2. ASSUME Deletes(Doomed(bw.obj))
        PROVE  /\ remote'.bucket[Foreign] = remote.bucket[Foreign]
               /\ \A a \in Alias : remote.alias[a] = Foreign => remote'.alias[a] = Foreign
    BY <1>0, <2>2 DEF Deletes
  <2>3. ASSUME NEW c, Unaliases(c), bw.pc \in Holding
        PROVE  /\ remote'.bucket[Foreign] = remote.bucket[Foreign]
               /\ \A a \in Alias : remote.alias[a] = Foreign => remote'.alias[a] = Foreign
    BY <2>0, <2>3 DEF Unaliases, SameBuckets
  <2>4. ASSUME Aliased, bw.pc \in Holding
        PROVE  /\ remote'.bucket[Foreign] = remote.bucket[Foreign]
               /\ \A a \in Alias : remote.alias[a] = Foreign => remote'.alias[a] = Foreign
    BY <1>0, <2>0, <2>4 DEF Aliased, SameBuckets
  <2> HIDE DEF Doomed, Creates, Deletes
  <2> QED BY <2>0, <2>1, <2>2, <2>3, <2>4 DEF BucketCalls, SameGarage, Permits, Localizes, Unlocalizes, SameNames, Holding
<1>2. CASE KeyNext \/ KeyFault
  BY <1>0, <1>2, KRemoteStep DEF KRemote
<1>3. CASE TokenNext \/ TokenFault \/ ReconcileGrant
  BY <1>3, QuietFrame
<1>4. CASE UserNext
  <2>1. ~Outside
    BY <1>0 DEF Outside, Edit, Base, Typed
  <2>2. CASE RunRepair
    BY <1>0, <2>2, BucketReads DEF RunRepair, Base, Garages
  <2>3. CASE EditBucket \/ EditKey \/ CreateOrDelete \/ EditGrant \/ EditToken \/ CollectBucket \/ DeleteCluster
    BY <2>3 DEF EditBucket, EditKey, CreateOrDelete, EditGrant, EditToken, CollectBucket, DeleteCluster
  <2> QED BY <1>4, <2>1, <2>2, <2>3 DEF UserNext
<1> QED BY <1>1, <1>2, <1>3, <1>4, NextCases

-----------------------------------------------------------------------------
(* What a step of a key's worker writes.                                   *)

KStopped == kw'.pc \in {"idle", "mark"} /\ remote' = remote
KWrites ==
  /\ kw.pc \in Early /\ kw'.pc = "mark" => key'.id # 0 \/ (kw.pc = "apply" /\ key'.id = key.id)
  /\ kw.pc = "resolve" => \/ KStopped /\ key'.id = key.id /\ key'.nonce = key.nonce
                          \/ /\ KStopped /\ key'.id = key.id /\ key'.nonce = key.nonce + 1
                             /\ ~IsKey(key.id) /\ key.imp = "none" /\ ~AdoptsLegacy /\ remote.key[Derived(key.nonce)] = "tombstone"
                          \/ key' = key /\ kw'.pc = "pin" /\ ~IsKey(key.id) /\ key.imp = "ref" /\ remote' = remote
                          \/ key' = key /\ SameKeys /\ IsKey(key.id) /\ Learned(key.id)
                          \/ /\ key' = key /\ SameKeys /\ ~IsKey(key.id) /\ key.imp = "none"
                             /\ AdoptsLegacy /\ Learned(Legacy)
                          \/ /\ key' = key /\ ~IsKey(key.id) /\ key.imp = "none" /\ ~AdoptsLegacy
                             /\ Learned(Derived(key.nonce))
                             /\ Imports(Derived(key.nonce)) \/ (SameKeys /\ remote.key[Derived(key.nonce)] = "live")
  /\ kw.pc = "pin" => \/ KStopped /\ key'.id = key.id
                      \/ kw'.pc = "import" /\ key'.id = key.id /\ remote' = remote
                      \/ key' = key /\ SameKeys /\ IsKey(snapshot.id) /\ Learned(snapshot.id)
  /\ kw.pc = "import" => \/ KStopped /\ key'.id = key.id
                         \/ key' = key /\ Imports(snapshot.id) /\ Learned(snapshot.id)
  /\ kw.pc = "bind" => remote' = remote /\ (\/ KStopped /\ key'.id = key.id
                                            \/ kw'.pc = "perms" /\ key'.id = kw.id)
  /\ kw.pc = "status" => /\ kw'.pc = "idle" /\ remote' = remote
                         /\ key'.id = key.id \/ (~IsKey(key.id) /\ key'.id = 0)
  /\ kw.pc = "finalize" => /\ key' = key \/ KSame(key', key)
                           /\ remote' = remote
                           /\ \/ kw'.pc = "idle"
                              \/ /\ kw'.pc = "revoke" /\ key' = key
                                 /\ \/ key.imp = "none" /\ key.id = 0 /\ kw'.tgt = DeterministicIDs
                                    \/ ~(key.imp = "none" /\ key.id = 0) /\ ~Refuses /\ kw'.tgt = RecordedIDs
  /\ kw.pc = "revoke" => \/ kw'.pc = "idle" /\ remote' = remote /\ KSame(key', key)
                         \/ kw'.pc = "idle" /\ remote' = remote /\ key' = NoKey /\ kw.tgt = {}
                         \/ key' = key /\ kw'.pc = "revoke" /\ \E id \in kw.tgt : Revokes(id) /\ kw'.tgt = kw.tgt \ {id}

LEMMA KWritesStep == ASSUME Base, KeyObject, SnapshotKnown, KeyNext \/ KeyFault, kw.pc # "idle", ~CollectKeySecrets PROVE KWrites
<1>0. kw.obj.id = key.id /\ kw.obj.imp = key.imp /\ kw.obj.nonce = key.nonce /\ kw.obj.uid = key.uid /\ kw.obj.pin = key.pin
      /\ (key.imp = "none" => key.pin = 0)
  BY DEF KeyObject, SameKey
<1>1. CASE KeyFault
  <2>1. KStopped /\ KSame(key', key) /\ (kw'.pc = "mark" => kw.pc \in Early /\ key'.id # 0)
    BY <1>1, KeyFaultFlat DEF KErred, KEnded, KStopped, Early
  <2> QED BY <2>1 DEF KWrites, KStopped, KSame, KIds, Early
<1>2. CASE GetTrackedKey
  <2>1. kw.pc = "resolve" /\ key' = key /\ SameKeys /\ IsKey(key.id) /\ Learned(key.id)
    BY <1>0, <1>2, TrackedFlat, KeyReads DEF Base, Garages, SameKeys
  <2>2. kw'.pc # "mark"
    BY <2>1 DEF Learned
  <2> QED BY <2>1, <2>2 DEF KWrites
<1>3. CASE EnsureImportKeySnapshot
  <2>1. kw.pc = "resolve" /\ ~IsKey(key.id) /\ key.imp = "ref" /\ remote' = remote
    BY <1>0, <1>3, SnapshotFlat
  <2>2. CASE KErred /\ KSame(key', key)
    BY <2>1, <2>2, KErredStops DEF KWrites, KErred, KEnded, KStopped, KSame, KIds
  <2>3. CASE KWent("pin")
    BY <2>1, <2>3 DEF KWrites, KWent
  <2> QED BY <1>3, <2>2, <2>3, SnapshotFlat
<1>4. CASE PinImport
  <2>1. kw.pc = "pin" /\ remote' = remote
    BY <1>4, PinFlat
  <2>2. CASE KErred /\ KSame(key', key)
    BY <2>1, <2>2, KErredStops DEF KWrites, KErred, KEnded, KStopped, KSame, KIds
  <2>3. CASE IsKey(snapshot.id) /\ Learned(snapshot.id) /\ key' = key
    BY <2>1, <2>3 DEF KWrites, Learned, SameKeys
  <2>4. CASE kw'.pc = "import" /\ key'.id = key.id
    BY <2>1, <2>4 DEF KWrites
  <2> QED BY <1>4, <2>2, <2>3, <2>4, PinFlat
<1>5. CASE ImportPinnedKey
  <2>1. kw.pc = "import"
    BY <1>5, ImportFlat
  <2>2. CASE KErred /\ KSame(key', key) /\ remote' = remote
    BY <2>1, <2>2, KErredStops DEF KWrites, KErred, KEnded, KStopped, KSame, KIds
  <2>3. CASE /\ remote.key[snapshot.id] = "free" /\ key' = key /\ Learned(snapshot.id)
             /\ remote' = ImportKey(remote, snapshot.id, kw.obj.uid, kw.obj.renamed)
    <3>1. snapshot.id \in KeyId /\ remote \in Garages
      BY <2>1, KeyReads, BucketReads DEF SnapshotKnown, Base, Typed, KeyIds
    <3>2. Imports(snapshot.id)
      BY <1>0, <2>3, <3>1, ImportKeyIs DEF Imports, SameGarage
    <3>3. kw'.pc # "mark"
      BY <2>3 DEF Learned
    <3> QED BY <2>1, <2>3, <3>2, <3>3 DEF KWrites
  <2> QED BY <1>5, <2>2, <2>3, ImportFlat
<1>6. CASE CreateOrAdoptDeterministic
  <2>1. kw.pc = "resolve" /\ ~IsKey(key.id) /\ key.imp = "none" /\ remote \in Garages
    BY <1>0, <1>6, AdoptFlat, BucketReads DEF Base
  <2>2. CASE AdoptsLegacy /\ remote' = [remote EXCEPT !.name[Legacy] = TRUE] /\ Learned(Legacy) /\ key' = key
    <3>1. SameKeys /\ kw'.pc # "mark"
      BY <2>1, <2>2 DEF Garages, SameKeys, Learned
    <3> QED BY <2>1, <2>2, <3>1 DEF KWrites
  <2>3. CASE /\ ~AdoptsLegacy /\ remote.key[Derived(key.nonce)] = "free" /\ Learned(Derived(key.nonce)) /\ key' = key
             /\ remote' = ImportKey(remote, Derived(key.nonce), kw.obj.uid, kw.obj.renamed)
    <3>1. Derived(key.nonce) \in KeyId
      BY KeyReads, Constants DEF Base, Keys, Derived
    <3>2. Imports(Derived(key.nonce)) /\ kw'.pc # "mark"
      BY <1>0, <2>1, <2>3, <3>1, ImportKeyIs DEF Imports, SameGarage, Learned
    <3> QED BY <2>1, <2>3, <3>2 DEF KWrites
  <2>4. CASE /\ ~AdoptsLegacy /\ remote.key[Derived(key.nonce)] = "live" /\ Learned(Derived(key.nonce)) /\ key' = key
             /\ remote' = [remote EXCEPT !.name[Derived(key.nonce)] = kw.obj.renamed]
    <3>1. SameKeys /\ kw'.pc # "mark"
      BY <2>1, <2>4 DEF Garages, SameKeys, Learned
    <3> QED BY <2>1, <2>4, <3>1 DEF KWrites
  <2>5. CASE /\ ~AdoptsLegacy /\ remote.key[Derived(key.nonce)] = "tombstone" /\ UNCHANGED remote
             /\ KErred /\ key'.id = key.id /\ key'.nonce = key.nonce + 1
    <3>1. KStopped /\ (kw'.pc = "mark" => key'.id # 0)
      BY <2>5, KErredStops DEF KErred, KEnded, KStopped
    <3> QED BY <2>1, <2>5, <3>1 DEF KWrites
  <2> QED BY <1>6, <2>2, <2>3, <2>4, <2>5, AdoptFlat
<1>7. CASE PersistAccessKeyID
  BY <1>7, PersistKeyFlat DEF KWrites
<1>8. CASE ReserveBucketGrants
  <2>1. kw.pc = "perms" /\ (kw'.pc = "mark" => key'.id # 0)
    BY <1>8, ReserveKeyFlat DEF KErred, KEnded, KMoved
  <2> QED BY <2>1 DEF KWrites
<1>9. CASE UnionBucketPermissions
  BY <1>9, UnionKeyFlat DEF KWrites
<1>10. CASE ApplyBucketPermissions
  BY <1>10, ApplyKeyFlat DEF KWrites
<1>11. CASE NarrowBucketGrants
  <2>1. kw.pc = "apply"
    BY <1>11, NarrowKeyFlat
  <2>2. CASE KErred
    BY <2>1, <2>2 DEF KWrites, KErred, KEnded
  <2>3. CASE KMoved("mark")
    BY <2>1, <2>3 DEF KWrites, KMoved, KIds
  <2> QED BY <1>11, <2>2, <2>3, NarrowKeyFlat
<1>12. CASE MarkPreviousGeneratedSecret
  BY <1>12, MarkFlat DEF KWrites, Early
<1>13. CASE PublishSecret
  BY <1>13, PublishFlat DEF KWrites, Early
<1>14. CASE PersistSecretRef
  BY <1>14, HandoffFlat DEF KWrites, Early
<1>15. CASE CleanupStaleGeneratedSecrets
  BY <1>15, SweepFlat DEF KWrites, Early
<1>16. CASE UpdateKeyStatus
  BY <1>0, <1>16, KeyStatusFlat DEF KWrites, Early, KEnded
<1>17. CASE FinalizeKey
  <2>1. kw.pc = "finalize" /\ key' = key /\ remote' = remote
    BY <1>17, FinalizeKeyFlat
  <2>2. CASE KEnded
    BY <2>1, <2>2 DEF KWrites, KEnded, Early
  <2>3. CASE ~KEnded
    BY <1>0, <1>17, <2>1, <2>3, FinalizeKeyFlat DEF KWrites, Early
  <2> QED BY <2>2, <2>3
<1>18. CASE RevokeAndDeleteKey
  <2>1. PICK id \in kw.tgt : remote' = DeleteKey(remote, id) /\ kw'.pc = "revoke" /\ kw'.tgt = kw.tgt \ {id}
    BY <1>18, RevokeFlat
  <2>2. kw.pc = "revoke" /\ key' = key /\ id \in KeyId
    BY <1>18, RevokeFlat, KeyHeld
  <2>3. Revokes(id)
    BY <2>1, <2>2, BucketReads, DeleteKeyIs DEF Base, Revokes, SameNames
  <2>4. \E i \in kw.tgt : Revokes(i) /\ kw'.tgt = kw.tgt \ {i}
    BY <2>1, <2>3
  <2> QED BY <2>1, <2>2, <2>4 DEF KWrites, Early
<1>19. CASE DropKeyFinalizer
  BY <1>19, DropKeyFlat DEF KWrites, Early, KEnded
<1>20. CASE StartKey
  BY <1>20 DEF StartKey, K
<1> HIDE DEF KWrites
<1> QED BY <1>1, <1>2, <1>3, <1>4, <1>5, <1>6, <1>7, <1>8, <1>9, <1>10, <1>11, <1>12, <1>13, <1>14, <1>15, <1>16, <1>17,
   <1>18, <1>19, <1>20 DEF KeyNext

\* Only a key that Garage does not have is imported, adopted or bound.
Unbound == kw.pc \in {"pin", "import", "bind"} => ~IsKey(key.id)

LEMMA UnboundNext == ASSUME Objects, Unbound, Next PROVE Unbound'
<1>0. Base /\ BucketObject /\ KeyObject /\ SnapshotKnown /\ (key.id # 0 => key.id \in KeyId) /\ kw.obj.id \in KeyIds
  BY KeyReads DEF Objects, Base, Keys, KeyIds, KWorkers
<1>1. CASE BucketNext \/ BucketFault
  <2>1. UNCHANGED <<key, kw>> /\ SameKeys
    BY <1>0, <1>1, BucketFrame, BucketCallsStep DEF BucketCalls
  <2> QED BY <2>1 DEF Unbound, IsKey, SameKeys
<1>2. CASE KeyNext \/ KeyFault
  <2>1. CASE kw.pc = "idle"
    <3>1. kw'.pc \notin {"pin", "import", "bind"}
      BY <1>0, <1>2, <2>1, KMovesStep DEF KMoves, Early
    <3> QED BY <3>1 DEF Unbound
  <2>2. CASE CollectKeySecrets
    BY <2>2 DEF Unbound, IsKey, CollectKeySecrets
  <2>3. CASE kw.pc # "idle" /\ ~CollectKeySecrets
    <3>0. KWrites /\ KMoves /\ kw.obj.id = key.id
      BY <1>0, <1>2, <2>3, KWritesStep, KMovesStep DEF KeyObject, SameKey
    <3>1. CASE kw.pc = "resolve"
      <4>1. CASE Learned(key.id)
        BY <3>0, <4>1 DEF Unbound, Learned
      <4>2. CASE key' = key /\ SameKeys /\ ~IsKey(key.id)
        BY <4>2 DEF Unbound, IsKey, SameKeys
      <4>3. CASE key' = key /\ ~IsKey(key.id) /\ Imports(Derived(key.nonce)) /\ Learned(Derived(key.nonce))
        BY <1>0, <3>0, <4>3 DEF Unbound, IsKey, Imports, Learned
      <4>4. CASE KStopped
        BY <4>4 DEF Unbound, KStopped
      <4>5. CASE key' = key /\ ~IsKey(key.id) /\ remote' = remote
        BY <4>5 DEF Unbound, IsKey
      <4> QED BY <3>0, <3>1, <4>1, <4>2, <4>3, <4>4, <4>5 DEF KWrites
    <3>2. CASE kw.pc = "pin"
      <4>1. CASE KStopped
        BY <4>1 DEF Unbound, KStopped
      <4>2. CASE key'.id = key.id /\ remote' = remote
        BY <3>2, <4>2 DEF Unbound, IsKey
      <4>3. CASE key' = key /\ SameKeys
        BY <3>2, <4>3 DEF Unbound, IsKey, SameKeys
      <4> QED BY <3>0, <3>2, <4>1, <4>2, <4>3 DEF KWrites
    <3>3. CASE kw.pc = "import"
      <4>1. CASE KStopped
        BY <4>1 DEF Unbound, KStopped
      <4>2. CASE key' = key /\ Imports(snapshot.id) /\ Learned(snapshot.id)
        BY <1>0, <3>0, <3>3, <4>2 DEF Unbound, IsKey, Imports, Learned
      <4> QED BY <3>0, <3>3, <4>1, <4>2 DEF KWrites
    <3>4. CASE kw.pc \notin {"resolve", "pin", "import"}
      <4>1. CASE UNCHANGED <<key, kw>>
        <5>1. kw'.pc \notin {"pin", "import", "bind"} \/ kw.pc = "bind"
          BY <3>4, <4>1
        <5>2. CASE kw.pc = "bind"
          BY <3>0, <4>1, <5>2 DEF Unbound, KWrites, IsKey
        <5> QED BY <5>1, <5>2 DEF Unbound
      <4>2. CASE ~UNCHANGED <<key, kw>>
        <5>1. kw'.pc \notin {"pin", "import", "bind"}
          BY <2>3, <3>0, <3>4, <4>2 DEF KMoves, Early
        <5> QED BY <5>1 DEF Unbound
      <4> QED BY <4>1, <4>2
    <3> QED BY <3>1, <3>2, <3>3, <3>4
  <2> QED BY <2>1, <2>2, <2>3
<1>3. CASE TokenNext \/ TokenFault \/ ReconcileGrant
  BY <1>3, QuietFrame DEF Unbound, IsKey
<1>4. CASE UserNext
  <2>0. kw' = kw /\ UserCalls /\ UserKey
    BY <1>0, <1>4, UserFrame, UserCallsStep, UserKeyFlat
  <2>1. ASSUME NEW k \in KeyId, ~IsKey(k) PROVE remote'.key[k] # "live"
    BY <2>0, <2>1, Constants DEF UserCalls, SameKeys, Revokes, IsKey
  <2>2. CASE key'.id = key.id
    BY <1>0, <2>0, <2>1, <2>2 DEF Unbound, IsKey
  <2>3. CASE key'.id = 0
    BY <2>3 DEF Unbound, IsKey
  <2> QED BY <2>0, <2>2, <2>3, NoKeyIs DEF UserKey, EditedKey, CreatedKey, MarkedKey, SameKey
<1> QED BY <1>1, <1>2, <1>3, <1>4, NextCases

\* No step exchanges a recorded identity that Garage has.
LEMMA IdentityKept ==
  ASSUME Objects, Unbound, Next, IsKey(key.id), key'.uid = key.uid
  PROVE  key'.id = key.id
<1>0. Base /\ BucketObject /\ KeyObject /\ SnapshotKnown
  BY DEF Objects
<1>1. CASE BucketNext \/ BucketFault
  BY <1>1, BucketFrame
<1>2. CASE KeyNext \/ KeyFault
  <2>1. key.uid # 0
    BY <1>0, NoKeyIs DEF KeyObject, IsKey
  <2>2. CASE kw.pc = "idle"
    <3>1. CollectKeySecrets \/ StartKey
      BY <1>0, <1>2, <2>2, KeyActs, KeyFaultFlat
    <3>2. CASE StartKey
      BY <1>0, <2>1, <3>2, StartKeyFlat, NoKeyIs DEF KIds
    <3> QED BY <3>1, <3>2 DEF CollectKeySecrets
  <2>3. CASE kw.pc = "revoke" /\ ~CollectKeySecrets
    BY <1>0, <1>2, <2>1, <2>3, KWritesStep, NoKeyIs DEF KWrites, KSame, KIds
  <2>4. CASE kw.pc \in {"bind", "status"} /\ ~CollectKeySecrets
    BY <1>0, <1>2, <2>4, KWritesStep DEF KWrites, Unbound
  <2>5. CASE kw.pc \notin {"idle", "revoke", "bind", "status"}
    BY <1>0, <1>2, <2>5, KKeptStep DEF KKept
  <2>6. CASE CollectKeySecrets
    BY <2>6 DEF CollectKeySecrets
  <2> QED BY <2>2, <2>3, <2>4, <2>5, <2>6
<1>3. CASE TokenNext \/ TokenFault \/ ReconcileGrant
  BY <1>3, QuietFrame
<1>4. CASE UserNext
  <2>0. UserKey
    BY <1>0, <1>4, UserKeyFlat
  <2>1. key.uid # 0 /\ key.id # 0
    BY <1>0, NoKeyIs DEF KeyObject, IsKey
  <2> QED BY <1>0, <2>0, <2>1, NoKeyIs DEF UserKey, EditedKey, CreatedKey, MarkedKey, SameKey, KeyObject
<1> QED BY <1>1, <1>2, <1>3, <1>4, NextCases

-----------------------------------------------------------------------------
(* Identities.                                                             *)
IdentityInvariant == Objects /\ GarageForm /\ ForeignForm /\ Unbound /\ TokenKnown

\* What a step may do to the credential of a token.
TokenKept ==
  token'.uid = token.uid =>
    /\ token.digest # 0 /\ token'.digest # token.digest => token.digest \in token.lost
    /\ token.sec.by # 0 /\ token'.sec # token.sec => token.del \/ token.sec.val \in token'.lost

LEMMA TokenKeptByWorker == ASSUME Typed, TokenKnown, TokenNext \/ TokenFault PROVE TokenKept
<1>0. token \in Tokens
  BY DEF Typed
<1> USE DEF Tokens
<1>a. ASSUME NEW t \in Tokens, TStop(t)
      PROVE  token'.uid = t.uid /\ token'.digest = t.digest /\ token'.sec = t.sec /\ token'.lost = t.lost
  BY <1>a DEF TStop
<1>1. CASE StartToken
  BY <1>0, <1>1 DEF StartToken, TokenKept
<1>2. CASE ReconcileTokenSecret
  <2>1. CASE TStop([token EXCEPT !.phase = "Failed"])
    <3>1. [token EXCEPT !.phase = "Failed"] \in Tokens
      BY <1>0 DEF Phases
    <3> QED BY <1>0, <1>a, <2>1, <3>1 DEF TokenKept
  <2>2. CASE token' = [token EXCEPT !.pc = "status", !.new = token.sec.val]
    BY <1>0, <2>2 DEF TokenKept
  <2>3. CASE token.sec.by = 0 /\ token' = [token EXCEPT !.sec = [by |-> token.uid, val |-> token.next],
                                            !.next = @ + 1, !.pc = "status", !.new = token.next]
    BY <1>0, <2>3 DEF TokenKept
  <2> QED BY <1>2, <2>1, <2>2, <2>3 DEF ReconcileTokenSecret
<1>3. CASE PublishTokenStatus
  <2>1. CASE TStop(token)
    BY <1>0, <1>a, <2>1 DEF TokenKept
  <2>2. CASE TStop([token EXCEPT !.phase = "Ready", !.digest = token.new])
    <3>1. [token EXCEPT !.phase = "Ready", !.digest = token.new] \in Tokens
      BY <1>0 DEF Phases
    <3>2. token'.digest = token.new /\ token'.sec = token.sec
      BY <1>0, <1>a, <2>2, <3>1
    <3>3. token.digest \in {0, token.new} \cup token.lost
      BY <1>3 DEF PublishTokenStatus, TokenKnown
    <3> QED BY <3>2, <3>3 DEF TokenKept
  <2> QED BY <1>3, <2>1, <2>2 DEF PublishTokenStatus
<1>4. CASE FinalizeToken
  <2>1. token.del
    BY <1>4 DEF FinalizeToken, TokenKnown
  <2>2. token'.digest = token.digest
    BY <1>0, <1>4, <1>a DEF FinalizeToken
  <2> QED BY <2>1, <2>2 DEF TokenKept
<1>5. CASE DropTokenFinalizer
  BY <1>0, <1>5 DEF DropTokenFinalizer, NoToken, TokenKept, TokenKnown
<1>6. CASE TokenFault
  <2>1. CASE TStop(token)
    BY <1>0, <1>a, <2>1 DEF TokenKept
  <2>2. CASE FailTokenCreate
    <3> DEFINE n == token.next + 1
               l == token.lost \cup {token.next}
               d == IF token.read = token.ver THEN token.next ELSE token.digest
               t == [token EXCEPT !.phase = "Failed", !.next = n, !.lost = l, !.digest = d]
    <3>1. n \in Nat /\ l \in SUBSET Nat /\ d \in Nat
      BY <1>0
    <3>2. TStop(t) /\ token.pc = "secret" /\ token.sec.by = 0
      BY <1>0, <2>2 DEF FailTokenCreate
    <3> HIDE DEF n, l, d
    <3>3. t \in Tokens /\ t.sec = token.sec
      BY <1>0, <3>1 DEF Phases
    <3> HIDE DEF t
    <3>4. token'.sec = token.sec
      BY <1>a, <3>2, <3>3
    <3> QED BY <3>2, <3>4 DEF TokenKept, TokenKnown
  <2> QED BY <1>6, <2>1, <2>2 DEF TokenFault
<1> QED BY <1>1, <1>2, <1>3, <1>4, <1>5, <1>6 DEF TokenNext

LEMMA TokenKeptNext == ASSUME Objects, TokenKnown, Next PROVE TokenKept
<1>0. token \in Tokens /\ Typed /\ Base
  BY DEF Objects, Base, Typed
<1>1. CASE BucketNext \/ BucketFault
  BY <1>1, BucketFrame DEF TokenKept
<1>2. CASE KeyNext \/ KeyFault
  BY <1>2, KeyFrame DEF TokenKept
<1>3. CASE TokenNext \/ TokenFault
  BY <1>0, <1>3, TokenKeptByWorker
<1>4. CASE ReconcileGrant
  BY <1>4 DEF ReconcileGrant, TokenKept
<1>5. CASE UserNext
  <2>1. CASE EditToken
    <3>1. CASE token.uid = 0 /\ token' = [token EXCEPT !.uid = token.next]
      BY <1>0, <3>1 DEF Tokens, TokenKept
    <3>2. CASE token' = [token EXCEPT !.ver = @ + 1]
      BY <1>0, <3>2 DEF Tokens, TokenKept
    <3>3. CASE token' = [token EXCEPT !.del = TRUE]
      BY <1>0, <3>3 DEF Tokens, TokenKept
    <3>4. CASE token.uid # 0 /\ token' = [NoToken EXCEPT !.consumed = token.consumed, !.next = token.next]
      BY <1>0, <3>4 DEF Tokens, NoToken, TokenKept
    <3>5. CASE token' = [token EXCEPT !.consumed = ~@]
      BY <1>0, <3>5 DEF Tokens, TokenKept
    <3>6. CASE token' = [token EXCEPT !.sec = [by |-> 0, val |-> 0], !.lost = @ \cup {token.sec.val}]
      <4>1. token'.lost = token.lost \cup {token.sec.val} /\ token'.digest = token.digest
        BY <1>0, <3>6 DEF Tokens
      <4> QED BY <4>1 DEF TokenKept
    <3> QED BY <2>1, <3>1, <3>2, <3>3, <3>4, <3>5, <3>6 DEF EditToken
  <2>2. CASE ~EditToken
    <3>1. token' = token
      BY <1>5, <2>2 DEF UserNext, EditBucket, EditKey, CreateOrDelete, EditGrant, DeleteCluster, CollectBucket, Outside, RunRepair
    <3> QED BY <3>1 DEF TokenKept
  <2> QED BY <2>1, <2>2
<1> QED BY <1>1, <1>2, <1>3, <1>4, <1>5, NextCases

LEMMA FirstIdentities == ASSUME Init PROVE IdentityInvariant
<1>0. Foreign \in BucketId /\ Foreign # 0 /\ Mine # Foreign /\ Derived(0) \in KeyId /\ Mine \in BucketId
  BY Constants DEF Mine, Foreign
<1>1. GarageForm
  BY <1>0, FirstGarage DEF GarageForm
<1>2. ForeignForm
  <2>1. bucket.id # Foreign /\ bucket.want = 0
    BY <1>0, FirstFields, BoundBucketIs, NoBucketIs
  <2>2. remote.by[Foreign] = 0 /\ remote.bucket[Foreign] = "live"
    BY <1>0, FirstGarage
  <2>3. \A a \in {"rsv1", "rsv2"} : remote.alias[a] = 0
    BY FirstGarage DEF Alias
  <2>4. bw.pc \notin Holding
    BY FirstWorkers DEF Holding
  <2> QED BY <1>0, <2>1, <2>2, <2>3, <2>4 DEF ForeignForm
<1>3. Unbound
  BY FirstWorkers DEF Unbound
<1> QED BY <1>1, <1>2, <1>3, FirstObjects, FirstToken DEF IdentityInvariant

LEMMA IdentityNext == ASSUME IdentityInvariant, [Next]_tenantVars PROVE IdentityInvariant'
<1>1. CASE Next
  BY <1>1, ObjectsNext, GarageFormNext, ForeignNext, UnboundNext, TokenKnownNext DEF IdentityInvariant
<1>2. CASE UNCHANGED tenantVars
  BY <1>2 DEF tenantVars, IdentityInvariant, Objects, Base, Typed, BucketWorker, KeyWorker, BucketObject, KeyObject,
     SnapshotKnown, GarageForm, ForeignForm, Unbound, IsKey, TokenKnown, TokenIsPinned
<1> QED BY <1>1, <1>2

(* No step takes a bucket that the object was not bound to by its owner,     *)
(* none exchanges the recorded identity of a key that Garage still has, and  *)
(* none replaces a bearer that its Secret still carries, for every set of    *)
(* aspects and every bound (getOrCreateBucket, adoptGeneratedBucket,         *)
(* ensureGlobalAlias, getOrCreateKey, reconcileSecret).                      *)
THEOREM IdentitiesStay == Spec => IdentitiesAreRespected
<1>1. Init => IdentityInvariant
  BY FirstIdentities
<1>2. IdentityInvariant /\ [Next]_tenantVars => IdentityInvariant'
  BY IdentityNext
<1>3. ASSUME IdentityInvariant, [Next]_tenantVars, edits' = edits, Foreign \notin {bucket.want, bw.obj.want}
      PROVE  /\ remote'.bucket[Foreign] = remote.bucket[Foreign]
             /\ \A a \in Alias : remote.alias[a] = Foreign => remote'.alias[a] = Foreign
  <2>1. CASE UNCHANGED tenantVars
    BY <2>1 DEF tenantVars
  <2> QED BY <1>3, <2>1, ForeignKept DEF IdentityInvariant
<1>4. ASSUME IdentityInvariant, [Next]_tenantVars, IsKey(key.id), key'.uid = key.uid
      PROVE  key'.id = key.id
  <2>1. CASE UNCHANGED tenantVars
    BY <2>1 DEF tenantVars
  <2> QED BY <1>4, <2>1, IdentityKept DEF IdentityInvariant
<1>5. IdentityInvariant /\ [Next]_tenantVars =>
        [edits' = edits /\ Foreign \notin {bucket.want, bw.obj.want} =>
          /\ remote'.bucket[Foreign] = remote.bucket[Foreign]
          /\ \A a \in Alias : remote.alias[a] = Foreign => remote'.alias[a] = Foreign]_tenantVars
  BY <1>3
<1>6. IdentityInvariant /\ [Next]_tenantVars => [IsKey(key.id) /\ key'.uid = key.uid => key'.id = key.id]_tenantVars
  BY <1>4
<1>7. IdentityInvariant /\ [Next]_tenantVars =>
        [token'.uid = token.uid =>
          /\ token.digest # 0 /\ token'.digest # token.digest => token.digest \in token.lost
          /\ token.sec.by # 0 /\ token'.sec # token.sec => token.del \/ token.sec.val \in token'.lost]_tenantVars
  BY TokenKeptNext DEF IdentityInvariant, TokenKept
<1> QED BY <1>1, <1>2, <1>5, <1>6, <1>7, PTL
        DEF Spec, IdentitiesAreRespected, ForeignBucketIsUntouched, KeyIdentityIsStable, TokenIsNeverRotated

-----------------------------------------------------------------------------
(* Keys in Garage.                                                         *)

\* A step that changes neither Garage's keys nor what the object says of its own.
SameHolder ==
  /\ key'.uid = key.uid /\ key'.nonce = key.nonce /\ key'.imp = key.imp /\ key'.id = key.id
  /\ focus # "key" => key'.renamed = key.renamed
LEMMA HeldSame ==
  ASSUME Base, KeysHeld, SameKeys, SameHolder, focus' = focus, KeyAttended' => KeyAttended, key.fin => key'.fin,
         snapshot' = snapshot \/ snapshot.by # key.uid
  PROVE  KeysHeld'
<1>1. \A k : Live(k)' <=> Live(k)
  BY DEF Live, SameKeys
<1>2. ASSUME NEW k \in KeyId, KeyTracked(k), Live(k) PROVE KeyTracked(k)'
  <2>1. Live(Legacy) => focus # "key"
    BY DEF KeysHeld
  <2> QED BY <1>2, <2>1 DEF KeyTracked, SameHolder
<1>3. Live(Legacy) => focus # "key"
  BY DEF KeysHeld
<1> HIDE DEF Live
<1> QED BY <1>1, <1>2, <1>3 DEF KeysHeld, SameKeys, SameHolder

LEMMA HeldRevokes ==
  ASSUME Base, KeysHeld, NEW i, Revokes(i), SameHolder, focus' = focus, KeyAttended' => KeyAttended, key.fin => key'.fin,
         snapshot' = snapshot \/ snapshot.by # key.uid
  PROVE  KeysHeld'
<1>1. \A k \in KeyId : Live(k)' => Live(k)
  BY DEF Live, Revokes
<1>2. ASSUME NEW k \in KeyId, KeyTracked(k), Live(k) PROVE KeyTracked(k)'
  <2>1. Live(Legacy) => focus # "key"
    BY DEF KeysHeld
  <2> QED BY <1>2, <2>1 DEF KeyTracked, SameHolder
<1>3. (Live(Legacy) => focus # "key") /\ Legacy \in KeyId
  BY Constants DEF KeysHeld
<1> HIDE DEF Live
<1> QED BY <1>1, <1>2, <1>3 DEF KeysHeld, Revokes, SameHolder

\* An import makes the one key there is.
LEMMA HeldImports ==
  ASSUME Base, KeysHeld, GarageForm, NEW i, Imports(i), key' = key, focus' = focus, cluster'.state = cluster.state,
         snapshot' = snapshot \/ snapshot.by # key.uid, key.fin, key.uid # 0, i # Legacy,
         focus # "lostKey" => KeyTracked(i) /\ \A k \in KeyId : ~Live(k)
  PROVE  KeysHeld'
<1>0. i \in KeyId /\ remote.keyBy[i] = 0
  BY DEF Imports, GarageForm
<1>1. \A k \in KeyId : Live(k)' <=> Live(k) \/ k = i
  BY DEF Live, Imports
<1>2. KeyTracked(i) => KeyTracked(i)'
  BY DEF KeyTracked
<1>3. key.id # i
  BY <1>0, Constants DEF KeysHeld
<1>4. Legacy \in KeyId
  BY Constants
<1>5. key.id # 0 => key.id \in KeyId
  BY KeyReads DEF Base, Keys, KeyIds
<1>6. KeyAttended' /\ KeyAttended
  BY DEF KeyAttended
<1>7. \A k \in KeyId : remote'.keyBy[k] = IF k = i THEN key.uid ELSE remote.keyBy[k]
  BY DEF Imports
<1>8. focus = "lostKey" => key'.uid \in {0, 1} /\ \A k \in KeyId : remote'.keyBy[k] \in {0, 1}
  BY <1>7 DEF KeysHeld
<1> HIDE DEF Live, KeyTracked
<1> QED BY <1>0, <1>1, <1>2, <1>3, <1>4, <1>5, <1>6, <1>7, <1>8 DEF KeysHeld

\* The object is bound to the key there is, or forgets one that is gone.
LEMMA HeldBinds ==
  ASSUME Base, KeysHeld, SameKeys, focus' = focus, cluster'.state = cluster.state,
         snapshot' = snapshot \/ snapshot.by # key.uid,
         key'.uid = key.uid, key'.nonce = key.nonce, key'.imp = key.imp, key'.renamed = key.renamed, key'.fin, key.fin,
         key'.id # 0 => remote.keyBy[key'.id] = key.uid,
         focus # "lostKey" => key'.id = key.id \/ (key'.id \in KeyId /\ Live(key'.id))
  PROVE  KeysHeld'
<1>1. \A k : Live(k)' <=> Live(k)
  BY DEF Live, SameKeys
<1>2. KeyAttended' /\ KeyAttended
  BY DEF KeyAttended
<1>3. ASSUME NEW k \in KeyId, Live(k), focus # "lostKey" PROVE KeyTracked(k)'
  <2>1. KeyTracked(k)
    BY <1>2, <1>3 DEF KeysHeld
  <2>2. CASE key'.id = key.id
    BY <2>1, <2>2 DEF KeyTracked
  <2>3. CASE key'.id \in KeyId /\ Live(key'.id)
    <3>1. k = key'.id
      BY <1>2, <1>3, <2>3 DEF KeysHeld
    <3> QED BY <2>1, <3>1 DEF KeyTracked
  <2> QED BY <1>3, <2>2, <2>3
<1> HIDE DEF Live, KeyTracked
<1> QED BY <1>1, <1>2, <1>3 DEF KeysHeld, SameKeys

\* There is no key: another incarnation or another nonce starts from nothing.
LEMMA HeldNone ==
  ASSUME Base, KeysHeld, GarageForm, SameKeys, focus' = focus, ~Live(Legacy),
         key'.id # 0 => key'.id = key.id /\ key'.uid = key.uid,
         focus = "lostKey" => key'.uid \in {0, key.uid},
         focus # "lostKey" /\ KeyAttended' => \A k \in KeyId : ~Live(k)
  PROVE  KeysHeld'
<1>0. Legacy \in KeyId
  BY Constants
<1>1. \A k : Live(k)' <=> Live(k)
  BY DEF Live, SameKeys
<1>3. CASE focus = "lostKey"
  <2>1. \A k \in KeyId : Live(k) => remote.keyBy[k] # 0
    BY DEF GarageForm, Live
  <2> HIDE DEF Live, KeyTracked
  <2> QED BY <1>0, <1>1, <1>3, <2>1 DEF KeysHeld, SameKeys
<1>4. CASE focus # "lostKey"
  <2> HIDE DEF Live, KeyTracked
  <2> QED BY <1>0, <1>1, <1>4 DEF KeysHeld, SameKeys
<1> QED BY <1>3, <1>4

\* Material of users is never the derived identity of old.
SnapshotDrawn == snapshot.by # 0 => snapshot.id \in Material
LEMMA SnapshotDrawnNext == ASSUME Objects, SnapshotDrawn, Next PROVE SnapshotDrawn'
<1>0. Base /\ BucketObject /\ KeyObject /\ SnapshotKnown
  BY DEF Objects
<1>1. CASE BucketNext \/ BucketFault
  BY <1>1, BucketFrame DEF SnapshotDrawn
<1>2. CASE KeyNext \/ KeyFault
  <2>1. \/ snapshot' = snapshot
        \/ snapshot' = [by |-> kw.obj.uid, id |-> source]
        \/ snapshot' = [by |-> 0, id |-> 0]
    BY <1>2 DEF KeyNext, KeyFault, KFrame, StartKey, GetTrackedKey, EnsureImportKeySnapshot, PinImport, ImportPinnedKey,
       CreateOrAdoptDeterministic, PersistAccessKeyID, ReserveBucketGrants, UnionBucketPermissions,
       ApplyBucketPermissions, NarrowBucketGrants, MarkPreviousGeneratedSecret, PublishSecret, PersistSecretRef,
       CleanupStaleGeneratedSecrets, UpdateKeyStatus, FinalizeKey, RevokeAndDeleteKey, DropKeyFinalizer, CollectKeySecrets
  <2>2. source \in Material
    BY <1>0 DEF Base, Typed
  <2> QED BY <2>1, <2>2 DEF SnapshotDrawn
<1>3. CASE TokenNext \/ TokenFault \/ ReconcileGrant
  BY <1>3, QuietFrame DEF SnapshotDrawn
<1>4. CASE UserNext
  BY <1>4, UserFrame DEF SnapshotDrawn
<1> QED BY <1>1, <1>2, <1>3, <1>4, NextCases

\* A reconcile that does not find the derived key finds none.
LEMMA NoKeyThere ==
  ASSUME Base, KeyObject, KeysHeld, KeyAtHand, kw.pc = "resolve", ~IsKey(key.id), key.imp = "none", ~AdoptsLegacy
  PROVE  /\ key.fin /\ key.uid # 0
         /\ focus # "lostKey" => key.id = 0 /\ \A k \in KeyId : Live(k) => k = Derived(key.nonce)
         /\ ~Live(Legacy)
<1>1. key.fin /\ key.uid # 0 /\ kw.obj.id = key.id /\ kw.obj.nonce = key.nonce /\ (focus # "key" => kw.obj.renamed = key.renamed)
  BY DEF KeyObject, SameKey
<1>2. focus # "lostKey" => key.id = 0
  BY DEF KeyAtHand, IsKey, Live, KWorking
<1>3. ASSUME NEW k \in KeyId, Live(k), focus # "lostKey" PROVE k = Derived(key.nonce)
  <2>1. KeyTracked(k)
    BY <1>1, <1>3 DEF KeysHeld, KeyAttended
  <2>2. k # 0
    BY Constants
  <2>3. k # Legacy
    BY <1>1, <1>2, <1>3, <2>2 DEF KeysHeld, AdoptsLegacy, IsKey, Live
  <2> QED BY <1>2, <1>3, <2>1, <2>2, <2>3 DEF KeyTracked
<1>4. ~Live(Legacy)
  <2>1. Legacy \in KeyId /\ Derived(key.nonce) # Legacy
    BY Constants, KeyReads DEF Base, Keys, Derived, Legacy
  <2> QED BY <1>3, <2>1 DEF KeysHeld
<1> QED BY <1>1, <1>2, <1>3, <1>4

LEMMA NoImportThere ==
  ASSUME Base, KeyObject, SnapshotKnown, KeysHeld, kw.pc \in {"pin", "import"}, focus # "lostKey"
  PROVE  \A k \in KeyId : Live(k) => k = snapshot.id
<1>1. key.fin /\ key.uid # 0 /\ key.imp = "ref" /\ snapshot.by = key.uid
  BY DEF KeyObject, SnapshotKnown
<1> QED BY <1>1 DEF KeysHeld, KeyTracked, KeyAttended

\* The snapshot is written only where it is nobody's, or another incarnation's.
LEMMA SnapshotMoves ==
  ASSUME KeyObject, KeyNext \/ KeyFault
  PROVE  snapshot' = snapshot \/ snapshot.by # key.uid
<1>1. CASE EnsureImportKeySnapshot
  <2>1. kw.obj.uid = key.uid /\ key.uid # 0
    BY <1>1 DEF EnsureImportKeySnapshot, K, KeyObject, SameKey
  <2> QED BY <1>1, <2>1 DEF EnsureImportKeySnapshot
<1>2. CASE CollectKeySecrets
  BY <1>2 DEF CollectKeySecrets
<1>3. CASE ~EnsureImportKeySnapshot /\ ~CollectKeySecrets
  BY <1>3 DEF KeyNext, KeyFault, KFrame, StartKey, GetTrackedKey, PinImport, ImportPinnedKey,
     CreateOrAdoptDeterministic, PersistAccessKeyID, ReserveBucketGrants, UnionBucketPermissions,
     ApplyBucketPermissions, NarrowBucketGrants, MarkPreviousGeneratedSecret, PublishSecret, PersistSecretRef,
     CleanupStaleGeneratedSecrets, UpdateKeyStatus, FinalizeKey, RevokeAndDeleteKey, DropKeyFinalizer
<1> QED BY <1>1, <1>2, <1>3

LEMMA HeldStart == ASSUME Objects, GarageForm, KeysHeld, Absent, StartKey, KeyNext PROVE KeysHeld'
<1>0. Base /\ focus' = focus /\ cluster' = cluster /\ SameKeys /\ snapshot' = snapshot
  BY StartKeyFlat, KeyFrame DEF SameKeys, Objects
<1>1. CASE key.del /\ key.fin /\ cluster.state = "gone" /\ key' = NoKey
  <2>1. ~KeyAttended' /\ key'.id = 0 /\ key'.uid = 0
    BY <1>0, <1>1, NoKeyIs DEF KeyAttended
  <2>2. ~Live(Legacy)
    BY <1>1 DEF KeysHeld, Absent
  <2> QED BY <1>0, <2>1, <2>2, HeldNone
<1>2. CASE key' = key
  BY <1>0, <1>2, HeldSame DEF SameHolder, KeyAttended
<1>3. CASE /\ ~key.del /\ kw' = kw /\ (key.fin => key'.fin) /\ (cluster.state # "Running" => key'.fin = key.fin)
           /\ key'.uid = key.uid /\ key'.del = key.del /\ key'.ver = key.ver /\ key'.renamed = key.renamed
           /\ key'.imp = key.imp /\ key'.bp = key.bp /\ key'.all = key.all
           /\ KIds(key', key)
  <2>1. SameHolder /\ (KeyAttended' => KeyAttended)
    BY <1>0, <1>3 DEF SameHolder, KIds, KeyAttended
  <2> QED BY <1>0, <1>3, <2>1, HeldSame
<1> QED BY <1>0, <1>1, <1>2, <1>3, StartKeyFlat

LEMMA HeldKeyStep ==
  ASSUME Objects, GarageForm, KeysHeld, KeyAtHand, SnapshotDrawn, Unbound, KeyNext \/ KeyFault, kw.pc # "idle", ~CollectKeySecrets
  PROVE  KeysHeld'
<1>0. /\ Base /\ BucketObject /\ KeyObject /\ SnapshotKnown /\ key.fin /\ key.uid # 0
      /\ focus' = focus /\ cluster' = cluster /\ KWrites /\ KKept /\ KRemote
      /\ snapshot' = snapshot \/ snapshot.by # key.uid
  BY KeyFrame, KWritesStep, KKeptStep, KRemoteStep, SnapshotMoves DEF Objects, KeyObject
<1>1. ASSUME KSpec(key', key), key'.nonce = key.nonce, key'.id = key.id, SameKeys PROVE KeysHeld'
  <2>1. SameHolder /\ (KeyAttended' => KeyAttended) /\ key'.fin
    BY <1>0, <1>1 DEF SameHolder, KSpec, KeyAttended
  <2> QED BY <1>0, <1>1, <2>1, HeldSame
<1>2. CASE kw.pc = "resolve"
  <2>0. KSpec(key', key) /\ key'.id = key.id
    BY <1>0, <1>2 DEF KKept
  <2>1. CASE KStopped /\ key'.nonce = key.nonce
    BY <1>1, <2>0, <2>1 DEF KStopped, SameKeys
  <2>2. CASE KStopped /\ ~IsKey(key.id) /\ key.imp = "none" /\ ~AdoptsLegacy /\ remote.key[Derived(key.nonce)] = "tombstone"
    <3>1. ~Live(Legacy) /\ (focus # "lostKey" => \A k \in KeyId : ~Live(k))
      BY <1>0, <1>2, <2>2, NoKeyThere DEF Live
    <3> QED BY <1>0, <2>0, <2>2, <3>1, HeldNone DEF KStopped, SameKeys, KSpec
  <2>3. CASE key' = key /\ SameKeys
    BY <1>1, <2>0, <2>3
  <2>4. CASE /\ key' = key /\ ~IsKey(key.id) /\ key.imp = "none" /\ ~AdoptsLegacy
             /\ Imports(Derived(key.nonce))
    <3>1. focus # "lostKey" => KeyTracked(Derived(key.nonce)) /\ \A k \in KeyId : ~Live(k)
      BY <1>0, <1>2, <2>4, NoKeyThere DEF Live, KeyTracked, Imports
    <3>2. Derived(key.nonce) # Legacy
      BY <1>0, KeyReads DEF Base, Keys, Derived, Legacy
    <3> QED BY <1>0, <2>4, <3>1, <3>2, HeldImports
  <2>5. remote' = remote => SameKeys
    BY DEF SameKeys
  <2> QED BY <1>0, <1>2, <2>1, <2>2, <2>3, <2>4, <2>5 DEF KWrites
<1>3. CASE kw.pc = "pin"
  <2>0. KSpec(key', key) /\ key'.id = key.id /\ key'.nonce = key.nonce /\ SameKeys
    BY <1>0, <1>3 DEF KKept, KRemote, SameKeys
  <2> QED BY <1>1, <2>0
<1>4. CASE kw.pc = "import"
  <2>0. KSpec(key', key) /\ key'.id = key.id /\ key'.nonce = key.nonce
    BY <1>0, <1>4 DEF KKept
  <2>1. CASE KStopped
    BY <1>1, <2>0, <2>1 DEF KStopped, SameKeys
  <2>2. CASE key' = key /\ Imports(snapshot.id)
    <3>1. key.imp = "ref" /\ snapshot.by = key.uid /\ snapshot.id \in Material
      BY <1>0, <1>4 DEF SnapshotKnown, SnapshotDrawn
    <3>2. snapshot.id # Legacy
      BY <3>1, Constants DEF Material, Legacy
    <3>3. focus # "lostKey" => KeyTracked(snapshot.id) /\ \A k \in KeyId : ~Live(k)
      BY <1>0, <1>4, <2>2, <3>1, NoImportThere DEF Live, KeyTracked, Imports
    <3> QED BY <1>0, <2>2, <3>2, <3>3, HeldImports
  <2> QED BY <1>0, <1>4, <2>1, <2>2 DEF KWrites
<1>5. CASE kw.pc = "bind"
  <2>0. KSpec(key', key) /\ key'.nonce = key.nonce /\ SameKeys /\ kw.id \in KeyId /\ remote.keyBy[kw.id] = key.uid
        /\ (focus # "lostKey" => Live(kw.id))
    BY <1>0, <1>5, KeyHeld DEF KKept, KRemote, SameKeys, KHolding, KeyAtHand
  <2>1. key'.id = key.id \/ key'.id = kw.id
    BY <1>0, <1>5 DEF KWrites
  <2>2. key'.id # 0 => remote.keyBy[key'.id] = key.uid
    BY <2>0, <2>1 DEF KeysHeld
  <2> QED BY <1>0, <2>0, <2>1, <2>2, HeldBinds DEF KSpec
<1>6. CASE kw.pc = "status"
  <2>0. KSpec(key', key) /\ key'.nonce = key.nonce /\ SameKeys
    BY <1>0, <1>6 DEF KKept, KRemote, SameKeys
  <2>1. key'.id = key.id \/ (~IsKey(key.id) /\ key'.id = 0)
    BY <1>0, <1>6 DEF KWrites
  <2>2. focus # "lostKey" => key'.id = key.id
    BY <1>6, <2>1 DEF KeyAtHand, IsKey, Live, KWorking
  <2>3. key'.id # 0 => remote.keyBy[key'.id] = key.uid
    BY <2>1 DEF KeysHeld
  <2> QED BY <1>0, <2>0, <2>2, <2>3, HeldBinds DEF KSpec
<1>7. CASE kw.pc \notin {"idle", "resolve", "pin", "import", "bind", "status", "revoke"}
  <2>0. KSpec(key', key) /\ key'.id = key.id /\ key'.nonce = key.nonce /\ SameKeys
    BY <1>0, <1>7 DEF KKept, KRemote, SameKeys
  <2> QED BY <1>1, <2>0
<1>8. CASE kw.pc = "revoke"
  <2>1. CASE remote' = remote /\ KSame(key', key)
    BY <1>1, <2>1 DEF KSame, KIds, SameKeys
  <2>2. CASE remote' = remote /\ key' = NoKey /\ kw.tgt = {}
    <3>1. focus # "lostKey" => \A k \in KeyId : ~Live(k)
      BY <1>8, <2>2 DEF KeyAtHand
    <3>2. ~Live(Legacy)
      BY <3>1, Constants DEF KeysHeld
    <3> QED BY <1>0, <2>2, <3>1, <3>2, HeldNone, NoKeyIs DEF SameKeys
  <2>3. CASE key' = key /\ \E i \in kw.tgt : Revokes(i)
    <3>1. SameHolder /\ (KeyAttended' => KeyAttended)
      BY <1>0, <2>3 DEF SameHolder, KeyAttended
    <3> QED BY <1>0, <2>3, <3>1, HeldRevokes
  <2> QED BY <1>0, <1>8, <2>1, <2>2, <2>3 DEF KWrites
<1> QED BY <1>0, <1>2, <1>3, <1>4, <1>5, <1>6, <1>7, <1>8

LEMMA KeysHeldNext ==
  ASSUME Objects, Absent, GarageForm, KeysHeld, KeyAtHand, SnapshotDrawn, Unbound, Next
  PROVE  KeysHeld'
<1>0. Base /\ BucketObject /\ KeyObject /\ SnapshotKnown
  BY DEF Objects
<1>1. CASE BucketNext \/ BucketFault
  <2>1. UNCHANGED <<focus, key, snapshot>> /\ SameKeys /\ cluster'.state = cluster.state
    BY <1>0, <1>1, BucketFrame, BRemoteStep DEF BRemote, SameKeys
  <2>2. SameHolder /\ (KeyAttended' => KeyAttended)
    BY <2>1 DEF SameHolder, KeyAttended
  <2> QED BY <1>0, <2>1, <2>2, HeldSame
<1>2. CASE KeyNext \/ KeyFault
  <2>1. CASE CollectKeySecrets
    <3>1. UNCHANGED <<key, remote, focus, cluster>>
      BY <1>0, <1>2, <2>1, CollectFlat, KeyFrame
    <3>2. SameHolder /\ SameKeys /\ (KeyAttended' => KeyAttended)
      BY <3>1 DEF SameHolder, SameKeys, KeyAttended
    <3>3. snapshot' = snapshot \/ snapshot.by # key.uid
      BY <1>0, <1>2, SnapshotMoves
    <3> QED BY <1>0, <3>1, <3>2, <3>3, HeldSame
  <2>2. CASE kw.pc = "idle" /\ ~CollectKeySecrets
    <3>1. KeyNext /\ StartKey
      BY <1>2, <2>2, KeyActs DEF KeyFault, K
    <3> QED BY <3>1, HeldStart
  <2>3. CASE kw.pc # "idle" /\ ~CollectKeySecrets
    BY <1>2, <2>3, HeldKeyStep
  <2> QED BY <2>1, <2>2, <2>3
<1>3. CASE TokenNext \/ TokenFault \/ ReconcileGrant
  <2>1. SameHolder /\ SameKeys /\ (KeyAttended' => KeyAttended) /\ UNCHANGED <<focus, key, snapshot>>
    BY <1>3, QuietFrame DEF SameHolder, SameKeys, KeyAttended
  <2> QED BY <1>0, <2>1, HeldSame
<1>4. CASE UserNext
  <2>0. UNCHANGED <<focus, snapshot>> /\ UserCalls /\ UserKey /\ (cluster'.state = "Running" => cluster.state = "Running")
    BY <1>0, <1>4, UserFrame, UserCallsStep, UserKeyFlat, UserCluster
  <2>1. CASE key' = key /\ SameKeys
    <3>1. SameHolder /\ (KeyAttended' => KeyAttended)
      BY <2>0, <2>1 DEF SameHolder, KeyAttended
    <3> QED BY <1>0, <2>0, <2>1, <3>1, HeldSame
  <2>2. CASE key' = key /\ Revokes(key.id)
    <3>1. SameHolder /\ (KeyAttended' => KeyAttended)
      BY <2>0, <2>2 DEF SameHolder, KeyAttended
    <3> QED BY <1>0, <2>0, <2>2, <3>1, HeldRevokes
  <2>3. CASE (EditedKey \/ MarkedKey) /\ remote' = remote
    <3>1. SameHolder /\ SameKeys /\ (KeyAttended' => KeyAttended) /\ key'.fin = key.fin
      BY <2>0, <2>3 DEF SameHolder, SameKeys, KeyAttended, EditedKey, MarkedKey, SameKey
    <3> QED BY <1>0, <2>0, <3>1, HeldSame
  <2>4. CASE /\ focus \in {"key", "import", "legacy"} /\ key.uid = 0 /\ UNCHANGED <<cluster, bucket, remote>>
             /\ key'.id = 0 /\ ~key'.fin
    <3>1. KeyAttended => \A k \in KeyId : ~Live(k)
      BY <2>4 DEF KeysHeld, GarageForm, Live
    <3>2. ~key.fin
      BY <1>0, <2>4, NoKeyIs DEF KeyObject
    <3>3. ~Live(Legacy) /\ SameKeys
      BY <2>4 DEF KeysHeld, SameKeys
    <3>4. focus = "lostKey" => key'.uid \in {0, key.uid}
      BY <2>4
    <3>5. \A k \in KeyId : (cluster.state = "Running" => ~Live(k))
      BY <3>1 DEF KeyAttended
    <3>6. KeyAttended' => cluster.state = "Running"
      BY <2>0, <2>4 DEF KeyAttended
    <3> HIDE DEF KeyAttended, Live
    <3> QED BY <1>0, <2>0, <2>4, <3>1, <3>3, <3>4, <3>5, <3>6, HeldNone
  <2>5. CASE ~key.fin /\ key' = NoKey /\ UNCHANGED <<cluster, bucket, remote>>
    <3>1. key'.id = 0 /\ key'.uid = 0 /\ ~key'.fin
      BY <2>5, NoKeyIs
    <3>2. KeyAttended' => KeyAttended
      BY <2>5, <3>1 DEF KeyAttended
    <3>3. focus # "lostKey" /\ KeyAttended => \A k \in KeyId : ~Live(k)
      BY <2>5 DEF KeysHeld
    <3>4. ~Live(Legacy)
      <4>1. focus = "legacy" => KeyAttended
        BY DEF Absent, KeyAttended
      <4> QED BY <3>3, <4>1, Constants DEF KeysHeld
    <3>5. SameKeys
      BY <2>5 DEF SameKeys
    <3> HIDE DEF KeyAttended, Live
    <3> QED BY <1>0, <2>0, <3>1, <3>2, <3>3, <3>4, <3>5, HeldNone
  <2>6. CASE \E r \in BOOLEAN : /\ CreatedKey(NextUID(remote.keyBy), IF focus = "import" THEN "ref" ELSE "none", r)
                                /\ focus \in {"key", "import", "legacy"} /\ key.uid = 0 /\ UNCHANGED <<cluster, bucket, remote>>
    BY <2>4, <2>6 DEF CreatedKey
  <2>7. remote' = remote => SameKeys
    BY DEF SameKeys
  <2> HIDE DEF NextUID
  <2>8. CASE key' = key
    BY <2>0, <2>1, <2>2, <2>8 DEF UserCalls, EditedKey
  <2> QED BY <2>0, <2>3, <2>5, <2>6, <2>8 DEF UserKey
<1> QED BY <1>1, <1>2, <1>3, <1>4, NextCases

\* The finalizer finds every key there is.
LEMMA FinalizerFinds ==
  ASSUME Base, KeyObject, KeysHeld, kw.pc = "finalize", focus # "lostKey", NEW k \in KeyId, Live(k)
  PROVE  IF key.imp = "none" /\ key.id = 0 THEN k \in DeterministicIDs ELSE k \in RecordedIDs
<1>1. kw.obj = key /\ key.fin /\ k # 0
  BY Constants DEF KeyObject
<1>2. KeyTracked(k)
  BY <1>1 DEF KeysHeld, KeyAttended
<1>3. CASE key.imp = "none" /\ key.id = 0
  BY <1>1, <1>2, <1>3 DEF KeyTracked, DeterministicIDs, IsKey, Live
<1>4. CASE key.imp = "ref"
  BY <1>1, <1>2, <1>4 DEF KeyTracked, RecordedIDs
<1>5. CASE key.imp # "ref" /\ key.id # 0
  BY <1>1, <1>2, <1>5 DEF KeyTracked, RecordedIDs
<1>6. key.imp \in {"none", "ref"}
  BY KeyReads DEF Base, Keys
<1> QED BY <1>3, <1>4, <1>5, <1>6

\* A worker that has learned a key of the object holds it.
LEMMA HandLearns ==
  ASSUME Objects, KeyAtHand, focus' = focus, kw.pc \in {"resolve", "pin", "import"}, key' = key, NEW id \in KeyId, Learned(id),
         remote'.keyBy[id] = key.uid, remote'.key[id] = "live",
         \A k \in KeyId : Live(k) => Live(k)'
  PROVE  KeyAtHand'
<1>1. kw.obj.id = key.id /\ kw.pc \in KWorking /\ key.id \in KeyIds
  BY KeyReads DEF Objects, Base, Keys, KeyObject, SameKey, KWorking
<1>2. focus # "lostKey" /\ key.id # 0 => Live(key.id) /\ key.id \in KeyId
  BY <1>1 DEF KeyAtHand, KeyIds
<1>3. Live(id)'
  BY DEF Live
<1>4. kw'.pc \in {"perms", "bind"} /\ (kw'.pc = "perms" => id = key.id) /\ kw'.id = id
  BY <1>1 DEF Learned
<1> HIDE DEF Live
<1> QED BY <1>2, <1>3, <1>4 DEF KeyAtHand, KHolding

LEMMA HandStart == ASSUME Objects, KeyAtHand, StartKey, focus' = focus PROVE KeyAtHand'
<1>0. /\ Base /\ kw.pc = "idle" /\ UNCHANGED <<secrets, snapshot, remote>>
  BY StartKeyFlat DEF Objects
<1>1. \A k : Live(k)' <=> Live(k)
  BY <1>0 DEF Live
<1>2. CASE key' = NoKey /\ kw' = kw
  BY <1>0, <1>2, NoKeyIs DEF KeyAtHand, KHolding
<1>3. CASE key' = key /\ kw'.pc = "finalize"
  <2> HIDE DEF Live
  <2> QED BY <1>0, <1>1, <1>3 DEF KeyAtHand, KHolding, KWorking
<1>4. CASE key'.id = key.id /\ kw' = kw /\ key'.del = key.del
  <2> HIDE DEF Live
  <2> QED BY <1>0, <1>1, <1>4 DEF KeyAtHand, KHolding, KWorking
<1>5. CASE ~key.del /\ key' = key /\ kw'.pc = "resolve"
  <2> HIDE DEF Live
  <2> QED BY <1>0, <1>1, <1>5 DEF KeyAtHand, KHolding, KWorking
<1> QED BY <1>0, <1>2, <1>3, <1>4, <1>5, StartKeyFlat DEF KIds

LEMMA HandStep ==
  ASSUME Objects, GarageForm, KeysHeld, KeyAtHand, KeyNext \/ KeyFault, kw.pc # "idle", ~CollectKeySecrets
  PROVE  KeyAtHand'
<1>0. /\ Base /\ KeyObject /\ SnapshotKnown /\ key.fin /\ key.uid # 0 /\ kw.obj.id = key.id
      /\ focus' = focus /\ KWrites /\ KKept /\ KRemote /\ KMoves
      /\ key.id \in KeyIds /\ (kw.pc \in KHolding => kw.id \in KeyId /\ kw.id # 0)
  BY KeyFrame, KWritesStep, KKeptStep, KRemoteStep, KMovesStep, KeyReads, KeyHeld, Constants DEF Objects, Base, Keys, KeyObject, SameKey
<1>1. \A k \in KeyId : Live(k) => remote.keyBy[k] = key.uid
  BY <1>0 DEF KeysHeld, KeyAttended
<1>2. key.id # 0 => remote.keyBy[key.id] = key.uid /\ key.id \in KeyId
  BY <1>0 DEF KeysHeld, KeyIds
\* Where the reconcile ends, or what it holds is not in question.
<1>3. ASSUME kw'.pc \in {"idle", "mark"}, SameKeys, key'.id = key.id, key'.del = key.del, kw'.pc = "mark" => key'.id # 0,
             kw.pc = "finalize" => kw'.pc = "idle", kw.pc = "revoke" => kw'.pc = "idle"
      PROVE  KeyAtHand'
  <2>1. \A k : Live(k)' <=> Live(k)
    BY <1>3 DEF Live, SameKeys
  <2>2. kw'.pc = "mark" => kw.pc \in KWorking
    BY <1>0, <1>3 DEF KMoves, Early, KWorking, KHolding
  <2> HIDE DEF Live
  <2> QED BY <1>0, <1>3, <2>1, <2>2 DEF KeyAtHand, KHolding, KWorking
<1>4. kw.pc \in Early \ {"apply"} /\ kw'.pc = "mark" => key'.id # 0
  BY <1>0 DEF KWrites
<1>5. remote' = remote => SameKeys
  BY DEF SameKeys
<1>6. kw.pc \notin {"idle", "revoke"} => key'.del = key.del
  BY <1>0 DEF KKept, KSpec
<1>7. SameKeys => \A k \in KeyId : Live(k) => Live(k)'
  BY DEF SameKeys, Live
<1>8. ASSUME NEW i, Imports(i) PROVE \A k \in KeyId : Live(k) => Live(k)'
  BY <1>8 DEF Imports, Live
<1>a. CASE kw.pc = "resolve"
  <2>1. CASE KStopped /\ key'.id = key.id
    BY <1>3, <1>4, <1>5, <1>6, <1>a, <2>1 DEF KStopped, Early
  <2>2. CASE key' = key /\ kw'.pc = "pin" /\ remote' = remote
    BY <1>0, <1>a, <2>2 DEF KeyAtHand, KHolding, KWorking, Live
  <2>3. CASE key' = key /\ SameKeys /\ IsKey(key.id) /\ Learned(key.id)
    <3>1. key.id \in KeyId /\ remote'.keyBy[key.id] = key.uid /\ remote'.key[key.id] = "live"
      BY <1>2, <2>3 DEF IsKey, SameKeys
    <3> QED BY <1>0, <1>7, <1>a, <2>3, <3>1, HandLearns
  <2>4. CASE key' = key /\ SameKeys /\ AdoptsLegacy /\ Learned(Legacy)
    <3>1. Legacy \in KeyId /\ remote'.keyBy[Legacy] = key.uid /\ remote'.key[Legacy] = "live"
      BY <1>1, <2>4, Constants DEF AdoptsLegacy, IsKey, SameKeys, Live
    <3> QED BY <1>0, <1>7, <1>a, <2>4, <3>1, HandLearns
  <2>5. CASE key' = key /\ Learned(Derived(key.nonce)) /\ Imports(Derived(key.nonce))
    <3>1. Derived(key.nonce) \in KeyId /\ remote'.keyBy[Derived(key.nonce)] = key.uid /\ remote'.key[Derived(key.nonce)] = "live"
      BY <2>5 DEF Imports
    <3> HIDE DEF Derived
    <3> QED BY <1>0, <1>8, <1>a, <2>5, <3>1, HandLearns
  <2>6. CASE key' = key /\ Learned(Derived(key.nonce)) /\ SameKeys /\ remote.key[Derived(key.nonce)] = "live"
    <3>1. Derived(key.nonce) \in KeyId
      BY <1>0, KeyReads, Constants DEF Base, Keys
    <3>2. remote'.keyBy[Derived(key.nonce)] = key.uid /\ remote'.key[Derived(key.nonce)] = "live"
      BY <1>1, <2>6, <3>1 DEF SameKeys, Live
    <3> HIDE DEF Derived
    <3> QED BY <1>0, <1>7, <1>a, <2>6, <3>1, <3>2, HandLearns
  <2> QED BY <1>0, <1>a, <2>1, <2>2, <2>3, <2>4, <2>5, <2>6 DEF KWrites
<1>b. CASE kw.pc = "pin"
  <2>1. CASE KStopped /\ key'.id = key.id
    BY <1>3, <1>4, <1>5, <1>6, <1>b, <2>1 DEF KStopped, Early
  <2>2. CASE kw'.pc = "import" /\ key'.id = key.id /\ remote' = remote
    BY <1>0, <1>6, <1>b, <2>2 DEF KeyAtHand, KHolding, KWorking, Live
  <2>3. CASE key' = key /\ SameKeys /\ IsKey(snapshot.id) /\ Learned(snapshot.id)
    <3>1. snapshot.id \in KeyId
      BY <1>0, <2>3, KeyReads DEF Base, IsKey, KeyIds
    <3>2. remote'.keyBy[snapshot.id] = key.uid /\ remote'.key[snapshot.id] = "live"
      BY <1>1, <2>3, <3>1 DEF IsKey, SameKeys, Live
    <3> QED BY <1>0, <1>7, <1>b, <2>3, <3>1, <3>2, HandLearns
  <2> QED BY <1>0, <1>b, <2>1, <2>2, <2>3 DEF KWrites
<1>c. CASE kw.pc = "import"
  <2>1. CASE KStopped /\ key'.id = key.id
    BY <1>3, <1>4, <1>5, <1>6, <1>c, <2>1 DEF KStopped, Early
  <2>2. CASE key' = key /\ Imports(snapshot.id) /\ Learned(snapshot.id)
    <3>1. snapshot.id \in KeyId /\ remote'.keyBy[snapshot.id] = key.uid /\ remote'.key[snapshot.id] = "live"
      BY <2>2 DEF Imports
    <3> QED BY <1>0, <1>8, <1>c, <2>2, <3>1, HandLearns
  <2> QED BY <1>0, <1>c, <2>1, <2>2 DEF KWrites
<1>d. CASE kw.pc = "bind"
  <2>1. CASE KStopped /\ key'.id = key.id
    BY <1>3, <1>4, <1>5, <1>6, <1>d, <2>1 DEF KStopped, Early
  <2>2. CASE kw'.pc = "perms" /\ key'.id = kw.id /\ remote' = remote
    <3>1. kw'.id = kw.id /\ key'.uid = key.uid
      BY <1>0, <1>d, <2>2 DEF KKept, KSpec
    <3>2. remote.keyBy[kw.id] = key.uid /\ (focus # "lostKey" => Live(kw.id))
      BY <1>d DEF KeyAtHand, KHolding
    <3> QED BY <1>0, <2>2, <3>1, <3>2 DEF KeyAtHand, KHolding, Live
  <2> QED BY <1>0, <1>d, <2>1, <2>2 DEF KWrites
<1>e. CASE kw.pc \in {"perms", "union", "apply"}
  <2>0. key'.id = key.id /\ SameKeys /\ kw.id = key.id /\ key'.uid = key.uid
    BY <1>0, <1>e DEF KKept, KSpec, KRemote, SameKeys, KeyAtHand, KHolding
  <2>1. CASE kw'.pc \in {"idle", "mark"}
    BY <1>0, <1>3, <1>6, <1>e, <2>0, <2>1 DEF KHolding
  <2>2. CASE kw'.pc \in {"perms", "union", "apply"}
    <3>1. kw'.id = kw.id
      BY <1>0, <1>e, <2>2 DEF KKept
    <3>2. remote.keyBy[kw.id] = key.uid /\ (focus # "lostKey" => Live(kw.id))
      BY <1>e DEF KeyAtHand, KHolding
    <3>3. \A k : Live(k)' <=> Live(k)
      BY <2>0 DEF Live, SameKeys
    <3> HIDE DEF Live
    <3> QED BY <1>0, <2>0, <2>2, <3>1, <3>2, <3>3 DEF KeyAtHand, KHolding, SameKeys
  <2> QED BY <1>0, <1>e, <2>1, <2>2 DEF KMoves, Early
<1>f. CASE kw.pc \in {"mark", "publish", "handoff", "sweep", "status"}
  <2>0. SameKeys /\ key'.del = key.del /\ kw.pc \in KWorking /\ kw.pc \notin KHolding
    BY <1>0, <1>f DEF KKept, KSpec, KRemote, SameKeys, KWorking, KHolding
  <2>1. \A k : Live(k)' <=> Live(k)
    BY <2>0 DEF Live, SameKeys
  <2>2. kw'.pc \in {"idle", "mark", "publish", "handoff", "sweep", "status"}
    BY <1>0, <1>f DEF KMoves, Early
  <2>3. key'.id = key.id \/ (key'.id = 0 /\ kw'.pc = "idle")
    BY <1>0, <1>f DEF KWrites, KKept
  <2> HIDE DEF Live
  <2> QED BY <1>0, <1>f, <2>0, <2>1, <2>2, <2>3 DEF KeyAtHand, KHolding, KWorking
<1>g. CASE kw.pc = "finalize"
  <2>0. SameKeys /\ key'.id = key.id /\ key'.del = key.del
    BY <1>0, <1>g DEF KKept, KSpec, KRemote, SameKeys
  <2>1. CASE kw'.pc = "idle"
    BY <1>3, <1>g, <2>0, <2>1
  <2>2. CASE /\ kw'.pc = "revoke" /\ key' = key
             /\ \/ key.imp = "none" /\ key.id = 0 /\ kw'.tgt = DeterministicIDs
                \/ ~(key.imp = "none" /\ key.id = 0) /\ kw'.tgt = RecordedIDs
    <3>1. focus # "lostKey" => \A k \in KeyId : Live(k) => k \in kw'.tgt
      BY <1>0, <1>g, <2>2, FinalizerFinds
    <3>2. \A k : Live(k)' <=> Live(k)
      BY <2>0 DEF Live, SameKeys
    <3> HIDE DEF Live
    <3> QED BY <1>0, <1>g, <2>0, <2>2, <3>1, <3>2 DEF KeyAtHand, KHolding, KWorking
  <2> QED BY <1>0, <1>g, <2>1, <2>2 DEF KWrites
<1>h. CASE kw.pc = "revoke"
  <2>0. key.del
    BY <1>0, <1>h DEF KeyObject
  <2>1. CASE kw'.pc = "idle" /\ remote' = remote /\ KSame(key', key)
    BY <1>3, <1>5, <1>h, <2>1 DEF KSame, KSpec, KIds
  <2>2. CASE kw'.pc = "idle" /\ key' = NoKey
    BY <2>2, NoKeyIs DEF KeyAtHand, KHolding
  <2>3. CASE key' = key /\ kw'.pc = "revoke" /\ \E i \in kw.tgt : Revokes(i) /\ kw'.tgt = kw.tgt \ {i}
    <3>1. focus # "lostKey" => \A k \in KeyId : Live(k)' => k \in kw'.tgt
      BY <1>h, <2>3 DEF KeyAtHand, Revokes, Live
    <3> QED BY <1>0, <2>0, <2>3, <3>1 DEF KeyAtHand, KHolding, KWorking
  <2> QED BY <1>0, <1>h, <2>1, <2>2, <2>3 DEF KWrites
<1>i. kw.pc \in KPoints
  BY <1>0 DEF Base, Typed, KWorkers
<1> QED BY <1>a, <1>b, <1>c, <1>d, <1>e, <1>f, <1>g, <1>h, <1>i DEF KPoints, KWorking, KHolding

LEMMA KeyAtHandNext == ASSUME Objects, GarageForm, KeysHeld, KeyAtHand, Next PROVE KeyAtHand'
<1>0. Base /\ BucketObject /\ KeyObject /\ SnapshotKnown
  BY DEF Objects
<1>s. ASSUME kw' = kw, SameKeys, focus' = focus, key'.uid = key.uid, key'.id = key.id, key.del => key'.del PROVE KeyAtHand'
  <2>1. \A k : Live(k)' <=> Live(k)
    BY <1>s DEF Live, SameKeys
  <2> HIDE DEF Live
  <2> QED BY <1>s, <2>1 DEF KeyAtHand, SameKeys
<1>1. CASE BucketNext \/ BucketFault
  <2>1. UNCHANGED <<focus, key, kw>> /\ SameKeys
    BY <1>0, <1>1, BucketFrame, BRemoteStep DEF BRemote, SameKeys
  <2> QED BY <1>s, <2>1
<1>2. CASE KeyNext \/ KeyFault
  <2>0. focus' = focus
    BY <1>2, KeyFrame
  <2>1. CASE CollectKeySecrets
    <3>1. UNCHANGED <<key, remote, kw>> /\ SameKeys
      BY <1>0, <2>1, CollectFlat DEF SameKeys
    <3> QED BY <1>s, <2>0, <3>1
  <2>2. CASE kw.pc = "idle" /\ ~CollectKeySecrets
    <3>1. StartKey
      BY <1>2, <2>2, KeyActs DEF KeyFault, K
    <3> QED BY <2>0, <3>1, HandStart
  <2>3. CASE kw.pc # "idle" /\ ~CollectKeySecrets
    BY <1>2, <2>3, HandStep
  <2> QED BY <2>1, <2>2, <2>3
<1>3. CASE TokenNext \/ TokenFault \/ ReconcileGrant
  <2>1. SameKeys /\ UNCHANGED <<focus, key, kw>>
    BY <1>3, QuietFrame DEF SameKeys
  <2> QED BY <1>s, <2>1
<1>4. CASE UserNext
  <2>0. UNCHANGED <<focus, kw>> /\ UserCalls /\ UserKey
    BY <1>0, <1>4, UserFrame, UserCallsStep, UserKeyFlat
  <2>1. CASE key' = key /\ SameKeys
    BY <1>s, <2>0, <2>1
  <2>2. CASE key' = key /\ Revokes(key.id) /\ focus = "lostKey"
    BY <2>0, <2>2 DEF KeyAtHand, Revokes
  <2>3. CASE (EditedKey \/ MarkedKey) /\ remote' = remote
    <3>1. SameKeys /\ key'.uid = key.uid /\ key'.id = key.id /\ (key.del => key'.del)
      BY <2>3 DEF SameKeys, EditedKey, MarkedKey, SameKey
    <3> QED BY <1>s, <2>0, <3>1
  <2>4. CASE key'.id = 0 /\ kw.pc = "idle"
    BY <2>0, <2>4 DEF KeyAtHand, KHolding
  <2>5. ~key.fin \/ key.uid = 0 => kw.pc = "idle"
    BY <1>0 DEF KeyObject
  <2>6. CASE key' = key
    BY <2>0, <2>1, <2>2, <2>6 DEF UserCalls
  <2>7. CASE \E r \in BOOLEAN : key.uid = 0 /\ CreatedKey(NextUID(remote.keyBy), IF focus = "import" THEN "ref" ELSE "none", r)
    BY <2>4, <2>5, <2>7 DEF CreatedKey
  <2>8. CASE ~key.fin /\ key' = NoKey
    BY <2>4, <2>5, <2>8, NoKeyIs
  <2> HIDE DEF NextUID
  <2> QED BY <2>0, <2>3, <2>6, <2>7, <2>8 DEF UserKey
<1> QED BY <1>1, <1>2, <1>3, <1>4, NextCases

-----------------------------------------------------------------------------
(* Credentials.                                                            *)

\* The next incarnation is one that Garage has not seen.
LEMMA NextUIDIs ==
  ASSUME Base, NEW n \in 0..MaxUID, Used = 1..n
  PROVE  NextUID(remote.keyBy) = n + 1
<1>1. DOMAIN remote.keyBy = KeyId
  BY KeyReads DEF Base, Garages
<1>2. {u \in 1..MaxUID : \E i \in DOMAIN remote.keyBy : remote.keyBy[i] = u} = 1..n
  BY <1>1 DEF Used
<1>3. n \in Int /\ n \in Nat
  BY Constants
<1>4. Cardinality(1..n) = n
  BY <1>3, FS_Interval
<1>5. NextUID(remote.keyBy) = 1 + Cardinality(1..n)
  BY <1>2 DEF NextUID
<1> QED BY <1>3, <1>4, <1>5

LEMMA CredentialsSame ==
  ASSUME Credentials, secrets' = secrets, remote'.keyBy = remote.keyBy, key'.uid = key.uid, key'.sref = key.sref,
         kw'.pc \in {"publish", "handoff"} => kw' = kw
  PROVE  Credentials'
<1>1. Used' = Used
  BY DEF Used
<1> QED BY <1>1 DEF Credentials, CredentialIsTracked

\* An object that is not there has no credential.
LEMMA CredentialsNone ==
  ASSUME Base, Credentials, secrets' = secrets, remote'.keyBy = remote.keyBy, kw'.pc = "idle",
         key'.uid = 0 \/ \E n \in 0..MaxUID : Used = 1..n /\ key'.uid = n + 1
  PROVE  Credentials'
<1>1. Used' = Used
  BY DEF Used
<1>2. CASE key'.uid = 0
  <2>1. \E n \in 0..MaxUID : Used' = 1..n /\ key'.uid <= n + 1
    <3>1. PICK n \in 0..MaxUID : Used = 1..n
      BY DEF Credentials
    <3>2. 0 <= n + 1
      BY Constants
    <3> QED BY <1>1, <1>2, <3>1, <3>2
  <2> QED BY <1>2, <2>1 DEF Credentials, CredentialIsTracked
<1>3. CASE key'.uid # 0
  <2>1. PICK n \in 0..MaxUID : Used = 1..n /\ key'.uid = n + 1
    BY <1>3
  <2>2. n + 1 \notin Used
    BY <2>1, Constants
  <2>3. ASSUME NEW s \in SecretName, secrets[s].by = n + 1 PROVE FALSE
    <3>1. n \in Nat /\ n + 1 # 0 /\ n + 1 \in 0..MaxUID
      BY <2>3, Constants, KeyReads DEF Base, Secrets, UID
    <3>2. PICK k \in KeyId : remote.keyBy[k] = n + 1
      BY <2>3, <3>1 DEF Credentials
    <3>3. n + 1 \notin 1..MaxUID
      BY <2>2, <3>2 DEF Used
    <3> QED BY <3>1, <3>3, Constants
  <2> QED BY <1>1, <2>1, <2>3 DEF Credentials, CredentialIsTracked
<1> QED BY <1>2, <1>3

LEMMA CredentialsImport ==
  ASSUME Base, Credentials, key.uid # 0, secrets' = secrets, key' = key, NEW i, Imports(i), remote.keyBy[i] = 0,
         kw'.pc \notin {"publish", "handoff"}
  PROVE  Credentials'
<1>1. i \in KeyId /\ \A k \in KeyId : remote'.keyBy[k] = IF k = i THEN key.uid ELSE remote.keyBy[k]
  BY DEF Imports
<1>2. key.uid \in 1..MaxUID
  BY Constants, KeyReads DEF Base, Keys, UID
<1>3. Used' = Used \cup {key.uid}
  BY <1>1, <1>2 DEF Used
<1>4. PICK n \in 0..MaxUID : Used = 1..n /\ key.uid <= n + 1
  BY DEF Credentials
<1>5. \E m \in 0..MaxUID : Used' = 1..m /\ key'.uid <= m + 1
  <2>1. CASE key.uid <= n
    <3>1. Used' = 1..n
      BY <1>2, <1>3, <1>4, <2>1, Constants
    <3> QED BY <1>4, <3>1
  <2>2. CASE key.uid = n + 1
    <3>1. Used' = 1..key.uid /\ key.uid \in 0..MaxUID /\ key.uid <= key.uid + 1
      BY <1>2, <1>3, <1>4, <2>2, Constants
    <3> QED BY <3>1
  <2> QED BY <1>2, <1>4, <2>1, <2>2, Constants
<1>6. \A s \in SecretName : secrets'[s].by # 0 => \E k \in KeyId : remote'.keyBy[k] = secrets'[s].by
  BY <1>1 DEF Credentials
<1> QED BY <1>5, <1>6 DEF Credentials, CredentialIsTracked

\* Where the Secrets are written.
LEMMA CredentialsWritten ==
  ASSUME Objects, Credentials, KeysHeld, KeyAtHand, KeyNext, kw.pc \in {"mark", "publish", "handoff", "sweep"}, ~CollectKeySecrets
  PROVE  Credentials'
<1>0. /\ Base /\ KeyObject /\ key.uid # 0 /\ kw.obj.uid = key.uid /\ (kw.pc # "handoff" => kw.obj.sref = key.sref)
      /\ KRemote /\ KKept /\ secrets \in Secrets
  BY KRemoteStep, KKeptStep, KeyReads DEF Objects, KeyObject, SameKey, Base
<1>1. remote'.keyBy = remote.keyBy /\ Used' = Used /\ key'.uid = key.uid
  BY <1>0 DEF KRemote, KKept, KSpec, Used
<1>2. \E n \in 0..MaxUID : Used' = 1..n /\ key'.uid <= n + 1
  BY <1>1 DEF Credentials
<1>3. ASSUME KEnded, KSame(key', key), secrets' = secrets PROVE Credentials'
  BY <1>1, <1>3, CredentialsSame DEF KEnded, KSame, KSpec
<1>a. CASE kw.pc = "mark"
  <2>0. MarkPreviousGeneratedSecret
    BY <1>a, KeyActs
  <2>1. CASE KEnded /\ KSame(key', key) /\ secrets' = secrets
    BY <1>3, <2>1
  <2>2. CASE /\ KWent("publish")
             /\ secrets' = IF kw.obj.sref # NoAlias /\ secrets[kw.obj.sref].by = kw.obj.uid
                           THEN [secrets EXCEPT ![kw.obj.sref].label = kw.obj.uid] ELSE secrets
    <3>1. \A s \in SecretName : secrets'[s].by = secrets[s].by
      BY <1>0, <2>2 DEF Secrets
    <3>2. \A s \in SecretName : secrets[s].by = key.uid => secrets'[s].label = key.uid
      <4>1. \A s \in SecretName : s # NoAlias
        BY DEF SecretName, NoAlias
      <4> QED BY <1>0, <1>a, <2>2, <4>1 DEF Secrets, Credentials, CredentialIsTracked
    <3> QED BY <1>1, <1>2, <3>1, <3>2 DEF Credentials, CredentialIsTracked
  <2> QED BY <1>0, <2>0, <2>1, <2>2, MarkFlat
<1>b. CASE kw.pc = "publish"
  <2>0. PublishSecret
    BY <1>b, KeyActs
  <2>1. CASE KEnded /\ KSame(key', key) /\ secrets' = secrets
    BY <1>3, <2>1
  <2>2. CASE /\ kw.obj.sec \in SecretName /\ \A s \in SecretName : s # kw.obj.sec => secrets'[s] = secrets[s]
             /\ secrets'[kw.obj.sec].by = kw.obj.uid /\ secrets'[kw.obj.sec].label = kw.obj.uid
    <3>1. key.id \in KeyId /\ remote.keyBy[key.id] = key.uid
      BY <1>0, <1>b, KeyReads DEF KeyAtHand, KeysHeld, Base, Keys, KeyIds
    <3>2. \A s \in SecretName : secrets'[s].by = key.uid => secrets'[s].label = key.uid
      BY <1>0, <1>b, <2>2 DEF Credentials
    <3>3. \A s \in SecretName : secrets'[s].by # 0 => \E k \in KeyId : remote'.keyBy[k] = secrets'[s].by
      BY <1>0, <1>1, <2>2, <3>1 DEF Credentials
    <3> QED BY <1>1, <1>2, <3>2, <3>3 DEF Credentials, CredentialIsTracked
  <2> QED BY <1>0, <2>0, <2>1, <2>2, PublishFlat
<1>c. CASE kw.pc = "handoff"
  <2>0. secrets' = secrets /\ kw'.pc = "sweep"
    BY <1>0, <1>c, KeyActs, HandoffFlat
  <2> QED BY <1>1, <1>2, <1>c, <2>0 DEF Credentials, CredentialIsTracked
<1>d. CASE kw.pc = "sweep"
  <2>0. /\ (KEnded /\ KSame(key', key)) \/ KWent("status")
        /\ \A s \in SecretName : secrets'[s] = IF s # kw.obj.sref /\ secrets[s].label = kw.obj.uid /\ secrets[s].by = kw.obj.uid
                                                THEN NoSecret ELSE secrets[s]
    BY <1>0, <1>d, KeyActs, SweepFlat
  <2>1. key'.sref = key.sref /\ kw'.pc \in {"idle", "status"}
    BY <2>0 DEF KEnded, KSame, KWent
  <2>2. \A s \in SecretName : secrets'[s].by = 0 \/ secrets'[s] = secrets[s]
    BY <2>0 DEF NoSecret
  <2> QED BY <1>0, <1>1, <1>2, <2>1, <2>2 DEF Credentials, CredentialIsTracked
<1> QED BY <1>a, <1>b, <1>c, <1>d

LEMMA CredentialsNext ==
  ASSUME Objects, GarageForm, KeysHeld, KeyAtHand, Credentials, Next
  PROVE  Credentials'
<1>0. Base /\ BucketObject /\ KeyObject /\ SnapshotKnown
  BY DEF Objects
<1>1. CASE BucketNext \/ BucketFault
  <2>1. UNCHANGED <<key, kw, secrets>> /\ remote'.keyBy = remote.keyBy
    BY <1>0, <1>1, BucketFrame, BRemoteStep DEF BRemote
  <2> QED BY <2>1, CredentialsSame
<1>2. CASE KeyNext \/ KeyFault
  <2>0. KRemote /\ KKept /\ KMoves
    BY <1>0, <1>2, KRemoteStep, KKeptStep, KMovesStep
  <2>1. CASE CollectKeySecrets
    <3>1. UNCHANGED <<key, remote, kw>> /\ Used' = Used
      BY <1>0, <2>1, CollectFlat DEF Used
    <3>2. CASE secrets' = secrets
      BY <3>1, <3>2, CredentialsSame
    <3>3. CASE \E s \in SecretName : secrets[s].by \notin {0, key.uid}
                    /\ \A t \in SecretName : secrets'[t] = IF t = s THEN NoSecret ELSE secrets[t]
      <4>1. \A t \in SecretName : secrets'[t].by = 0 \/ secrets'[t] = secrets[t]
        BY <3>3 DEF NoSecret
      <4>2. kw.pc \in {"publish", "handoff"} => key.uid # 0
        BY <1>0 DEF KeyObject
      <4> QED BY <3>1, <4>1, <4>2 DEF Credentials, CredentialIsTracked
    <3> QED BY <1>0, <2>1, <3>2, <3>3, CollectFlat
  <2>2. CASE kw.pc = "idle" /\ ~CollectKeySecrets
    <3>1. StartKey
      BY <1>2, <2>2, KeyActs DEF KeyFault, K
    <3>2. secrets' = secrets /\ remote' = remote
      BY <1>0, <3>1, StartKeyFlat
    <3>3. CASE key' = NoKey /\ kw' = kw
      BY <1>0, <2>2, <3>2, <3>3, NoKeyIs, CredentialsNone
    <3>4. CASE key'.uid = key.uid /\ key'.sref = key.sref /\ (kw' = kw \/ kw'.pc \in {"finalize", "resolve"})
      BY <3>2, <3>4, CredentialsSame
    <3> QED BY <1>0, <3>1, <3>3, <3>4, StartKeyFlat
  <2>3. CASE kw.pc \in {"mark", "publish", "handoff", "sweep"} /\ KeyNext /\ ~CollectKeySecrets
    BY <2>3, CredentialsWritten
  <2>4. CASE kw.pc # "idle" /\ ~CollectKeySecrets /\ ~(kw.pc \in {"mark", "publish", "handoff", "sweep"} /\ KeyNext)
    <3>0. KWrites /\ key.uid # 0
      BY <1>0, <1>2, <2>4, KWritesStep DEF KeyObject
    <3>1. secrets' = secrets
      <4>1. CASE KeyFault
        BY <1>0, <4>1, KeyFaultFlat
      <4>2. CASE KeyNext
        <5>1. kw.pc \notin {"mark", "publish", "handoff", "sweep"}
          BY <2>4, <4>2
        <5>2. CASE kw.pc \in {"resolve", "pin", "import", "bind"}
          BY <1>0, <2>4, <4>2, <5>2, KeyActs, TrackedFlat, SnapshotFlat, AdoptFlat, PinFlat, ImportFlat, PersistKeyFlat
        <5>3. CASE kw.pc \in {"perms", "union", "apply"}
          BY <1>0, <2>4, <4>2, <5>3, KeyActs, ReserveKeyFlat, UnionKeyFlat, ApplyKeyFlat, NarrowKeyFlat
        <5>4. CASE kw.pc \in {"status", "finalize", "revoke"}
          BY <1>0, <2>4, <4>2, <5>4, KeyActs, KeyStatusFlat, FinalizeKeyFlat, RevokeFlat, DropKeyFlat
        <5>5. kw.pc \in KPoints
          BY <1>0 DEF Base, Typed, KWorkers
        <5> QED BY <2>4, <5>1, <5>2, <5>3, <5>4, <5>5 DEF KPoints, KWorking, KHolding
      <4> QED BY <1>2, <4>1, <4>2
    <3>2. kw'.pc \notin {"publish", "handoff"}
      <4>1. CASE KeyFault
        BY <1>0, <4>1, KeyFaultFlat DEF KEnded, KErred
      <4>2. CASE kw.pc \notin {"mark", "publish", "handoff", "sweep"}
        BY <2>0, <2>4, <4>2 DEF KMoves, Early
      <4> QED BY <1>2, <2>4, <4>1, <4>2
    <3>3. CASE kw.pc \notin {"revoke", "handoff"} /\ remote'.keyBy = remote.keyBy
      BY <2>0, <2>4, <3>1, <3>2, <3>3, CredentialsSame DEF KKept, KSpec
    <3>4. CASE kw.pc = "handoff"
      <4>1. KSame(key', key) /\ remote' = remote
        BY <1>0, <1>2, <2>4, <3>4, KeyFaultFlat
      <4> QED BY <3>1, <3>2, <4>1, CredentialsSame DEF KSame, KSpec
    <3>5. CASE kw.pc = "revoke"
      <4>1. CASE key' = NoKey /\ remote' = remote /\ kw'.pc = "idle"
        BY <1>0, <3>1, <4>1, NoKeyIs, CredentialsNone
      <4>2. CASE (key' = key \/ KSame(key', key)) /\ remote'.keyBy = remote.keyBy
        BY <3>1, <3>2, <4>2, CredentialsSame DEF KSame, KSpec
      <4> QED BY <3>0, <3>5, <4>1, <4>2 DEF KWrites, Revokes
    <3>6. CASE kw.pc \in {"resolve", "import"} /\ remote'.keyBy # remote.keyBy
      <4>1. PICK i : key' = key /\ Imports(i)
        BY <3>0, <3>6 DEF KWrites, KStopped, SameKeys
      <4>2. remote.keyBy[i] = 0
        BY <4>1 DEF Imports, GarageForm
      <4> QED BY <1>0, <3>0, <3>1, <3>2, <4>1, <4>2, CredentialsImport
    <3>7. kw.pc \notin {"resolve", "import", "revoke"} => remote'.keyBy = remote.keyBy
      BY <2>0 DEF KRemote
    <3> QED BY <3>3, <3>4, <3>5, <3>6, <3>7
  <2> QED BY <2>1, <2>2, <2>3, <2>4
<1>3. CASE TokenNext \/ TokenFault \/ ReconcileGrant
  BY <1>3, QuietFrame, CredentialsSame
<1>4. CASE UserNext
  <2>0. UNCHANGED <<secrets, kw>> /\ remote'.keyBy = remote.keyBy /\ UserKey
    BY <1>0, <1>4, UserFrame, UserCallsStep, UserKeyFlat DEF UserCalls, SameKeys, Revokes
  <2>1. CASE key'.uid = key.uid /\ key'.sref = key.sref
    BY <2>0, <2>1, CredentialsSame
  <2>2. CASE key' = NoKey /\ kw.pc = "idle"
    BY <1>0, <2>0, <2>2, CredentialsNone, NoKeyIs
  <2>3. CASE key.uid = 0 /\ NextUID(remote.keyBy) <= MaxUID /\ key'.uid = NextUID(remote.keyBy)
    <3>1. PICK n \in 0..MaxUID : Used = 1..n
      BY DEF Credentials
    <3>2. key'.uid = n + 1 /\ kw'.pc = "idle"
      BY <1>0, <2>0, <2>3, <3>1, NextUIDIs DEF KeyObject
    <3> QED BY <1>0, <2>0, <3>1, <3>2, CredentialsNone
  <2>4. ~key.fin => kw.pc = "idle"
    BY <1>0 DEF KeyObject
  <2> HIDE DEF NextUID
  <2> QED BY <2>0, <2>1, <2>2, <2>3, <2>4 DEF UserKey, EditedKey, MarkedKey, CreatedKey
<1> QED BY <1>1, <1>2, <1>3, <1>4, NextCases

LEMMA FirstKeys == ASSUME Init PROVE KeysHeld /\ KeyAtHand /\ SnapshotDrawn /\ Credentials
<1>0. Legacy \in KeyId /\ Derived(0) \in KeyId /\ Derived(0) # 0 /\ Derived(0) # Legacy /\ MaxUID >= 1 /\ MaxUID \in Nat
  BY Constants DEF Derived, Legacy
<1>1. kw.pc = "idle" /\ snapshot.by = 0 /\ ~(HasKey /\ Upgraded) /\ (Upgraded <=> focus = "legacy")
  BY FirstWorkers DEF HasKey, Upgraded
<1>2. \A k \in KeyId : Live(k) <=> (k = Derived(0) /\ HasKey) \/ (k = Legacy /\ Upgraded)
  BY FirstGarage DEF Live
<1>3. \A k \in KeyId : remote.keyBy[k] = (IF (k = Derived(0) /\ HasKey) \/ (k = Legacy /\ Upgraded) THEN 1 ELSE 0)
  BY FirstGarage
<1>4. /\ HasKey => key.uid = 1 /\ key.fin /\ key.imp = "none" /\ key.id = Derived(0) /\ key.sref = "s1"
      /\ Upgraded => key.uid = 1 /\ key.fin /\ key.imp = "none" /\ key.id = 0 /\ key.renamed /\ key.nonce = 0
      /\ ~HasKey /\ ~Upgraded => key.uid = 0 /\ key.id = 0 /\ ~key.fin
  BY <1>1, FirstFields, BoundKeyIs, LegacyKeyIs, NoKeyIs
<1>5. focus = "lostKey" => HasKey
  BY DEF HasKey
<1>6. KeysHeld
  <2>1. \A k \in KeyId : Live(k) => KeyTracked(k) /\ key.fin
    BY <1>1, <1>2, <1>4 DEF KeyTracked
  <2> HIDE DEF Live, KeyTracked, HasKey, Upgraded
  <2> QED BY <1>0, <1>1, <1>2, <1>3, <1>4, <1>5, <2>1 DEF KeysHeld
<1>7. KeyAtHand
  <2>1. key.id # 0 => Live(key.id)
    BY <1>0, <1>2, <1>4
  <2> HIDE DEF Live
  <2> QED BY <1>1, <2>1 DEF KeyAtHand, KHolding
<1>8. Credentials
  <2>1. \A s \in SecretName : secrets[s].by = (IF HasKey /\ s = "s1" THEN 1 ELSE 0)
    BY DEF Init, NoSecret
  <2>2. \E n \in 0..MaxUID : Used = 1..n /\ key.uid <= n + 1
    <3>1. CASE HasKey \/ Upgraded
      <4>1. Used = 1..1
        BY <1>0, <1>3, <3>1 DEF Used
      <4> QED BY <1>0, <1>4, <3>1, <4>1
    <3>2. CASE ~HasKey /\ ~Upgraded
      <4>1. Used = 1..0
        BY <1>0, <1>3, <3>2 DEF Used
      <4> QED BY <1>0, <1>4, <3>2, <4>1
    <3> QED BY <3>1, <3>2
  <2>3. HasKey => remote.keyBy[Derived(0)] = 1
    BY <1>0, <1>3
  <2> HIDE DEF HasKey, Derived
  <2> QED BY <1>0, <1>1, <1>4, <2>1, <2>2, <2>3 DEF Credentials, CredentialIsTracked
<1> QED BY <1>1, <1>6, <1>7, <1>8 DEF SnapshotDrawn

-----------------------------------------------------------------------------
(* Buckets in Garage.                                                      *)

SameMark == bucket'.uid = bucket.uid /\ bucket'.id = bucket.id /\ bucket'.want = bucket.want /\ bucket'.rsv = bucket.rsv
Resting(pc) == pc \notin Holding \cup {"create", "drop"}

\* Who owns what is as it was, and the worker holds what it held.
LEMMA TrackingSame ==
  ASSUME BucketTracking, remote'.bucket = remote.bucket, remote'.by = remote.by, remote'.alias[Rsv] = remote.alias[Rsv],
         SameMark, Attended' => Attended,
         Resting(bw'.pc) \/ (bw'.pc = bw.pc /\ bw'.id = bw.id)
  PROVE  BucketTracking'
<1>1. Rsv' = Rsv /\ (\A b \in BucketId : Own(b)' <=> Own(b)) /\ (\A b \in BucketId : Tracked(b)' <=> Tracked(b))
      /\ (IsBucket(bucket.id)' <=> IsBucket(bucket.id))
  BY DEF Rsv, Own, Tracked, SameMark, IsBucket
<1>2. Attended' => /\ \A b \in BucketId : Own(b)' => Tracked(b)'
                   /\ \A b, c \in BucketId : Own(b)' /\ Own(c)' => b = c
  BY <1>1 DEF BucketTracking
<1>3. CASE Resting(bw'.pc)
  BY <1>2, <1>3 DEF BucketTracking, Resting, SameMark, Holding
<1>4. CASE bw'.pc = bw.pc /\ bw'.id = bw.id
  <2>1. bw.pc \in {"create", "drop"} => \A b \in BucketId : ~Own(b)'
    BY <1>1 DEF BucketTracking
  <2>2. Own(bw.id)' => Own(bw.id)
    BY <1>4 DEF Own
  <2>3. bw.pc = "bind" /\ Own(bw.id)' => bucket'.rsv /\ remote'.alias[Rsv'] = bw'.id
    BY <1>1, <1>4, <2>2 DEF BucketTracking, SameMark
  <2>4. bucket'.want # 0 => bucket'.id \in {0, bucket'.want} /\ (bw'.pc \in Holding => bw'.id = bucket'.want)
    BY <1>4 DEF BucketTracking, SameMark
  <2> HIDE DEF Own, Tracked, Attended, Rsv
  <2>5. bw.pc = "create" => bucket'.want = 0 /\ bucket'.rsv /\ ~IsBucket(bucket.id)'
    BY <1>1 DEF BucketTracking, SameMark
  <2>6. /\ bw.pc \in Holding \ {"bind"} => bucket'.id = bw'.id
        /\ bw.pc \in Holding /\ bucket'.rsv => remote'.alias[Rsv'] \in {0, bw'.id}
        /\ bw.pc = "bind" => ~IsBucket(bucket.id)' \/ bucket'.id = bw'.id
        /\ bw.pc \in Holding => remote'.bucket[bw'.id] # "free"
    BY <1>1, <1>4 DEF BucketTracking, SameMark
  <2>7. bw'.pc = "bind" => bw'.pc \in Holding
    BY DEF Holding
  <2> QED BY <1>2, <1>4, <2>1, <2>3, <2>4, <2>5, <2>6, <2>7 DEF BucketTracking
<1> QED BY <1>3, <1>4

\* A worker that has recorded the bucket it holds no longer needs its reservation.
LEMMA TrackingHeld ==
  ASSUME Base, BucketTracking, Attended, bw.pc \in Holding \ {"bind"}, remote'.bucket = remote.bucket, remote'.by = remote.by,
         remote'.alias[Rsv] \in {0, remote.alias[Rsv]}, bucket'.uid = bucket.uid, bucket'.id = bucket.id,
         bucket'.want = bucket.want, bucket'.rsv => bucket.rsv,
         Resting(bw'.pc) \/ (bw'.pc \in Holding \ {"bind"} /\ bw'.id = bw.id)
  PROVE  BucketTracking'
<1>0. bw.id # 0 /\ bw.pc \in Holding /\ bw.id = bucket.id
  BY DEF Base, BucketWorker, BucketTracking
<1>1. Rsv' = Rsv /\ (\A b \in BucketId : Own(b)' <=> Own(b))
  BY DEF Rsv, Own
<1>2. ASSUME NEW b \in BucketId, Own(b) PROVE b = bucket.id /\ remote.by[b] = bucket.uid
  <2>1. Tracked(b) /\ b # 0
    BY <1>2, Constants DEF BucketTracking
  <2>2. bucket.rsv /\ remote.alias[Rsv] = b => b = bw.id
    BY <1>0, <2>1 DEF BucketTracking
  <2> QED BY <1>0, <2>1, <2>2 DEF Tracked
<1>3. \A b \in BucketId : Own(b)' => Tracked(b)'
  BY <1>1, <1>2 DEF Tracked
<1>4. \A b, c \in BucketId : Own(b)' /\ Own(c)' => b = c
  BY <1>1, <1>2
<1>5. bucket'.want # 0 => bucket'.id \in {0, bucket'.want} /\ (bw.pc \in Holding => bw.id = bucket'.want)
  BY DEF BucketTracking
<1>6. bucket'.rsv => remote'.alias[Rsv'] \in {0, bw.id}
  BY <1>0, <1>1 DEF BucketTracking
<1>7. remote'.bucket[bw.id] # "free" /\ bucket'.id = bw.id
  BY <1>0 DEF BucketTracking
<1>8. CASE Resting(bw'.pc)
  <2>1. bw'.pc \notin Holding /\ bw'.pc \notin {"create", "drop", "bind"}
    BY <1>8 DEF Resting, Holding
  <2> HIDE DEF Own, Tracked, Attended, Rsv
  <2> QED BY <1>3, <1>4, <1>5, <2>1 DEF BucketTracking
<1>9. CASE bw'.pc \in Holding \ {"bind"} /\ bw'.id = bw.id
  <2>1. bw'.pc \notin {"create", "drop", "bind"}
    BY <1>9 DEF Holding
  <2> HIDE DEF Own, Tracked, Attended, Rsv
  <2> QED BY <1>0, <1>3, <1>4, <1>5, <1>6, <1>7, <1>9, <2>1 DEF BucketTracking
<1> QED BY <1>8, <1>9

LEMMA TrackingCreates ==
  ASSUME Objects, GarageForm, BucketTracking, bw.pc = "create", Creates(FreeBucket), bucket' = bucket,
         bw'.pc = "bind", bw'.id = FreeBucket, cluster' = cluster
  PROVE  BucketTracking'
<1> DEFINE i == FreeBucket
<1>0. i \in BucketId /\ i # 0 /\ remote.bucket[i] = "free" /\ bucket.uid # 0 /\ Rsv \in Alias /\ Rsv' = Rsv
  BY Constants, RsvTyped DEF Creates, Objects, BucketObject, Rsv
<1>1. /\ \A b \in BucketId : remote'.bucket[b] = (IF b = i THEN "live" ELSE remote.bucket[b])
      /\ \A b \in BucketId : remote'.by[b] = (IF b = i THEN bucket.uid ELSE remote.by[b])
      /\ remote'.alias[Rsv] = i
  BY <1>0 DEF Creates
<1>2. bucket.want = 0 /\ bucket.rsv /\ ~IsBucket(bucket.id) /\ \A b \in BucketId : ~Own(b)
  BY DEF BucketTracking
<1> HIDE DEF i
<1>3. \A b \in BucketId : Own(b)' => b = i
  BY <1>1, <1>2 DEF Own
<1>4. \A b \in BucketId : Own(b)' => Tracked(b)'
  BY <1>0, <1>1, <1>2, <1>3 DEF Tracked
<1>5. ~IsBucket(bucket.id)' \/ bucket.id = i
  <2>1. bucket.id \in Ids
    BY BucketReads DEF Objects, Base, Buckets
  <2> QED BY <1>1, <1>2, <2>1 DEF IsBucket, Ids
<1>6. bw'.pc = "bind" /\ bw'.id = i /\ bw'.pc \notin {"create", "drop"}
  BY DEF i
<1>7. remote'.bucket[bw'.id] # "free" /\ bucket' = bucket
  BY <1>0, <1>1, <1>6
<1> HIDE DEF Own, Tracked, Rsv, Attended, IsBucket
<1> QED BY <1>0, <1>1, <1>2, <1>3, <1>4, <1>5, <1>6, <1>7 DEF BucketTracking

LEMMA TrackingBinds ==
  ASSUME Objects, GarageForm, BucketTracking, bw.pc = "bind", bw'.pc = "alias", remote' = remote,
         bucket'.uid = bucket.uid, bucket'.want = bucket.want, bucket'.rsv = bucket.rsv, bucket'.id = bw.id,
         bw'.id = bw.id
  PROVE  BucketTracking'
<1>0. bw.id # 0 /\ bw.pc \in Holding /\ bucket.fin /\ Attended
  BY DEF Objects, Base, BucketWorker, BucketObject, Holding, Attended
<1>1. Rsv' = Rsv /\ (\A b \in BucketId : Own(b)' <=> Own(b))
  BY DEF Rsv, Own
<1>2. ASSUME NEW b \in BucketId, Own(b) PROVE b = bw.id /\ remote.by[b] = bucket.uid
  <2>1. Tracked(b) /\ b # 0
    BY <1>0, <1>2, Constants DEF BucketTracking
  <2>2. bucket.rsv /\ remote.alias[Rsv] = b => b = bw.id
    BY <1>0, <2>1 DEF BucketTracking
  <2>3. b = bucket.id => b = bw.id
    BY <1>0, <1>2, <2>1 DEF BucketTracking, Own, IsBucket
  <2> QED BY <2>1, <2>2, <2>3 DEF Tracked
<1>3. \A b \in BucketId : Own(b)' => Tracked(b)'
  BY <1>1, <1>2 DEF Tracked
<1>4. \A b, c \in BucketId : Own(b)' /\ Own(c)' => b = c
  BY <1>1, <1>2
<1>5. bucket'.want # 0 => bucket'.id \in {0, bucket'.want} /\ bw.id = bucket'.want
  BY <1>0 DEF BucketTracking
<1>6. bucket'.rsv => remote'.alias[Rsv'] \in {0, bw.id}
  BY <1>0, <1>1 DEF BucketTracking
<1>7. remote'.bucket[bw.id] # "free" /\ bucket'.id = bw'.id
  BY <1>0 DEF BucketTracking
<1> HIDE DEF Own, Tracked, Rsv, Attended
<1> QED BY <1>3, <1>4, <1>5, <1>6, <1>7 DEF BucketTracking

\* What the worker found is the object's, and no other bucket of its own is left.
LEMMA TrackingResolves ==
  ASSUME Objects, GarageForm, ForeignForm, BucketTracking, bw.pc = "resolve", bw'.pc \in {"alias", "bind"}, remote' = remote,
         bucket' = bucket, Resolved(bw.obj) # 0, bw'.id = Resolved(bw.obj),
         ~(Reserved(bw.obj) # 0 /\ Disagrees(bw.obj, Reserved(bw.obj))),
         bw'.pc = (IF bw.obj.id = Resolved(bw.obj) THEN "alias" ELSE "bind")
  PROVE  BucketTracking'
<1> DEFINE i == Resolved(bw.obj)
<1>0. /\ bucket.fin /\ bw.obj.id = bucket.id /\ bw.obj.want = bucket.want /\ bw.obj.rsv = bucket.rsv /\ bw.obj.uid = bucket.uid
      /\ remote \in Garages /\ bucket.id \in Ids /\ bucket.want \in {0, Foreign}
  BY BucketReads DEF Objects, BucketObject, SameStatus, Base, Buckets
<1>1. Reserved(bw.obj) = (IF bucket.rsv THEN remote.alias[Rsv] ELSE 0)
  BY <1>0 DEF Reserved, Rsv
<1>2. Rsv' = Rsv /\ (\A b \in BucketId : Own(b)' <=> Own(b)) /\ (\A b \in BucketId : Tracked(b)' <=> Tracked(b))
      /\ (IsBucket(bucket.id)' <=> IsBucket(bucket.id)) /\ Attended
  BY <1>0 DEF Rsv, Own, Tracked, IsBucket, Attended
<1>3. i # 0 /\ i = (IF Reserved(bw.obj) # 0 THEN Reserved(bw.obj)
                    ELSE IF bucket.want # 0 THEN IF IsBucket(bucket.want) THEN bucket.want ELSE 0
                    ELSE IF IsBucket(bucket.id) THEN bucket.id ELSE 0)
  BY <1>0 DEF Resolved
<1>4. bw'.id = i /\ (bw'.pc = "alias" => bucket.id = i) /\ (bw'.pc = "bind" => bucket.id # i)
  BY <1>0
<1>5. Reserved(bw.obj) # 0 => /\ bucket.id \in {0, Reserved(bw.obj)} /\ bucket.want \in {0, Reserved(bw.obj)}
  BY <1>0 DEF Disagrees
<1> HIDE DEF i, Reserved, Resolved, Disagrees
<1>6. bucket.want # 0 => ~bucket.rsv /\ bucket.id \in {0, bucket.want}
  BY DEF ForeignForm, BucketTracking
<1>7. bucket.want # 0 => i = bucket.want
  BY <1>1, <1>3, <1>6
<1>8. bucket.rsv => remote.alias[Rsv] \in {0, i}
  BY <1>1, <1>3
<1>9. bw'.pc = "bind" => ~IsBucket(bucket.id)
  <2> SUFFICES ASSUME bw'.pc = "bind", IsBucket(bucket.id) PROVE FALSE
    OBVIOUS
  <2>1. bucket.id # i /\ bucket.id # 0
    BY <1>4 DEF IsBucket
  <2>2. Reserved(bw.obj) = 0
    BY <1>3, <1>5, <2>1
  <2>3. bucket.want # 0
    BY <1>3, <2>1, <2>2
  <2> QED BY <1>6, <1>7, <2>1, <2>3
<1>10. bw'.pc = "bind" /\ Own(i) => bucket.rsv /\ remote.alias[Rsv] = i
  <2> SUFFICES ASSUME bw'.pc = "bind", Own(i) PROVE bucket.rsv /\ remote.alias[Rsv] = i
    OBVIOUS
  <2>1. Reserved(bw.obj) # 0
    <3>1. bucket.want = 0
      BY <1>0, <1>7 DEF ForeignForm, Own
    <3> QED BY <1>3, <1>4, <3>1
  <2> QED BY <1>1, <1>3, <2>1
<1>11. remote.bucket[i] # "free"
  <2>1. Reserved(bw.obj) # 0 => remote.bucket[Reserved(bw.obj)] = "live"
    BY <1>1, RsvTyped DEF GarageForm, Rsv
  <2> QED BY <1>3, <2>1 DEF IsBucket
<1>13. (\A b \in BucketId : Own(b)' => Tracked(b)') /\ (\A b, c \in BucketId : Own(b)' /\ Own(c)' => b = c)
  BY <1>2 DEF BucketTracking
<1>14. bw'.pc = "bind" /\ Own(bw.id)' => bucket.rsv /\ remote.alias[Rsv] = i
  <2>1. Own(bw.id)' <=> Own(i)
    BY <1>4 DEF Own
  <2> QED BY <1>10, <2>1
<1>15. bw'.pc \in Holding /\ bw'.pc \notin {"create", "drop"} /\ bw'.pc \in {"alias", "bind"}
  BY DEF Holding
<1>16. (bw'.pc = "bind" => ~IsBucket(bucket.id)') /\ (bw'.pc # "bind" => bucket.id = i)
  BY <1>2, <1>4, <1>9, <1>15
<1> HIDE DEF Own, Tracked, Rsv, Attended, IsBucket
<1> QED BY <1>2, <1>4, <1>6, <1>7, <1>8, <1>11, <1>13, <1>14, <1>15, <1>16 DEF BucketTracking

\* Nothing of its own is left where the object gives its finalizer up.
LEMMA TrackingDeletes ==
  ASSUME Objects, GarageForm, BucketTracking, bw.pc = "finalize", bw'.pc = "drop", bucket' = bucket, cluster'.state = cluster.state,
         ~(Reserved(bw.obj) # 0 /\ Recorded(bw.obj) \notin {0, Reserved(bw.obj)}),
         IF Doomed(bw.obj) = 0 THEN SameGarage ELSE Deletes(Doomed(bw.obj))
  PROVE  BucketTracking'
<1>0. /\ bucket.fin /\ bw.obj = bucket /\ bucket.id \in Ids /\ Attended /\ 0 \notin BucketId
  BY BucketReads, Constants DEF Objects, BucketObject, Base, Attended, Buckets, Ids
<1>1. Reserved(bw.obj) = (IF bucket.rsv THEN remote.alias[Rsv] ELSE 0)
  BY <1>0 DEF Reserved, Rsv
<1>2. ASSUME NEW b \in BucketId, Own(b) PROVE b = Doomed(bw.obj)
  <2>1. Tracked(b) /\ b # 0
    BY <1>0, <1>2 DEF BucketTracking
  <2>2. CASE bucket.rsv /\ remote.alias[Rsv] = b
    BY <1>1, <2>1, <2>2 DEF Doomed
  <2>3. CASE b = bucket.id
    <3>1. Recorded(bw.obj) = b
      BY <1>0, <2>1, <2>3 DEF Recorded
    <3> HIDE DEF Recorded, Reserved
    <3> QED BY <2>1, <3>1 DEF Doomed
  <2> QED BY <2>1, <2>2, <2>3 DEF Tracked
<1> HIDE DEF Doomed, Recorded, Reserved
<1>3. ASSUME NEW b \in BucketId PROVE ~Own(b)'
  <2>1. CASE Doomed(bw.obj) = 0
    BY <1>0, <1>2, <2>1 DEF Own, SameGarage
  <2>2. CASE Doomed(bw.obj) # 0
    <3>1. Own(b)' => Own(b) /\ b # Doomed(bw.obj)
      BY <2>2 DEF Own, Deletes
    <3> QED BY <1>2, <3>1
  <2> QED BY <2>1, <2>2
<1>4. bucket.want # 0 => bucket.id \in {0, bucket.want}
  BY DEF BucketTracking
<1>5. bw'.pc = "drop" /\ bw'.pc \notin Holding /\ bw'.pc # "create" /\ bw'.pc # "bind"
  BY DEF Holding
<1> HIDE DEF Own, Tracked, Rsv, Attended, IsBucket
<1> QED BY <1>3, <1>4, <1>5 DEF BucketTracking

LEMMA TrackingStart == ASSUME Objects, BucketTracking, StartBucket PROVE BucketTracking'
<1>0. Base /\ BucketObject /\ bw.pc = "idle" /\ remote' = remote /\ cluster' = cluster
  BY StartFlat DEF Objects
<1>1. CASE bucket' = NoBucket
  <2>1. cluster.state = "gone" \/ (bucket' = bucket /\ bw'.pc \notin Holding \cup {"create", "drop"})
        \/ (bw'.pc \notin Holding \cup {"create", "drop"} /\ bucket'.uid = bucket.uid)
    BY <1>0, StartFlat DEF Holding
  <2>2. bucket'.uid = 0 /\ bucket.uid # 0
    BY <1>0, <1>1, StartFlat, NoBucketIs
  <2>3. cluster.state = "gone" /\ bw' = bw
    BY <1>0, <1>1, <2>2, StartFlat
  <2>4. ~Attended' /\ bw'.pc \notin Holding \cup {"create", "drop", "bind"} /\ bucket'.want = 0
    BY <1>0, <1>1, <2>3, NoBucketIs DEF Attended, Holding
  <2> HIDE DEF Own, Tracked, Rsv, Attended, IsBucket
  <2> QED BY <2>4 DEF BucketTracking
<1>2. CASE bucket' # NoBucket
  <2>1. SameMark /\ (Attended' => Attended) /\ Resting(bw'.pc)
    BY <1>0, <1>2, StartFlat DEF SameMark, SameMarks, Attended, Resting, Holding
  <2> QED BY <1>0, <2>1, TrackingSame
<1> QED BY <1>1, <1>2

LEMMA TrackingStep == ASSUME Objects, GarageForm, ForeignForm, BucketTracking, BucketNext \/ BucketFault PROVE BucketTracking'
<1>0. /\ Base /\ BucketObject /\ BucketCalls /\ BWrites /\ Kept /\ BMoves /\ cluster'.state = cluster.state
      /\ (bw.pc # "idle" => bucket.fin)
  BY BucketCallsStep, BWritesStep, KeptStep, BMovesStep, BRemoteStep DEF Objects, BRemote, BucketObject
<1>1. CASE bw.pc = "idle"
  <2>1. StartBucket
    BY <1>1, BucketActs DEF BucketFault, B
  <2> QED BY <2>1, TrackingStart
<1>2. CASE bw.pc = "drop"
  <2>1. bw'.pc = "idle" /\ remote' = remote /\ (bucket' = NoBucket \/ (SameObj(bucket', bucket) /\ SameMarks(bucket', bucket)))
    BY <1>0, <1>2 DEF BWrites
  <2>2. \A b \in BucketId : ~Own(b)'
    BY <1>2, <2>1 DEF BucketTracking, Own
  <2>3. bucket'.want # 0 => bucket'.id \in {0, bucket'.want}
    BY <2>1, NoBucketIs DEF BucketTracking, SameObj, SameMarks
  <2>4. bw'.pc \notin Holding \cup {"create", "drop", "bind"}
    BY <2>1 DEF Holding
  <2> HIDE DEF Own, Tracked, Rsv, Attended, IsBucket
  <2> QED BY <2>2, <2>3, <2>4 DEF BucketTracking
<1>3. CASE bw.pc \notin {"idle", "drop"} /\ bw'.pc = "idle"
  <2>1. SameMark /\ remote' = remote /\ (Attended' => Attended) /\ Resting(bw'.pc)
    BY <1>0, <1>3 DEF SameMark, BWrites, SameMarks, Kept, SameObj, Attended, Resting, Holding
  <2> QED BY <2>1, TrackingSame
<1>4. CASE bw.pc \in {"cleanup", "cleaned"} /\ bw'.pc # "idle"
  <2>1. SameMark /\ SameNames /\ (Attended' => Attended) /\ Resting(bw'.pc)
    BY <1>0, <1>4 DEF SameMark, BucketCalls, SameGarage, SameNames, BMoves, Kept, SameObj, Attended, Resting, Holding
  <2> QED BY <2>1, TrackingSame DEF SameNames
<1>5. CASE bw.pc = "resolve" /\ bw'.pc # "idle"
  <2>0. remote' = remote /\ GetOrCreateBucket
    <3>1. ~(BucketLookupTimeout \/ BucketDecodeError \/ BucketFault)
      BY <1>0, <1>5, BucketFaultFlat, LookupFlat, EndedStops
    <3> QED BY <1>0, <1>5, <3>1, BucketActs, ResolveFlat
  <2>1. CASE bw'.pc \in {"alias", "bind"}
    BY <1>0, <1>5, <2>0, <2>1, TrackingResolves DEF BWrites
  <2>2. CASE bw'.pc = "create"
    <3>1. Resolved(bw.obj) = 0 /\ bw.obj.want = 0 /\ bucket'.rsv /\ bucket'.uid = bucket.uid /\ bucket'.id = bucket.id
          /\ bucket'.want = bucket.want /\ SameStatus(bw.obj, bucket)
      BY <1>0, <1>5, <2>2 DEF BWrites, Kept, SameObj, BucketObject
    <3>2. bw.obj.id = bucket.id /\ bucket.want = 0 /\ bw.obj.rsv = bucket.rsv /\ bw.obj.uid = bucket.uid
      BY <3>1 DEF SameStatus
    <3>3. Reserved(bw.obj) = 0 /\ ~IsBucket(bucket.id)
      BY <3>1, <3>2, Constants DEF Resolved, IsBucket
    <3>4. ASSUME NEW b \in BucketId PROVE ~Own(b)
      <4> SUFFICES ASSUME Own(b) PROVE FALSE
        OBVIOUS
      <4>1. Tracked(b) /\ b # 0
        BY <1>0, <1>5, Constants DEF BucketTracking, Attended
      <4>2. bucket.rsv => remote.alias[Rsv] = 0
        BY <3>2, <3>3 DEF Reserved, Rsv
      <4> QED BY <3>3, <4>1, <4>2 DEF Tracked, Own, IsBucket
    <3>5. (\A b \in BucketId : ~Own(b)') /\ ~IsBucket(bucket.id)' /\ bucket'.want = 0 /\ bucket'.rsv
      BY <2>0, <3>1, <3>2, <3>3, <3>4 DEF Own, IsBucket
    <3>6. bw'.pc \notin Holding \cup {"bind", "drop"}
      BY <2>2 DEF Holding
    <3> HIDE DEF Own, Tracked, Rsv, Attended, IsBucket
    <3> QED BY <2>2, <3>5, <3>6 DEF BucketTracking
  <2> QED BY <1>0, <1>5, <2>1, <2>2 DEF BMoves
<1>6. CASE bw.pc = "create" /\ bw'.pc # "idle"
  <2>1. CreateReservedBucket
    BY <1>0, <1>6, BucketActs, BucketFaultFlat, EndedStops
  <2>2. bucket' = bucket /\ bw'.pc = "bind" /\ bw'.id = FreeBucket /\ cluster' = cluster
    BY <1>0, <2>1, CreateFlat
  <2>3. Creates(FreeBucket)
    <3>1. FreeBucket \in BucketId /\ remote.bucket[FreeBucket] = "free" /\ bw.obj.uid = bucket.uid
          /\ remote' = CreateBucket(remote, FreeBucket, Reservation(bw.obj.uid), bw.obj.uid)
      BY <1>0, <1>6, <2>1, CreateFlat DEF BucketObject, SameStatus
    <3>2. Reservation(bw.obj.uid) \in Alias /\ remote \in Garages
      BY <1>0, RsvTyped, BucketReads DEF Base
    <3> QED BY <3>1, <3>2, CreateBucketIs DEF Creates, Rsv
  <2> QED BY <1>6, <2>2, <2>3, TrackingCreates
<1>7. CASE bw.pc = "bind" /\ bw'.pc # "idle"
  <2>1. bw'.pc = "alias" /\ PersistBucketID
    BY <1>0, <1>7, BucketActs, BucketFaultFlat, EndedStops DEF BMoves
  <2>2. remote' = remote /\ bucket'.id = bw.id /\ bucket'.uid = bucket.uid /\ bucket'.want = bucket.want /\ bucket'.rsv = bucket.rsv
        /\ bw'.id = bw.id
    BY <1>0, <1>7, <2>1 DEF PersistBucketID, BWrites, Kept, SameObj
  <2> QED BY <1>7, <2>1, <2>2, TrackingBinds
<1>8. CASE bw.pc \in Holding \ {"bind"} /\ bw'.pc # "idle"
  <2>1. bw'.pc \in Holding \ {"bind"} /\ bw'.id = bw.id
    BY <1>0, <1>8 DEF BMoves, Kept, Holding
  <2>2. bucket'.uid = bucket.uid /\ bucket'.id = bucket.id /\ bucket'.want = bucket.want /\ (bucket'.rsv => bucket.rsv)
    <3>1. CASE bw.pc = "unannotate"
      BY <1>0, <1>8, <3>1, <2>1 DEF BWrites, Kept, SameObj, BMoves
    <3>2. CASE bw.pc # "unannotate"
      BY <1>0, <1>8, <3>2 DEF Kept, SameObj, Holding
    <3> QED BY <3>1, <3>2
  <2>3. remote'.bucket = remote.bucket /\ remote'.by = remote.by /\ remote'.alias[Rsv] \in {0, remote.alias[Rsv]}
    <3>1. Rsv \in {"rsv1", "rsv2"} /\ Rsv \in Alias
      BY RsvTyped DEF Rsv
    <3>2. ASSUME NEW a, Unaliases(a)
          PROVE  remote'.bucket = remote.bucket /\ remote'.by = remote.by /\ remote'.alias[Rsv] \in {0, remote.alias[Rsv]}
      BY <3>1, <3>2 DEF Unaliases, SameBuckets
    <3>3. ASSUME Aliased, bw.pc = "aliasAdd"
          PROVE  remote'.bucket = remote.bucket /\ remote'.by = remote.by /\ remote'.alias[Rsv] \in {0, remote.alias[Rsv]}
      <4>1. bw.name # Rsv
        BY <1>0, <3>1, <3>3, BucketHeld DEF Working, Holding
      <4> QED BY <3>1, <3>3, <4>1 DEF Aliased, SameBuckets
    <3>4. bw.pc \notin {"create", "finalize"}
      BY <1>8 DEF Holding
    <3> HIDE DEF Rsv
    <3> QED BY <1>0, <3>2, <3>3, <3>4 DEF BucketCalls, SameGarage, Permits, Localizes, Unlocalizes, SameNames
  <2>4. Attended
    BY <1>0, <1>8 DEF Attended, Holding
  <2> QED BY <1>0, <1>8, <2>1, <2>2, <2>3, <2>4, TrackingHeld
<1>9. CASE bw.pc = "finalize" /\ bw'.pc # "idle"
  <2>1. FinalizeBucket
    BY <1>0, <1>9, BucketActs, BucketFaultFlat, EndedStops
  <2>2. bw'.pc = "drop" /\ bucket' = bucket
        /\ ~(Reserved(bw.obj) # 0 /\ Recorded(bw.obj) \notin {0, Reserved(bw.obj)})
        /\ remote' = (IF Doomed(bw.obj) = 0 THEN remote ELSE DeleteBucket(remote, Doomed(bw.obj)))
    <3> HIDE DEF Reserved, Recorded, Doomed
    <3> QED BY <1>0, <1>9, <2>1, FinalizeFlat, EndedStops
  <2>3. IF Doomed(bw.obj) = 0 THEN SameGarage ELSE Deletes(Doomed(bw.obj))
    <3>1. CASE Doomed(bw.obj) = 0
      BY <2>2, <3>1 DEF SameGarage
    <3>2. CASE Doomed(bw.obj) # 0
      <4>1. Doomed(bw.obj) \in BucketId /\ remote \in Garages
        BY <1>0, <3>2, DoomedTyped, BucketReads DEF Base, Ids
      <4>2. remote' = DeleteBucket(remote, Doomed(bw.obj))
        BY <2>2, <3>2
      <4> HIDE DEF Doomed
      <4>3. Deletes(Doomed(bw.obj))
        BY <4>1, <4>2, DeleteBucketIs DEF Deletes
      <4> QED BY <3>2, <4>3
    <3> QED BY <3>1, <3>2
  <2> QED BY <1>0, <1>9, <2>2, <2>3, TrackingDeletes
<1>10. bw.pc \in {"idle", "drop", "cleanup", "cleaned", "resolve", "create", "bind", "finalize"} \cup (Holding \ {"bind"})
  BY BucketReads DEF Objects, Base, BWorkers, BPoints, Working, Holding
<1> QED BY <1>1, <1>2, <1>3, <1>4, <1>5, <1>6, <1>7, <1>8, <1>9, <1>10

LEMMA TrackingNext == ASSUME Objects, GarageForm, ForeignForm, BucketTracking, Next PROVE BucketTracking'
<1>0. Base /\ BucketObject /\ KeyObject /\ SnapshotKnown
  BY DEF Objects
<1>1. CASE BucketNext \/ BucketFault
  BY <1>1, TrackingStep
<1>2. CASE KeyNext \/ KeyFault
  <2>1. UNCHANGED <<cluster, bucket, bw>> /\ remote'.bucket = remote.bucket /\ remote'.by = remote.by /\ remote'.alias = remote.alias
    BY <1>0, <1>2, KeyFrame, KRemoteStep DEF KRemote
  <2>2. SameMark /\ (Attended' => Attended)
    BY <2>1 DEF SameMark, Attended
  <2> QED BY <2>1, <2>2, TrackingSame
<1>3. CASE TokenNext \/ TokenFault \/ ReconcileGrant
  <2>1. SameMark /\ (Attended' => Attended) /\ UNCHANGED <<remote, bw>>
    BY <1>3, QuietFrame DEF SameMark, Attended
  <2> QED BY <2>1, TrackingSame
<1>4. CASE UserNext
  <2>0. bw' = bw /\ UserCalls /\ UserBucket /\ (cluster'.state = "Running" => cluster.state = "Running")
        /\ Rsv \in {"rsv1", "rsv2"} /\ Rsv \in Alias
    BY <1>0, <1>4, UserFrame, UserCallsStep, UserBucketFlat, UserCluster, RsvTyped DEF Rsv
  <2>1. CASE bucket' = bucket /\ SameNames
    <3>1. SameMark /\ (Attended' => Attended)
      BY <2>0, <2>1 DEF SameMark, Attended
    <3> QED BY <2>0, <2>1, <3>1, TrackingSame DEF SameNames
  <2>2. CASE bucket' = bucket /\ Unforeign
    <3>1. SameMark /\ (Attended' => Attended) /\ remote'.alias[Rsv] = remote.alias[Rsv]
      BY <2>0, <2>2 DEF SameMark, Attended, Unforeign
    <3> QED BY <2>0, <2>2, <3>1, TrackingSame DEF Unforeign, SameBuckets
  <2>3. CASE bucket' = bucket /\ Deletes(bucket.id)
    <3> DEFINE i == bucket.id
    <3>1. /\ \A b \in BucketId : Own(b)' => Own(b) /\ b # i
          /\ \A b \in BucketId : b # i => (Own(b)' <=> Own(b))
          /\ remote'.alias[Rsv] = (IF remote.alias[Rsv] = i THEN 0 ELSE remote.alias[Rsv])
          /\ \A b \in BucketId : remote'.bucket[b] \in {remote.bucket[b], "deleted"}
      BY <2>0, <2>3 DEF Own, Deletes
    <3>2. Rsv' = Rsv /\ bucket'.id = i /\ (Attended' => Attended)
      BY <2>0, <2>3 DEF Rsv, Attended
    <3>3. Attended' => \A b \in BucketId : Own(b)' => Tracked(b)'
      <4> SUFFICES ASSUME Attended, NEW b \in BucketId, Own(b)' PROVE Tracked(b)'
        BY <3>2
      <4>1. Tracked(b) /\ b # i
        BY <3>1 DEF BucketTracking
      <4>2. remote'.by[b] = bucket.uid /\ bucket.rsv /\ remote.alias[Rsv] = b
        BY <2>3, <4>1 DEF Tracked, Deletes
      <4> QED BY <2>3, <3>1, <3>2, <4>1, <4>2 DEF Tracked
    <3>4. Attended' => \A b, c \in BucketId : Own(b)' /\ Own(c)' => b = c
      BY <3>1, <3>2 DEF BucketTracking
    <3>5. i \in BucketId
      BY <2>3 DEF Deletes
    <3>6. bw.pc \in Holding => bw.id \in BucketId
      BY <1>0, BucketHeld
    <3>7. bw.pc \in {"create", "drop"} => \A b \in BucketId : ~Own(b)'
      BY <3>1 DEF BucketTracking
    <3>8. bw.pc = "bind" /\ Own(bw.id)' => bucket.rsv /\ remote'.alias[Rsv] = bw.id
      <4>1. Own(bw.id)' => remote'.bucket[bw.id] = "live" /\ remote'.by[bw.id] # 0
        BY <2>0 DEF Own
      <4>2. bw.pc = "bind" /\ Own(bw.id)' => Own(bw.id) /\ bw.id # i
        BY <2>3, <3>6, <4>1 DEF Own, Deletes, Holding
      <4> QED BY <3>1, <4>2 DEF BucketTracking
    <3>9. bw.pc \in Holding => remote'.bucket[bw.id] # "free" /\ (bucket.rsv => remote'.alias[Rsv] \in {0, bw.id})
      BY <3>1, <3>6 DEF BucketTracking
    <3>10. IsBucket(bucket.id)' => IsBucket(bucket.id)
      BY <2>3 DEF IsBucket, Deletes
    <3>11. /\ bw.pc = "create" => bucket.want = 0 /\ bucket.rsv /\ ~IsBucket(bucket.id)'
           /\ bw.pc \in Holding \ {"bind"} => bucket.id = bw.id
           /\ bw.pc = "bind" => ~IsBucket(bucket.id)' \/ bucket.id = bw.id
           /\ bucket.want # 0 => bucket.id \in {0, bucket.want} /\ (bw.pc \in Holding => bw.id = bucket.want)
      BY <3>10 DEF BucketTracking
    <3> HIDE DEF Own, Tracked, Rsv, Attended, IsBucket
    <3> QED BY <2>0, <2>3, <3>2, <3>3, <3>4, <3>7, <3>8, <3>9, <3>11 DEF BucketTracking
  <2>4. CASE EditedBucket \/ MarkedBucket
    <3>1. SameMark /\ (Attended' => Attended)
      BY <2>0, <2>4 DEF SameMark, Attended, EditedBucket, MarkedBucket, SameMarks
    <3>2. remote' = remote \/ bucket' = bucket
      BY <2>0, <2>4 DEF UserBucket, EditedBucket, MarkedBucket, CreatedBucket, NoBucket
    <3> QED BY <2>0, <2>1, <2>2, <2>3, <3>1, <3>2, TrackingSame DEF UserCalls, SameGarage, Revokes, SameNames
  <2>5. CASE remote' = remote /\ ~bucket.fin /\ ~bucket'.fin /\ bucket'.id = 0
    <3>1. bw.pc = "idle"
      BY <1>0, <2>5 DEF BucketObject
    <3>2. Attended' => \A b \in BucketId : ~Own(b)'
      <4> SUFFICES ASSUME Attended', NEW b \in BucketId, Own(b) PROVE FALSE
        BY <2>5 DEF Own
      <4>1. Attended /\ bucket.id = 0 /\ ~bucket.rsv /\ b # 0
        BY <1>0, <2>0, <2>5, Constants DEF Attended, BucketObject
      <4> QED BY <4>1 DEF BucketTracking, Tracked
    <3>3. bw'.pc \notin Holding \cup {"create", "drop", "bind"}
      BY <2>0, <3>1 DEF Holding
    <3> HIDE DEF Own, Tracked, Rsv, Attended, IsBucket
    <3> QED BY <2>5, <3>2, <3>3 DEF BucketTracking
  <2>6. bucket.uid = 0 => ~bucket.fin
    BY <1>0, NoBucketIs DEF BucketObject
  <2>7. CASE bucket' = bucket
    BY <2>0, <2>1, <2>2, <2>3, <2>7 DEF UserCalls, SameGarage, Revokes, SameNames
  <2> QED BY <2>0, <2>4, <2>5, <2>6, <2>7, NoBucketIs DEF UserBucket, CreatedBucket
<1> QED BY <1>1, <1>2, <1>3, <1>4, NextCases

LEMMA FirstTracking == ASSUME Init PROVE BucketTracking
<1>0. Foreign \in BucketId /\ Foreign # 0 /\ Mine # Foreign /\ Mine # 0 /\ Mine \in BucketId
  BY Constants DEF Mine, Foreign
<1>1. bw.pc = "idle" /\ bucket.want = 0
  BY FirstWorkers, FirstFields, BoundBucketIs, NoBucketIs
<1>2. ASSUME NEW b \in BucketId, Own(b) PROVE b = Mine /\ HasBucket /\ remote.by[b] = 1
  BY <1>2, FirstGarage DEF Own
<1>3. HasBucket => bucket.id = Mine /\ bucket.uid = 1
  BY FirstFields, BoundBucketIs
<1>4. (\A b \in BucketId : Own(b) => Tracked(b)) /\ (\A b, c \in BucketId : Own(b) /\ Own(c) => b = c)
  BY <1>2, <1>3 DEF Tracked
<1>5. bw.pc \notin Holding \cup {"create", "drop", "bind"}
  BY <1>1 DEF Holding
<1> HIDE DEF Own, Tracked, Rsv, Attended, IsBucket
<1> QED BY <1>1, <1>4, <1>5 DEF BucketTracking

-----------------------------------------------------------------------------
(* What a running operator can still account for.                          *)
TrackingInvariant ==
  /\ IdentityInvariant /\ Absent /\ BucketTracking
  /\ KeysHeld /\ KeyAtHand /\ SnapshotDrawn /\ Credentials

LEMMA FirstTracked == ASSUME Init PROVE TrackingInvariant
  BY FirstIdentities, FirstAspects, FirstTracking, FirstKeys DEF TrackingInvariant

LEMMA TrackedNext == ASSUME TrackingInvariant, [Next]_tenantVars PROVE TrackingInvariant'
<1>0. Objects /\ GarageForm /\ ForeignForm /\ Unbound
  BY DEF TrackingInvariant, IdentityInvariant
<1>1. IdentityInvariant'
  BY IdentityNext DEF TrackingInvariant
<1>2. CASE Next
  BY <1>0, <1>1, <1>2, AbsentNext, TrackingNext, KeysHeldNext, KeyAtHandNext, SnapshotDrawnNext, CredentialsNext
     DEF TrackingInvariant
<1>3. CASE UNCHANGED tenantVars
  <2>1. SameMark /\ (Attended' => Attended) /\ BucketTracking'
    BY <1>3, TrackingSame DEF tenantVars, TrackingInvariant, SameMark, Attended
  <2>2. Absent' /\ KeyAtHand' /\ SnapshotDrawn'
    BY <1>3 DEF tenantVars, TrackingInvariant, Absent, KeyAtHand, SnapshotDrawn, Live
  <2>3. KeysHeld'
    BY <1>3 DEF tenantVars, TrackingInvariant, KeysHeld, Live, KeyTracked, KeyAttended
  <2>4. Credentials'
    BY <1>3 DEF tenantVars, TrackingInvariant, Credentials, CredentialIsTracked, Used
  <2> QED BY <1>1, <2>1, <2>2, <2>3, <2>4 DEF TrackingInvariant
<1> QED BY <1>2, <1>3

LEMMA NothingLeft == ASSUME TrackingInvariant PROVE NothingIsLeftBehind
<1> SUFFICES ASSUME cluster.state = "Running", focus # "lostKey"
             PROVE  /\ \A b \in BucketId : IsBucket(b) /\ remote.by[b] # 0 => remote.by[b] = bucket.uid
                    /\ \A k \in KeyId : IsKey(k) /\ remote.keyBy[k] # 0 => remote.keyBy[k] = key.uid
                    /\ Cardinality({b \in BucketId : IsBucket(b) /\ remote.by[b] = bucket.uid /\ bucket.uid # 0}) <= 1
  BY DEF NothingIsLeftBehind
<1>1. \A b, c \in BucketId : Own(b) /\ Own(c) => b = c
  BY DEF TrackingInvariant, BucketTracking, Attended
<1>2. \A b \in BucketId : IsBucket(b) /\ remote.by[b] # 0 => remote.by[b] = bucket.uid
  BY DEF TrackingInvariant, BucketTracking, Attended, Own, IsBucket, Tracked
<1>3. \A k \in KeyId : IsKey(k) => remote.keyBy[k] = key.uid
  BY DEF TrackingInvariant, KeysHeld, KeyAttended, Live, IsKey
<1> DEFINE S == {b \in BucketId : IsBucket(b) /\ remote.by[b] = bucket.uid /\ bucket.uid # 0}
<1>4. Cardinality(S) <= 1
  <2>1. \A b, c \in S : b = c
    BY <1>1 DEF Own, IsBucket
  <2> HIDE DEF S
  <2>3. CASE S # {}
    <3>1. PICK b \in S : TRUE
      BY <2>3
    <3>2. S = {b}
      BY <2>1, <3>1
    <3>3. Cardinality(S) = 1
      BY <3>2, FS_Singleton
    <3> QED BY <3>3
  <2>4. S = {} => Cardinality(S) = 0
    BY FS_EmptySet
  <2> QED BY <2>3, <2>4
<1> QED BY <1>2, <1>3, <1>4

(* While the cluster runs, what the operator put into Garage belongs to the *)
(* object that is there now, with one bucket to an object, and a Secret it  *)
(* filled stays within reach of the next sweep, for every set of aspects    *)
(* and every bound, concurrent reconciles and lost answers included         *)
(* (getOrCreateBucket, getOrCreateKey, finalize, reconcileSecret).          *)
THEOREM NothingIsLost == Spec => [](NothingIsLeftBehind /\ CredentialIsTracked)
<1>1. Init => TrackingInvariant
  BY FirstTracked
<1>2. TrackingInvariant /\ [Next]_tenantVars => TrackingInvariant'
  BY TrackedNext
<1>3. TrackingInvariant => NothingIsLeftBehind /\ CredentialIsTracked
  BY NothingLeft DEF TrackingInvariant, Credentials
<1> QED BY <1>1, <1>2, <1>3, PTL DEF Spec
=============================================================================
