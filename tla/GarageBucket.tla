---------------------------- MODULE GarageBucket ----------------------------
(***************************************************************************)
(* The GarageBucket controller: one worker that takes a GarageBucket from  *)
(* its spec to Garage.  Every step is one durable effect: a call of the    *)
(* Admin API that changes something, or a write to the API server; a crash *)
(* or a failed call may fall between any two of them.                      *)
(***************************************************************************)
EXTENDS TenantState

B(pc) == bw.pc = pc
BFrame == UNCHANGED <<focus, key, secrets, source, snapshot, kw, token, edits, faults>> /\ TenantWatch

(* A write to the API server leaves the worker with the stored object, the *)
(* user's newer spec included.                                             *)
Persist(b, pc) == bucket' = b /\ bw' = [bw EXCEPT !.obj = b, !.pc = pc]
Leave(b) == bucket' = b /\ bw' = Idle(NoBucket)
Fail == Leave([bucket EXCEPT !.phase = "Failed"])
Go(pc) == bw' = [bw EXCEPT !.pc = pc] /\ UNCHANGED bucket

-----------------------------------------------------------------------------
(* Reconcile.                                                              *)

(* The early part: the cluster is gone or leaving, or the finalizer is not *)
(* there yet.  Deletion does not wait for the cluster to be healthy.       *)
StartBucket ==
  /\ B("idle") /\ bucket.uid # 0 /\ (Concurrent \/ focus # "perms" \/ kw.pc = "idle")
  /\ \/ /\ bucket.del /\ bucket.fin /\ cluster.state = "gone"
        /\ bucket' = NoBucket /\ UNCHANGED bw
     \/ /\ bucket.del /\ bucket.fin /\ cluster.state # "gone"
        /\ bw' = [Idle(bucket) EXCEPT !.pc = "finalize"] /\ UNCHANGED bucket
     \/ /\ ~bucket.del /\ cluster.state # "Running"
        /\ bucket' = [bucket EXCEPT !.phase = "Pending"] /\ UNCHANGED bw
     \/ /\ ~bucket.del /\ cluster.state = "Running" /\ ~bucket.fin
        /\ bucket' = [bucket EXCEPT !.fin = TRUE] /\ UNCHANGED bw
     \/ /\ ~bucket.del /\ cluster.state = "Running" /\ bucket.fin
        /\ bw' = [Idle(bucket) EXCEPT !.name = bucket.alias,
                    !.pc = IF bucket.mpu /\ bucket.id # 0 THEN "cleanup" ELSE "resolve"]
        /\ UNCHANGED bucket
  /\ UNCHANGED <<cluster, remote>> /\ BFrame

(* handleBucketAnnotations: the uploads are cleaned first, the one-shot    *)
(* annotation goes after that and only if the object has not changed.      *)
CleanupIncompleteUploads ==
  /\ B("cleanup") /\ remote.sick = "ok"
  /\ remote' = [remote EXCEPT !.uploads = FALSE]
  /\ Go("cleaned") /\ UNCHANGED cluster /\ BFrame

RemoveCleanupAnnotation ==
  /\ B("cleaned")
  /\ IF bucket.ver = bw.obj.ver
     THEN Persist([bucket EXCEPT !.mpu = FALSE], "resolve")
     ELSE bw' = Idle(NoBucket) /\ UNCHANGED bucket
  /\ UNCHANGED <<cluster, remote>> /\ BFrame

(* getOrCreateBucket.  A reservation that resolves is looked at first: it  *)
(* must agree with whatever identity is recorded.  Then spec.bucketId, then *)
(* the recorded ID; a bucket that merely holds the alias is never adopted. *)
Reserved(b) == IF b.rsv THEN remote.alias[Reservation(b.uid)] ELSE 0
Disagrees(b, id) == id # 0 /\ \E recorded \in {b.want, b.id} : recorded \notin {0, id}

Resolved(b) ==
  IF Reserved(b) # 0 THEN Reserved(b)
  ELSE IF b.want # 0 THEN IF IsBucket(b.want) THEN b.want ELSE 0
  ELSE IF IsBucket(b.id) THEN b.id ELSE 0

Learn(id) == bw' = [bw EXCEPT !.id = id, !.seen = SeenOf(remote, id),
                              !.pc = IF bw.obj.id = id THEN "alias" ELSE "bind"]

GetOrCreateBucket ==
  /\ B("resolve") /\ remote.sick = "ok"
  /\ LET b == bw.obj  id == Resolved(b) IN
     \/ /\ id # 0 /\ ~(Reserved(b) # 0 /\ Disagrees(b, Reserved(b)))
        /\ Learn(id) /\ UNCHANGED bucket
     \/ /\ Reserved(b) # 0 /\ Disagrees(b, Reserved(b)) /\ Fail
     \/ /\ id = 0 /\ (b.want # 0 \/ remote.alias[bw.name] # 0) /\ Fail
     \/ /\ id = 0 /\ b.want = 0 /\ remote.alias[bw.name] = 0
        /\ Persist([bucket EXCEPT !.rsv = TRUE], "create")
  /\ UNCHANGED <<cluster, remote>> /\ BFrame

\* Mutant: the bucket is created under its public alias.
CreateUnreservedBucket ==
  /\ B("create")
  /\ LET id == FreeBucket IN
     /\ remote' = CreateBucket(remote, id, bw.name, bw.obj.uid)
     /\ bw' = [bw EXCEPT !.id = id, !.pc = "bind", !.seen = SeenOf(remote', id)]
  /\ UNCHANGED <<bucket, cluster>> /\ BFrame

(* The private alias goes with the create, so that a bucket whose ID was   *)
(* never recorded can be found again.                                      *)
CreateReservedBucket ==
  /\ B("create") /\ MayCreate
  /\ LET id == FreeBucket IN
     /\ remote' = CreateBucket(remote, id, Reservation(bw.obj.uid), bw.obj.uid)
     /\ bw' = [bw EXCEPT !.id = id, !.pc = "bind", !.seen = SeenOf(remote', id)]
  /\ UNCHANGED <<bucket, cluster>> /\ BFrame

PersistBucketID ==
  /\ B("bind") /\ Persist([bucket EXCEPT !.id = bw.id], "alias")
  /\ UNCHANGED <<cluster, remote>> /\ BFrame

-----------------------------------------------------------------------------
(* reconcileGlobalAlias and clearBucketReservationAlias.  What is removed  *)
(* is looked up in the aliases the bucket had when it was resolved.        *)

Unalias(r, a) == [r EXCEPT !.alias[a] = IF @ = bw.id THEN 0 ELSE @]
Abandoned == bw.obj.pAlias \notin {NoAlias, bw.name, bw.obj.mAlias}

RemoveAbandonedAlias ==
  /\ B("alias") /\ Abandoned
  /\ remote' = IF bw.obj.pAlias \in bw.seen.alias THEN Unalias(remote, bw.obj.pAlias) ELSE remote
  /\ Go("abandoned") /\ UNCHANGED cluster /\ BFrame

ClearAbandonedAlias ==
  /\ B("abandoned") /\ Persist([bucket EXCEPT !.pAlias = NoAlias], "alias")
  /\ UNCHANGED <<cluster, remote>> /\ BFrame

\* Mutant: the new alias is added before it is reserved.
SkipAliasReservation ==
  /\ B("alias") /\ ~Abandoned /\ Go("aliasAdd")
  /\ UNCHANGED <<cluster, remote>> /\ BFrame

ReserveGlobalAlias ==
  /\ B("alias") /\ ~Abandoned
  /\ IF bw.obj.pAlias = bw.name THEN Go("aliasAdd")
     ELSE Persist([bucket EXCEPT !.pAlias = bw.name], "aliasAdd")
  /\ UNCHANGED <<cluster, remote>> /\ BFrame

\* Mutant: a conflict counts as success, and the alias is taken over.
StealGlobalAlias ==
  /\ B("aliasAdd")
  /\ remote' = [remote EXCEPT !.alias[bw.name] = bw.id] /\ Go("aliasDrop")
  /\ UNCHANGED cluster /\ BFrame

(* A conflict is fine when the alias already resolves to this bucket.      *)
AddGlobalAlias ==
  /\ B("aliasAdd")
  /\ \/ /\ bw.name \notin bw.seen.alias
        /\ ~IsBucket(bw.id) \/ remote.alias[bw.name] \notin {0, bw.id}
        /\ Fail /\ UNCHANGED remote
     \/ /\ bw.name \notin bw.seen.alias
        /\ IsBucket(bw.id) /\ remote.alias[bw.name] \in {0, bw.id}
        /\ remote' = [remote EXCEPT !.alias[bw.name] = bw.id] /\ Go("aliasDrop")
     \/ /\ bw.name \in bw.seen.alias
        /\ Go("aliasDrop") /\ UNCHANGED remote
  /\ UNCHANGED cluster /\ BFrame

RemovePreviousAlias ==
  /\ B("aliasDrop")
  /\ LET previous == bw.obj.mAlias IN
     remote' = IF previous \notin {NoAlias, bw.name} /\ previous \in bw.seen.alias
               THEN Unalias(remote, previous) ELSE remote
  /\ Go("aliasDone") /\ UNCHANGED cluster /\ BFrame

CompleteAliasHandoff ==
  /\ B("aliasDone")
  /\ Persist([bucket EXCEPT !.mAlias = bw.name, !.pAlias = NoAlias], "unreserve")
  /\ UNCHANGED <<cluster, remote>> /\ BFrame

RemoveReservationAlias ==
  /\ B("unreserve")
  /\ LET rsv == Reservation(bw.obj.uid) IN
     IF ~bw.obj.rsv THEN Go("settings") /\ UNCHANGED remote
     ELSE /\ remote' = IF rsv \in bw.seen.alias THEN Unalias(remote, rsv) ELSE remote
          /\ Go("unannotate")
  /\ UNCHANGED cluster /\ BFrame

ClearReservationAnnotation ==
  /\ B("unannotate") /\ Persist([bucket EXCEPT !.rsv = FALSE], "settings")
  /\ UNCHANGED <<cluster, remote>> /\ BFrame

(* updateBucketSettings: website access and quotas, compared with what was *)
(* read when the bucket was resolved.                                      *)
UpdateBucketSettings ==
  /\ B("settings")
  /\ IF bw.seen.cfg # bw.obj.cfg /\ ~IsBucket(bw.id) THEN Fail /\ UNCHANGED remote
     ELSE /\ remote' = IF bw.seen.cfg = bw.obj.cfg THEN remote
                       ELSE [remote EXCEPT !.cfg[bw.id] = bw.obj.cfg]
          /\ Go("perms")
  /\ UNCHANGED cluster /\ BFrame

-----------------------------------------------------------------------------
(* reconcileKeyPermissions.                                                *)

(* What spec.keyPermissions asks for; a declaration without a grant only   *)
(* names a key to revoke.                                                  *)
BucketDeclares == bw.obj.kp.on /\ Permitted("bucket-key")
BucketDesired ==
  [k \in KeyId |-> IF BucketDeclares /\ k = key.id THEN bw.obj.kp.p ELSE {}]
BucketManaged == IF BucketDeclares THEN {key.id} ELSE {}
BucketUnauthorized ==
  IF bw.obj.kp.on /\ ~Permitted("bucket-key") /\ key.id # 0 THEN {key.id} ELSE {}

(* Ownership is reserved in the status before the first remote change.  A  *)
(* conflict fails the reconcile, but the failure status still carries it.  *)
ReserveKeyGrants ==
  /\ B("perms")
  /\ \/ BucketDeclares /\ key.id = 0 /\ Fail
     \/ /\ ~(BucketDeclares /\ key.id = 0)
        /\ LET reserved == bw.obj.mKeys \cup BucketManaged
               next == [bucket EXCEPT !.mKeys = reserved] IN
           IF reserved # bw.obj.mKeys /\ bucket.ver # bw.obj.ver
           THEN Leave([next EXCEPT !.phase = "Failed"])
           ELSE /\ bucket' = next
                /\ bw' = [bw EXCEPT !.obj = IF reserved = bw.obj.mKeys THEN @ ELSE next,
                            !.pc = "union", !.des = BucketDesired, !.man = BucketManaged,
                            !.tgt = reserved \cup BucketUnauthorized,
                            !.err = BucketUnauthorized # {}
                                    \/ (bw.obj.kp.on /\ ~Permitted("bucket-key"))]
  /\ UNCHANGED <<cluster, remote>> /\ BFrame

(* The GarageKey's side of the union: its declaration counts once it is    *)
(* authorised and the GarageKey controller has reserved it.                *)
KeyReserves == key.wide \/ bw.id \in key.mBuckets
KeyDeclares == key.all \/ key.bp.on
KeyGives == (IF key.all THEN Perm ELSE {}) \cup (IF key.bp.on THEN key.bp.p ELSE {})

\* Mutant: only the bucket's own declaration counts.
IgnoreKeyPermissions ==
  /\ B("union")
  /\ bw' = [bw EXCEPT !.pc = "apply", !.tgt = IF KeyReserves /\ key.id # 0 THEN @ \cup {key.id} ELSE @]
  /\ UNCHANGED <<bucket, cluster, remote>> /\ BFrame

UnionKeyPermissions ==
  /\ B("union")
  /\ bw' = IF key.id = 0 THEN [bw EXCEPT !.pc = "apply"]
           ELSE [bw EXCEPT !.pc = "apply",
                   !.tgt = IF KeyReserves THEN @ \cup {key.id} ELSE @,
                   !.err = @ \/ (KeyDeclares /\ ~Permitted("key-bucket")),
                   !.des[key.id] = IF KeyDeclares /\ Permitted("key-bucket") /\ KeyReserves
                                   THEN @ \cup KeyGives ELSE @]
  /\ UNCHANGED <<bucket, cluster, remote>> /\ BFrame

ApplyKeyPermissions ==
  /\ B("apply")
  /\ \E k \in bw.tgt :
       /\ remote' = Exact(remote, bw.id, k, bw.seen.perm[k], bw.des[k])
       /\ bw' = [bw EXCEPT !.tgt = @ \ {k},
                           !.err = @ \/ ExactFails(bw.id, k, bw.seen.perm[k], bw.des[k])]
  /\ UNCHANGED <<bucket, cluster>> /\ BFrame

(* The reservation is narrowed to what is declared only when everything    *)
(* else was revoked.                                                       *)
NarrowKeyGrants ==
  /\ B("apply") /\ bw.tgt = {}
  /\ LET next == [bucket EXCEPT !.mKeys = bw.man] IN
     \/ bw.err /\ Fail
     \/ /\ ~bw.err /\ (bw.man = bw.obj.mKeys \/ bucket.ver = bw.obj.ver)
        /\ bucket' = next
        /\ bw' = [bw EXCEPT !.obj = IF bw.man = bw.obj.mKeys THEN @ ELSE next, !.pc = "local"]
     \/ /\ ~bw.err /\ bw.man # bw.obj.mKeys /\ bucket.ver # bw.obj.ver
        /\ Leave([next EXCEPT !.phase = "Failed"])
  /\ UNCHANGED <<cluster, remote>> /\ BFrame

-----------------------------------------------------------------------------
(* reconcileLocalAliases: reserve, add, remove, narrow.                    *)

LocalDesired == {key.id} \X bw.obj.la

ReserveLocalAliases ==
  /\ B("local")
  /\ \/ bw.obj.la # {} /\ key.id = 0 /\ Fail
     \/ /\ bw.obj.la = {} \/ key.id # 0
        /\ LET next == [bucket EXCEPT !.mLocal = bw.obj.mLocal \cup LocalDesired] IN
           /\ bucket' = next
           /\ bw' = [bw EXCEPT !.obj = next, !.man = LocalDesired, !.tgt = LocalDesired,
                               !.pc = "localAdd"]
  /\ UNCHANGED <<cluster, remote>> /\ BFrame

AddLocalAlias ==
  /\ B("localAdd")
  /\ \E l \in bw.tgt :
       IF IsBucket(bw.id) /\ IsKey(l[1]) /\ \A b \in BucketId \ {bw.id} : l \notin remote.local[b]
       THEN /\ remote' = [remote EXCEPT !.local[bw.id] = @ \cup {l}]
            /\ bw' = [bw EXCEPT !.tgt = @ \ {l}]
            /\ UNCHANGED bucket
       ELSE Fail /\ UNCHANGED remote
  /\ UNCHANGED cluster /\ BFrame

\* Mutant: nothing is removed before the status is narrowed.
KeepLocalAliases ==
  /\ B("localAdd") /\ bw.tgt = {} /\ UNCHANGED remote
  /\ Go("localDone") /\ UNCHANGED cluster /\ BFrame

RemoveLocalAliases ==
  /\ B("localAdd") /\ bw.tgt = {}
  /\ remote' = [remote EXCEPT !.local[bw.id] =
                  @ \ ((bw.obj.mLocal \ bw.man) \cap bw.seen.local)]
  /\ Go("localDone") /\ UNCHANGED cluster /\ BFrame

NarrowLocalAliases ==
  /\ B("localDone") /\ Persist([bucket EXCEPT !.mLocal = bw.man], "life")
  /\ UNCHANGED <<cluster, remote>> /\ BFrame

-----------------------------------------------------------------------------
(* reconcileLifecycleSafe never fails the reconcile; its outcome waits in  *)
(* the worker's copy of the status.  A Garage older than v2.3.0 accepts    *)
(* the write and ignores it, which the readback detects.                   *)

SkipLifecycle == bw.obj.life = 0 /\ bw.obj.rules = 0 /\ bw.obj.rulesSet = "none"
Applied(r) == r.rules[bw.id] = bw.obj.life
SetLifecycle(r) == IF r.old THEN r ELSE [r EXCEPT !.rules[bw.id] = bw.obj.life]
WithLifecycle(b, ok) == IF ok THEN [b EXCEPT !.rules = b.life, !.rulesSet = "true"]
                        ELSE [b EXCEPT !.rulesSet = "false"]

ReconcileLifecycleSafe ==
  /\ B("life")
  /\ \/ SkipLifecycle /\ Go("status") /\ UNCHANGED remote
     \/ /\ ~SkipLifecycle /\ ~Applied(remote)
        /\ remote' = SetLifecycle(remote)
        /\ Go("verify")
     \/ /\ ~SkipLifecycle /\ Applied(remote)
        /\ bw' = [bw EXCEPT !.pc = "status", !.obj = WithLifecycle(@, TRUE)]
        /\ UNCHANGED <<bucket, remote>>
  /\ UNCHANGED cluster /\ BFrame

\* Mutant: an accepted write is taken for an applied one.
TrustLifecycleWrite ==
  /\ B("verify")
  /\ bw' = [bw EXCEPT !.pc = "status", !.obj = WithLifecycle(@, TRUE)]
  /\ UNCHANGED <<bucket, cluster, remote>> /\ BFrame

VerifyLifecycleApplied ==
  /\ B("verify")
  /\ bw' = [bw EXCEPT !.pc = "status", !.obj = WithLifecycle(@, Applied(remote))]
  /\ UNCHANGED <<bucket, cluster, remote>> /\ BFrame

(* updateStatusFromGarage.  Clearing a counter is a write of its own: it   *)
(* leaves the worker with the stored status, without the lifecycle outcome.*)
(* A bucket that has gone is noticed only if it is read again.             *)
UpdateStatusFromGarage ==
  /\ B("status") /\ remote.sick = "ok"
  /\ LET healed == bw.obj.timeouts > 0 \/ bw.obj.decodes > 0
         read == IF healed THEN bucket ELSE [bucket EXCEPT !.rules = bw.obj.rules,
                                                           !.rulesSet = bw.obj.rulesSet]
         ver == IF healed THEN bucket.ver ELSE bw.obj.ver IN
     \/ Leave([read EXCEPT !.timeouts = 0, !.decodes = 0, !.stuck = FALSE,
                           !.phase = "Ready", !.og = ver])
     \/ ~IsBucket(bw.id) /\ Fail
  /\ UNCHANGED <<cluster, remote>> /\ BFrame

-----------------------------------------------------------------------------
(* A lookup that hangs or does not decode.  It is no failure of the        *)
(* reconcile: it is counted, and from the threshold on reported; a decode  *)
(* error then asks the cluster for a repair of its tables.                 *)

\* Mutant: the counter is never written.
ForgetCount(n) == n

Bump(n) == IF n < LookupThreshold THEN n + 1 ELSE n
LooksUp == \E pc \in {"resolve", "status"} : B(pc)

BucketLookupTimeout ==
  /\ LooksUp /\ remote.sick = "hang"
  /\ LET n == Bump(bw.obj.timeouts) IN
     Leave([bucket EXCEPT !.timeouts = n, !.stuck = @ \/ n >= LookupThreshold])
  /\ UNCHANGED <<cluster, remote>> /\ BFrame

\* Mutant: a repair type Garage does not have.
BucketDecodeErrorScrub ==
  /\ LooksUp /\ remote.sick = "decode"
  /\ Leave(bucket) /\ cluster' = [cluster EXCEPT !.repair = "Scrub"]
  /\ UNCHANGED remote /\ BFrame

BucketDecodeError ==
  /\ LooksUp /\ remote.sick = "decode"
  /\ LET n == Bump(bw.obj.decodes) IN
     /\ Leave([bucket EXCEPT !.decodes = n])
     /\ cluster' = [cluster EXCEPT !.repair =
                      IF n >= LookupThreshold /\ @ = "none" THEN "Tables" ELSE @]
  /\ UNCHANGED remote /\ BFrame

-----------------------------------------------------------------------------
(* finalize: every durable identity must agree before anything is deleted. *)

\* Mutant: a reservation without a recorded ID is a disagreement.
FinalizeRecordedBucket ==
  /\ B("finalize") /\ remote.sick = "ok"
  /\ LET recorded == IF bw.obj.id # 0 THEN bw.obj.id ELSE bw.obj.want IN
     IF Reserved(bw.obj) \notin {0, recorded} \/ recorded \in remote.full
     THEN bw' = Idle(NoBucket) /\ UNCHANGED remote
     ELSE /\ remote' = IF recorded = 0 THEN remote ELSE DeleteBucket(remote, recorded)
          /\ bw' = [bw EXCEPT !.pc = "drop"]
  /\ UNCHANGED <<bucket, cluster>> /\ BFrame

FinalizeBucket ==
  /\ B("finalize") /\ remote.sick = "ok"
  /\ LET b == bw.obj
         recorded == IF b.id # 0 THEN b.id ELSE b.want
         id == IF Reserved(b) # 0 THEN Reserved(b) ELSE recorded
         disagree == \/ b.id # 0 /\ b.want # 0 /\ b.id # b.want
                     \/ Reserved(b) # 0 /\ recorded \notin {0, Reserved(b)} IN
     \/ /\ disagree \/ id \in remote.full   \* BucketNotEmpty
        /\ bw' = Idle(NoBucket) /\ UNCHANGED remote
     \/ /\ ~disagree /\ id \notin remote.full
        /\ remote' = IF id = 0 THEN remote ELSE DeleteBucket(remote, id)
        /\ bw' = [bw EXCEPT !.pc = "drop"]
  /\ UNCHANGED <<bucket, cluster>> /\ BFrame

DropBucketFinalizer ==
  /\ B("drop")
  /\ Leave(NoBucket)
  /\ UNCHANGED <<cluster, remote>> /\ BFrame

(* A crash, a refused call, or a call whose effect happened and whose      *)
(* answer was lost (the step before this one).                             *)
BucketFault ==
  /\ ~B("idle") /\ Fault
  /\ \/ bw' = Idle(NoBucket) /\ UNCHANGED bucket
     \/ ~bw.obj.del /\ Fail
  /\ UNCHANGED <<focus, key, secrets, source, snapshot, kw, token, edits, cluster, remote>> /\ TenantWatch

BucketNext ==
  \/ StartBucket \/ CleanupIncompleteUploads \/ RemoveCleanupAnnotation
  \/ GetOrCreateBucket \/ CreateReservedBucket \/ PersistBucketID
  \/ RemoveAbandonedAlias \/ ClearAbandonedAlias \/ ReserveGlobalAlias \/ AddGlobalAlias
  \/ RemovePreviousAlias \/ CompleteAliasHandoff
  \/ RemoveReservationAlias \/ ClearReservationAnnotation \/ UpdateBucketSettings
  \/ ReserveKeyGrants \/ UnionKeyPermissions \/ ApplyKeyPermissions \/ NarrowKeyGrants
  \/ ReserveLocalAliases \/ AddLocalAlias \/ RemoveLocalAliases \/ NarrowLocalAliases
  \/ ReconcileLifecycleSafe \/ VerifyLifecycleApplied \/ UpdateStatusFromGarage
  \/ BucketLookupTimeout \/ BucketDecodeError
  \/ FinalizeBucket \/ DropBucketFinalizer
=============================================================================
