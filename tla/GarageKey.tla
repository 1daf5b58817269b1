----------------------------- MODULE GarageKey -----------------------------
(***************************************************************************)
(* The GarageKey controller: one worker that takes a GarageKey from its    *)
(* spec to an access key in Garage, its bucket permissions, and a Secret   *)
(* with the credential.  Steps are cut as in GarageBucket.                 *)
(***************************************************************************)
EXTENDS TenantState

K(pc) == kw.pc = pc
KFrame == UNCHANGED <<focus, cluster, bucket, source, bw, token, edits, faults>> /\ TenantWatch

KPersist(k, pc) == key' = k /\ kw' = [kw EXCEPT !.obj = k, !.pc = pc]
KLeave(k) == key' = k /\ kw' = KeyIdle(NoKey)
KFail == KLeave([key EXCEPT !.phase = "Failed"])
KGo(pc) == kw' = [kw EXCEPT !.pc = pc] /\ UNCHANGED key

(* An error of the key or of its permissions is held back until the Secret *)
(* was reconciled, when the key has an identity; full says whether Garage  *)
(* has told the secret half of the credential.                             *)
KError(k) == IF k.id = 0 THEN KLeave([k EXCEPT !.phase = "Failed"])
             ELSE key' = k /\ kw' = [kw EXCEPT !.obj = k, !.pc = "mark", !.err = TRUE]

StartKey ==
  /\ K("idle") /\ key.uid # 0 /\ (Concurrent \/ focus # "perms" \/ bw.pc = "idle")
  /\ \/ /\ key.del /\ key.fin /\ cluster.state = "gone"
        /\ key' = NoKey /\ UNCHANGED kw
     \/ /\ key.del /\ key.fin /\ cluster.state # "gone"
        /\ kw' = [KeyIdle(key) EXCEPT !.pc = "finalize"] /\ UNCHANGED key
     \/ /\ ~key.del /\ ~Permitted("key-cluster")
        /\ key' = [key EXCEPT !.phase = "Failed"] /\ UNCHANGED kw
     \/ /\ ~key.del /\ Permitted("key-cluster") /\ cluster.state # "Running"
        /\ key' = [key EXCEPT !.phase = "Pending"] /\ UNCHANGED kw
     \/ /\ ~key.del /\ Permitted("key-cluster") /\ cluster.state = "Running"
        /\ IF key.fin
           THEN kw' = [KeyIdle(key) EXCEPT !.pc = "resolve"] /\ UNCHANGED key
           ELSE key' = [key EXCEPT !.fin = TRUE] /\ UNCHANGED kw
  /\ UNCHANGED <<secrets, snapshot, remote>> /\ KFrame

-----------------------------------------------------------------------------
(* getOrCreateKey.                                                         *)

LearnKey(id) ==
  kw' = [kw EXCEPT !.id = id, !.full = TRUE, !.cur = [b \in BucketId |-> remote.perm[b][id]],
                   !.pc = IF kw.obj.id = id THEN "perms" ELSE "bind"]

\* Mutant: an import follows its mutable source.
GetSourceKey ==
  /\ K("resolve") /\ IsKey(kw.obj.id)
  /\ LET id == IF kw.obj.imp = "ref" THEN source ELSE kw.obj.id IN
     /\ remote' = ImportKey(remote, id, kw.obj.uid, kw.obj.renamed)
     /\ LearnKey(id)
  /\ UNCHANGED <<key, secrets, snapshot>> /\ KFrame

(* The recorded key: its display name is brought up to date (updateKeyIfNeeded). *)
GetTrackedKey ==
  /\ K("resolve") /\ IsKey(kw.obj.id)
  /\ remote' = [remote EXCEPT !.name[kw.obj.id] = kw.obj.renamed]
  /\ LearnKey(kw.obj.id)
  /\ UNCHANGED <<key, secrets, snapshot>> /\ KFrame

(* ensureImportKeySnapshot: mutable import material is copied once, into a *)
(* Secret this object owns; afterwards the source is never read again.     *)
EnsureImportKeySnapshot ==
  /\ K("resolve") /\ ~IsKey(kw.obj.id) /\ kw.obj.imp = "ref"
  /\ \/ snapshot.by = kw.obj.uid /\ KGo("pin") /\ UNCHANGED snapshot
     \/ snapshot.by \notin {0, kw.obj.uid} /\ KError(key) /\ UNCHANGED snapshot
     \/ snapshot.by = 0 /\ snapshot' = [by |-> kw.obj.uid, id |-> source] /\ KGo("pin")
  /\ UNCHANGED <<secrets, remote>> /\ KFrame

(* The identity is pinned before the import; a key that is already there   *)
(* with this material is adopted.                                          *)
PinImport ==
  /\ K("pin")
  /\ \/ kw.obj.pin \notin {0, snapshot.id} /\ KError(key)
     \/ /\ kw.obj.pin \in {0, snapshot.id} /\ IsKey(snapshot.id)
        /\ LearnKey(snapshot.id) /\ UNCHANGED key
     \/ /\ kw.obj.pin \in {0, snapshot.id} /\ ~IsKey(snapshot.id)
        /\ KPersist([key EXCEPT !.pin = snapshot.id], "import")
  /\ UNCHANGED <<secrets, snapshot, remote>> /\ KFrame

ImportPinnedKey ==
  /\ K("import")
  /\ IF remote.key[snapshot.id] = "free"
     THEN /\ remote' = ImportKey(remote, snapshot.id, kw.obj.uid, kw.obj.renamed)
          /\ LearnKey(snapshot.id) /\ UNCHANGED key
     ELSE KError(key) /\ UNCHANGED remote
  /\ UNCHANGED <<secrets, snapshot>> /\ KFrame

(* createOrAdoptDeterministic: an identity from before v0.7.4 is adopted;  *)
(* otherwise the derived one is imported, or adopted when it is there.  A  *)
(* tombstone blocks it for ever: a fresh nonce is recorded for the retry.  *)
CreateOrAdoptDeterministic ==
  /\ K("resolve") /\ ~IsKey(kw.obj.id) /\ kw.obj.imp = "none"
  /\ LET id == Derived(kw.obj.nonce)
         legacy == kw.obj.id = 0 /\ kw.obj.renamed /\ kw.obj.nonce = 0 /\ IsKey(Legacy) IN
     \/ /\ legacy
        /\ remote' = [remote EXCEPT !.name[Legacy] = TRUE]
        /\ LearnKey(Legacy) /\ UNCHANGED key
     \/ /\ ~legacy /\ remote.key[id] = "free"
        /\ remote' = ImportKey(remote, id, kw.obj.uid, kw.obj.renamed)
        /\ LearnKey(id) /\ UNCHANGED key
     \/ /\ ~legacy /\ remote.key[id] = "live"
        /\ remote' = [remote EXCEPT !.name[id] = kw.obj.renamed]
        /\ LearnKey(id) /\ UNCHANGED key
     \/ /\ ~legacy /\ remote.key[id] = "tombstone" /\ kw.obj.nonce < MaxNonce
        /\ KError([key EXCEPT !.nonce = @ + 1]) /\ UNCHANGED remote
  /\ UNCHANGED <<secrets, snapshot>> /\ KFrame

PersistAccessKeyID ==
  /\ K("bind") /\ KPersist([key EXCEPT !.id = kw.id], "perms")
  /\ UNCHANGED <<secrets, snapshot, remote>> /\ KFrame

-----------------------------------------------------------------------------
(* reconcileManagedBucketPermissions: the mirror image of the bucket's     *)
(* reconcileKeyPermissions, with allBuckets in addition.                   *)

KeyRefers == kw.obj.bp.on /\ Permitted("key-bucket")
KeyPending == KeyRefers /\ bucket.id = 0
KeyDesired ==
  [b \in BucketId |-> (IF kw.obj.all /\ IsBucket(b) THEN Perm ELSE {})
                      \cup (IF KeyRefers /\ b = bucket.id THEN kw.obj.bp.p ELSE {})]
KeyManaged == IF KeyRefers THEN {bucket.id} ELSE {}
KeyUnauthorized == IF kw.obj.bp.on /\ ~KeyRefers /\ bucket.id # 0 THEN {bucket.id} ELSE {}
ListedBuckets == IF kw.obj.all THEN {b \in BucketId : IsBucket(b)} ELSE {}

ReserveBucketGrants ==
  /\ K("perms")
  /\ \/ KeyPending /\ KError(key)
     \/ /\ ~KeyPending
        /\ LET next == [key EXCEPT !.mBuckets = kw.obj.mBuckets \cup KeyManaged,
                                   !.wide = kw.obj.wide \/ kw.obj.all]
               same == next.mBuckets = kw.obj.mBuckets /\ next.wide = kw.obj.wide IN
           IF ~same /\ key.ver # kw.obj.ver THEN KError(next)
           ELSE /\ key' = next
                /\ kw' = [kw EXCEPT !.obj = IF same THEN @ ELSE next, !.pc = "union",
                            !.des = KeyDesired, !.man = KeyManaged,
                            !.err = kw.obj.bp.on /\ ~KeyRefers,
                            !.tgt = next.mBuckets \cup KeyManaged \cup ListedBuckets
                                    \cup KeyUnauthorized
                                    \cup (IF next.wide THEN {b \in BucketId : kw.cur[b] # {}}
                                          ELSE {})]
  /\ UNCHANGED <<secrets, snapshot, remote>> /\ KFrame

BucketIdentity == IF bucket.id # 0 THEN bucket.id ELSE bucket.want
BucketReserves == kw.id \in bucket.mKeys

UnionBucketPermissions ==
  /\ K("union")
  /\ kw' = IF BucketIdentity = 0 THEN [kw EXCEPT !.pc = "apply"]
           ELSE [kw EXCEPT !.pc = "apply",
                   !.tgt = IF BucketReserves THEN @ \cup {BucketIdentity} ELSE @,
                   !.err = @ \/ (bucket.kp.on /\ ~Permitted("bucket-key")),
                   !.des[BucketIdentity] = IF bucket.kp.on /\ Permitted("bucket-key") /\ BucketReserves
                                           THEN @ \cup bucket.kp.p ELSE @]
  /\ UNCHANGED <<key, secrets, snapshot, remote>> /\ KFrame

ApplyBucketPermissions ==
  /\ K("apply")
  /\ \E b \in kw.tgt :
       /\ remote' = Exact(remote, b, kw.id, kw.cur[b], kw.des[b])
       /\ kw' = [kw EXCEPT !.tgt = @ \ {b},
                           !.err = @ \/ ExactFails(b, kw.id, kw.cur[b], kw.des[b])]
  /\ UNCHANGED <<key, secrets, snapshot>> /\ KFrame

NarrowBucketGrants ==
  /\ K("apply") /\ kw.tgt = {}
  /\ LET next == [key EXCEPT !.mBuckets = kw.man, !.wide = kw.obj.all]
         same == kw.man = kw.obj.mBuckets /\ kw.obj.wide = kw.obj.all IN
     \/ kw.err /\ KError(key)
     \/ /\ ~kw.err /\ (same \/ key.ver = kw.obj.ver)
        /\ key' = next
        /\ kw' = [kw EXCEPT !.obj = IF same THEN @ ELSE next, !.pc = "mark"]
     \/ ~kw.err /\ ~same /\ key.ver # kw.obj.ver /\ KError(next)
  /\ UNCHANGED <<secrets, snapshot, remote>> /\ KFrame

-----------------------------------------------------------------------------
(* reconcileSecret.  Both Secrets of a rename are labelled before the      *)
(* status moves on, so that a crash never loses sight of a credential.     *)

NoSecret == [by |-> 0, label |-> 0, full |-> FALSE]

\* Mutant: the previous Secret gets no label.
SkipPreviousSecret ==
  /\ K("mark") /\ KGo("publish") /\ UNCHANGED <<secrets, snapshot, remote>> /\ KFrame

MarkPreviousGeneratedSecret ==
  /\ K("mark")
  /\ LET old == kw.obj.sref  uid == kw.obj.uid IN
     IF old # NoAlias /\ secrets[old].by \notin {0, uid} THEN KFail /\ UNCHANGED secrets
     ELSE /\ secrets' = IF old # NoAlias /\ secrets[old].by = uid
                        THEN [secrets EXCEPT ![old].label = uid] ELSE secrets
          /\ KGo("publish")
  /\ UNCHANGED <<snapshot, remote>> /\ KFrame

PublishSecret ==
  /\ K("publish")
  /\ LET name == kw.obj.sec  uid == kw.obj.uid IN
     IF secrets[name].by \notin {0, uid} THEN KFail /\ UNCHANGED secrets
     ELSE /\ secrets' = [secrets EXCEPT ![name] =
                           [by |-> uid, label |-> uid, full |-> kw.full \/ @.full]]
          /\ kw' = [kw EXCEPT !.obj.sref = name, !.pc = "handoff"] /\ UNCHANGED key
  /\ UNCHANGED <<snapshot, remote>> /\ KFrame

(* finishGarageKeySecretHandoff.                                           *)
PersistSecretRef ==
  /\ K("handoff")
  /\ IF kw.obj.sref = key.sref THEN KGo("sweep")
     ELSE LET next == [key EXCEPT !.sref = kw.obj.sref] IN
          key' = next /\ kw' = [kw EXCEPT !.obj = next, !.pc = "sweep"]
  /\ UNCHANGED <<secrets, snapshot, remote>> /\ KFrame

\* Mutant: the Secrets of earlier names stay.
KeepStaleSecrets ==
  /\ K("sweep") /\ UNCHANGED secrets
  /\ IF kw.err THEN KFail ELSE KGo("status")
  /\ UNCHANGED <<snapshot, remote>> /\ KFrame

CleanupStaleGeneratedSecrets ==
  /\ K("sweep")
  /\ LET uid == kw.obj.uid IN
     secrets' = [s \in SecretName |->
                   IF s # kw.obj.sref /\ secrets[s].label = uid /\ secrets[s].by = uid
                   THEN NoSecret ELSE secrets[s]]
  /\ IF kw.err THEN KFail ELSE KGo("status")
  /\ UNCHANGED <<snapshot, remote>> /\ KFrame

(* updateStatusFromGarage: a key that is gone loses its recorded ID.       *)
(* clusterWide follows the spec in hand, which a conflict in the Secret    *)
(* handoff has replaced by a newer one than the grants were made for.      *)
UpdateKeyStatus ==
  /\ K("status")
  /\ IF IsKey(kw.obj.id)
     THEN KLeave([key EXCEPT !.phase = "Ready", !.wide = kw.obj.all,
                             !.lost = @ \/ (key.wide /\ ~kw.obj.all)])
     ELSE KLeave([key EXCEPT !.id = 0])
  /\ UNCHANGED <<secrets, snapshot, remote>> /\ KFrame

-----------------------------------------------------------------------------
(* finalize: which keys are this object's, decided from status, spec and   *)
(* snapshot, or derived when nothing was recorded.                         *)

DeterministicIDs ==
  {id \in {Derived(kw.obj.nonce)} \cup (IF kw.obj.renamed /\ kw.obj.nonce = 0 THEN {Legacy} ELSE {}) :
     IsKey(id)}
RecordedIDs ==
  ({kw.obj.id} \cup (IF kw.obj.imp = "ref" /\ snapshot.by = kw.obj.uid THEN {snapshot.id} ELSE {}))
  \ {0}
Refuses ==
  \/ Cardinality(RecordedIDs) > 1
  \/ kw.obj.imp = "ref" /\ (snapshot.by \notin {0, kw.obj.uid} \/ RecordedIDs = {})
  \/ kw.obj.pin # 0 /\ RecordedIDs # {kw.obj.pin}

FinalizeKey ==
  /\ K("finalize")
  /\ IF kw.obj.imp = "none" /\ kw.obj.id = 0 /\ kw.obj.pin = 0
     THEN kw' = [kw EXCEPT !.tgt = DeterministicIDs, !.pc = "revoke"]
     ELSE kw' = IF Refuses THEN KeyIdle(NoKey)
                ELSE [kw EXCEPT !.tgt = RecordedIDs, !.pc = "revoke"]
  /\ UNCHANGED <<key, secrets, snapshot, remote>> /\ KFrame

(* The recorded grants are revoked one by one before the key is deleted:   *)
(* DeleteKey does the same, but may hang on one of them.                   *)
RevokeAndDeleteKey ==
  /\ K("revoke")
  /\ \E id \in kw.tgt : remote' = DeleteKey(remote, id) /\ kw' = [kw EXCEPT !.tgt = @ \ {id}]
  /\ UNCHANGED <<key, secrets, snapshot>> /\ KFrame

DropKeyFinalizer ==
  /\ K("revoke") /\ kw.tgt = {}
  /\ KLeave(NoKey)
  /\ UNCHANGED <<secrets, snapshot, remote>> /\ KFrame

(* A crash, a refused call or a lost answer; an error before the Secret    *)
(* part is held back as KError says.                                       *)
InKeyPart == kw.pc \in {"resolve", "pin", "import", "bind", "perms", "union", "apply"}
KeyFault ==
  /\ ~K("idle") /\ Fault
  /\ \/ kw' = KeyIdle(NoKey) /\ UNCHANGED key
     \/ InKeyPart /\ KError(key)
     \/ ~InKeyPart /\ ~kw.obj.del /\ KFail
  /\ UNCHANGED <<focus, cluster, bucket, source, bw, token, edits, secrets, snapshot, remote>> /\ TenantWatch

(* The garbage collector removes what a deleted GarageKey owned.           *)
CollectKeySecrets ==
  /\ \/ /\ snapshot.by \notin {0, key.uid}
        /\ snapshot' = [by |-> 0, id |-> 0] /\ UNCHANGED secrets
     \/ \E s \in SecretName :
          /\ secrets[s].by \notin {0, key.uid}
          /\ secrets' = [secrets EXCEPT ![s] = NoSecret] /\ UNCHANGED snapshot
  /\ UNCHANGED <<key, kw, remote>> /\ KFrame

KeyNext ==
  \/ StartKey \/ GetTrackedKey \/ EnsureImportKeySnapshot \/ PinImport \/ ImportPinnedKey
  \/ CreateOrAdoptDeterministic \/ PersistAccessKeyID
  \/ ReserveBucketGrants \/ UnionBucketPermissions \/ ApplyBucketPermissions \/ NarrowBucketGrants
  \/ MarkPreviousGeneratedSecret \/ PublishSecret \/ PersistSecretRef \/ CleanupStaleGeneratedSecrets
  \/ UpdateKeyStatus \/ FinalizeKey \/ RevokeAndDeleteKey \/ DropKeyFinalizer \/ CollectKeySecrets
=============================================================================
