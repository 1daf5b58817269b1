--------------------------- MODULE TenancyProofs ---------------------------
(***************************************************************************)
(* Theorems about the tenant controllers that hold for every set of        *)
(* permissions and aspects, and every bound on incarnations, edits and     *)
(* faults.                                                                 *)
(***************************************************************************)
EXTENDS Tenancy, TLAPS, FiniteSetTheorems, WellFoundedInduction

-----------------------------------------------------------------------------
(* Types.                                                                  *)

Ids == BucketId \cup {0}
KeyIds == KeyId \cup {0}
Locals == SUBSET (KeyId \X LocalAlias)
Phases == {"", "Ready", "Failed", "Pending"}
Perms == [KeyId -> SUBSET Perm]
Buckets ==
  [uid : UID, del : BOOLEAN, fin : BOOLEAN, ver : 0..MaxEdits, og : 0..MaxEdits,
   rsv : BOOLEAN, mpu : BOOLEAN, want : {0, Foreign}, alias : {"a1", "a2"},
   kp : Decl, la : SUBSET LocalAlias, cfg : 0..1, life : 0..1,
   id : Ids, mAlias : Alias \cup {NoAlias}, pAlias : Alias \cup {NoAlias}, mKeys : SUBSET KeyId,
   mLocal : Locals, phase : Phases, rules : 0..1, rulesSet : {"none", "true", "false"},
   timeouts : 0..LookupThreshold, stuck : BOOLEAN, decodes : 0..LookupThreshold]
Keys ==
  [uid : UID, del : BOOLEAN, fin : BOOLEAN, ver : 0..MaxEdits, nonce : 0..MaxNonce,
   renamed : BOOLEAN, imp : {"none", "ref"}, pin : KeyIds, bp : Decl, all : BOOLEAN,
   sec : SecretName, id : KeyIds, mBuckets : SUBSET BucketId, wide : BOOLEAN,
   sref : SecretName \cup {NoAlias}, phase : Phases, lost : BOOLEAN]
Secrets == [SecretName -> [by : UID, label : UID, full : BOOLEAN]]
Grants ==
  [to : [{"c", "k"} -> SUBSET {"GarageCluster", "GarageBucket", "GarageKey"}],
   inUse : [{"c", "k"} -> BOOLEAN], queue : SUBSET {"c", "k"}]
Garages ==
  [bucket : [BucketId -> {"free", "live", "deleted"}], by : [BucketId -> UID],
   alias : [Alias -> Ids], key : [KeyId -> {"free", "live", "tombstone"}],
   keyBy : [KeyId -> UID], name : [KeyId -> BOOLEAN], perm : [BucketId -> Perms],
   local : [BucketId -> Locals], cfg : [BucketId -> 0..1], rules : [BucketId -> 0..1],
   full : SUBSET BucketId, old : BOOLEAN, sick : {"ok", "hang", "decode"}, uploads : BOOLEAN]

\* Where the worker of a bucket holds the bucket of Garage it has resolved.
Holding ==
  {"bind", "alias", "abandoned", "aliasAdd", "aliasDrop", "aliasDone", "unreserve", "unannotate",
   "settings", "perms", "union", "apply", "local", "localAdd", "localDone", "life", "verify", "status"}
Working == {"cleanup", "cleaned", "resolve", "create"} \cup Holding
BPoints == {"idle", "finalize", "drop"} \cup Working
Seens == [alias : SUBSET Alias, perm : Perms, local : Locals, cfg : 0..1]
BWorkers ==
  [pc : BPoints, obj : Buckets, id : Ids, name : {"a1", "a2", NoAlias}, seen : Seens, des : Perms,
   man : SUBSET (KeyId \cup (KeyId \X LocalAlias)), tgt : SUBSET (KeyId \cup (KeyId \X LocalAlias)),
   err : BOOLEAN]

KHolding == {"bind", "perms", "union", "apply"}
KWorking == {"resolve", "pin", "import", "mark", "publish", "handoff", "sweep", "status"} \cup KHolding
KEarly == {"resolve", "pin", "import"} \cup KHolding
KPoints == {"idle", "finalize", "revoke"} \cup KWorking
KWorkers ==
  [pc : KPoints, obj : Keys, id : KeyIds, full : BOOLEAN, cur : [BucketId -> SUBSET Perm],
   des : [BucketId -> SUBSET Perm], man : SUBSET BucketId, tgt : SUBSET (BucketId \cup KeyId),
   err : BOOLEAN]
Tokens ==
  [uid : Nat, del : BOOLEAN, fin : BOOLEAN, ver : Nat, digest : Nat, phase : Phases,
   sec : [by : Nat, val : Nat], lost : SUBSET Nat, consumed : BOOLEAN, next : Nat, pc : {"idle", "secret", "status", "finalize", "drop"},
   read : Nat, new : Nat]

\* The types of the variables, and what the workers hold at their points.
Typed ==
  /\ focus \in Focus
  /\ cluster \in [state : {"Running", "deleting", "gone"}, repair : {"none", "Blocks", "Tables"}]
  /\ bucket \in Buckets /\ key \in Keys /\ secrets \in Secrets /\ source \in Material
  /\ snapshot \in [by : UID, id : KeyIds] /\ grants \in Grants /\ remote \in Garages
  /\ bw \in BWorkers /\ kw \in KWorkers /\ token \in Tokens
  /\ edits \in 0..MaxEdits /\ faults \in 0..MaxFaults
  /\ bucket.ver <= edits /\ key.ver <= edits

BucketWorker ==
  /\ bw.pc \in Holding => bw.id # 0
  /\ bw.pc \in Working => bw.name # NoAlias
  /\ bw.pc \in {"union", "apply"} => bw.man \subseteq KeyId /\ bw.tgt \subseteq KeyId
  /\ bw.pc \in {"localAdd", "localDone"} => bw.man \in Locals /\ bw.tgt \in Locals
KeyWorker ==
  /\ kw.pc \in KHolding => kw.id # 0
  /\ kw.pc \in KEarly => kw.tgt \subseteq BucketId
  /\ kw.pc = "revoke" => kw.tgt \subseteq KeyId

-----------------------------------------------------------------------------
(* The aspects: what a behaviour about one of them never touches.          *)

BucketOnly == {"bucket", "alias", "settings", "lookup", "lostBucket"}
KeyOnly == {"key", "legacy", "import", "secret", "lostKey"}

Absent ==
  /\ focus \in KeyOnly \cup {"token"} => bucket = NoBucket /\ bw.pc = "idle"
  /\ focus \in BucketOnly \cup {"token"} => key = NoKey /\ kw.pc = "idle"
  /\ cluster.state # "Running" => focus \in {"bucket", "key", "token"}

(* The objects, and what a reconcile knows of its own: nobody but the      *)
(* worker writes what is not the user's.                                   *)

SameStatus(b, c) ==
  /\ b.uid = c.uid /\ b.fin = c.fin /\ b.rsv = c.rsv /\ b.want = c.want /\ b.id = c.id
  /\ b.mAlias = c.mAlias /\ b.pAlias = c.pAlias /\ b.mKeys = c.mKeys /\ b.mLocal = c.mLocal
SameSpec(b, c) ==
  b.alias = c.alias /\ b.kp = c.kp /\ b.la = c.la /\ b.cfg = c.cfg /\ b.life = c.life

BucketObject ==
  /\ bucket.uid = 0 => bucket = NoBucket
  /\ ~bucket.fin => bucket.id = 0 /\ ~bucket.rsv
  /\ bucket.og <= bucket.ver
  /\ bw.pc = "idle" => bw.obj = NoBucket
  /\ bw.pc # "idle" =>
       /\ bucket.uid # 0 /\ bucket.fin
       /\ SameStatus(bw.obj, bucket)
       /\ bucket.og <= bw.obj.ver /\ bw.obj.ver <= bucket.ver
       /\ bw.obj.del => bucket.del
       /\ bw.obj.ver = bucket.ver => SameSpec(bw.obj, bucket)
  /\ bw.pc \in {"finalize", "drop"} => bw.obj = bucket /\ bucket.del

SameKey(k, l) ==
  /\ k.uid = l.uid /\ k.fin = l.fin /\ k.nonce = l.nonce /\ k.imp = l.imp /\ k.pin = l.pin
  /\ k.id = l.id /\ k.mBuckets = l.mBuckets /\ k.wide = l.wide

KeyObject ==
  /\ key.uid = 0 => key = NoKey
  /\ ~key.fin => key.id = 0 /\ key.nonce = 0 /\ key.pin = 0
  /\ key.imp = "none" => key.pin = 0
  /\ kw.pc = "idle" => kw.obj = NoKey
  /\ kw.pc # "idle" =>
       /\ key.uid # 0 /\ key.fin
       /\ SameKey(kw.obj, key)
       /\ kw.obj.ver <= key.ver
       /\ kw.obj.del => key.del
       /\ kw.pc # "handoff" => kw.obj.sref = key.sref
  /\ kw.pc \in {"finalize", "revoke"} => kw.obj = key /\ key.del
  /\ focus # "key" /\ kw.pc # "idle" => kw.obj.renamed = key.renamed

\* An import keeps its material while its reconcile uses it.
SnapshotKnown ==
  /\ snapshot.by # 0 => snapshot.id # 0
  /\ kw.pc \in {"pin", "import"} => snapshot.by = key.uid /\ key.uid # 0 /\ key.imp = "ref"

(* With these aspects the bucket of the start is never exchanged.          *)
SteadyFocus == {"perms", "local", "settings"}
Steady ==
  focus \in SteadyFocus =>
    /\ bucket.uid # 0 => bucket.id = Mine /\ bucket.want = 0 /\ ~bucket.rsv
    /\ bucket.uid # 0 /\ remote.bucket[Mine] # "live" => bucket.del /\ bw.pc \notin Working
    /\ bw.pc \notin {"create", "bind", "unannotate"}
    /\ bw.pc \in Holding => bw.id = Mine
    /\ focus # "local" => bucket.uid = 1 /\ ~bucket.del

(* Rules.                                                                  *)
NoRules(b) == b.life = 0 /\ b.rules = 0 /\ b.rulesSet = "none"
Lifecycle ==
  /\ focus # "settings" => NoRules(bucket) /\ NoRules(bw.obj) /\ bw.pc # "verify"
  /\ focus = "settings" => remote.sick = "ok" /\ bw.obj.timeouts = 0 /\ bw.obj.decodes = 0 /\ bucket.timeouts = 0 /\ bucket.decodes = 0
  /\ focus = "settings" /\ bw.pc = "status" /\ bw.obj.rulesSet = "true" => remote.rules[Mine] = bw.obj.life
  /\ LifecycleIsHonest

(* The token.                                                              *)
TokenKnown ==
  /\ token.uid = 0 => token.digest = 0 /\ token.pc = "idle" /\ ~token.del
  /\ token.sec.by \in {0, token.uid}
  /\ token.pc = "secret" /\ token.digest # 0 /\ token.sec.by = 0 => token.digest \in token.lost
  /\ token.pc \in {"secret", "status"} => token.uid # 0
  /\ token.pc = "status" =>
       /\ token.digest \in {0, token.new} \cup token.lost
       /\ \/ token.sec.by = token.uid /\ token.sec.val = token.new
          \/ token.sec.by = 0 /\ token.new \in token.lost
  /\ token.pc \in {"finalize", "drop"} => token.del
  /\ token.pc = "drop" => token.sec.by = 0
  /\ token.digest # 0 /\ token.sec.by = 0 => token.del \/ token.digest \in token.lost
  /\ ~token.fin => token.sec.by = 0 /\ token.digest = 0 /\ token.pc = "idle"
  /\ TokenIsPinned

-----------------------------------------------------------------------------
(* Types.                                                                  *)

\* The constants, as numbers and sets the provers can use.
LEMMA Constants ==
  /\ MaxUID \in Nat /\ MaxUID >= 1 /\ MaxNonce \in Nat /\ MaxEdits \in Nat /\ MaxFaults \in Nat
  /\ LookupThreshold \in Nat /\ LookupThreshold >= 1
  /\ 0 \notin BucketId /\ 0 \notin KeyId /\ BucketId \subseteq Nat /\ KeyId \subseteq Nat
  /\ Foreign \in BucketId /\ Mine \in BucketId /\ Legacy \in KeyId
  /\ \A n \in 0..MaxNonce : Derived(n) \in KeyId
  /\ Material \subseteq KeyId
  BY TenantAssumption DEF BucketId, KeyId, Foreign, Mine, Legacy, Derived, Material

LEMMA NoObjectsTyped == NoBucket \in Buckets /\ NoKey \in Keys
  BY Constants DEF NoBucket, NoKey, Buckets, Keys, UID, Ids, KeyIds, Decl, Undeclared, SecretName, LocalAlias, Locals,
     Phases, Alias, NoAlias

LEMMA WatchTyped == ASSUME grants \in Grants, TenantWatch PROVE grants' \in Grants
  BY DEF Grants, TenantWatch, MapToGrants, KeyTargets, BucketTargets

LEMMA IdleTyped == ASSUME NEW b \in Buckets PROVE Idle(b) \in BWorkers
  BY Constants DEF Idle, BWorkers, BPoints, Ids, Unseen, Seens, Perms, Locals, NoAlias

LEMMA KeyIdleTyped == ASSUME NEW k \in Keys PROVE KeyIdle(k) \in KWorkers
  BY Constants DEF KeyIdle, KWorkers, KPoints, KeyIds

LEMMA SeenTyped == ASSUME NEW r \in Garages, NEW id \in BucketId PROVE SeenOf(r, id) \in Seens
  BY DEF SeenOf, Seens, Garages

\* What a step of a bucket's worker keeps typed.
BucketSide ==
  /\ bucket' \in Buckets /\ bucket'.ver <= edits
  /\ bw' \in BWorkers /\ BucketWorker'

LEMMA LeaveTyped == ASSUME NEW b \in Buckets, b.ver <= edits, Leave(b) PROVE BucketSide
  BY NoObjectsTyped, IdleTyped DEF Leave, BucketSide, BucketWorker, Idle, Holding, Working

LEMMA FailTyped == ASSUME Typed, Fail PROVE BucketSide
<1>1. [bucket EXCEPT !.phase = "Failed"] \in Buckets
  BY DEF Typed, Buckets, Phases
<1>2. [bucket EXCEPT !.phase = "Failed"].ver <= edits
  BY DEF Typed, Buckets
<1> QED BY <1>1, <1>2, LeaveTyped DEF Fail

\* Points that hold no set under reconciliation.
Plain == BPoints \ {"union", "apply", "localAdd", "localDone"}

LEMMA PersistTyped ==
  ASSUME Typed, BucketWorker, NEW b \in Buckets, b.ver <= edits, NEW pc \in Plain, Persist(b, pc), bw.pc \in Working,
         pc \in Holding => bw.id # 0
  PROVE  BucketSide
  BY DEF Persist, Typed, BucketSide, BucketWorker, Plain, BWorkers, Holding, Working, BPoints

LEMMA GoTyped ==
  ASSUME Typed, BucketWorker, NEW pc \in Plain, Go(pc), bw.pc \in Working, pc \in Holding => bw.id # 0
  PROVE  BucketSide
  BY DEF Go, Typed, BucketSide, BucketWorker, Plain, BWorkers, Holding, Working, BPoints

LEMMA StartBucketTyped == ASSUME Typed, BucketWorker, StartBucket PROVE BucketSide
<1> USE DEF Typed, BucketSide
<1>1. CASE bucket.del /\ bucket.fin /\ cluster.state = "gone" /\ bucket' = NoBucket /\ UNCHANGED bw
  <2>1. bucket'.ver = 0
    BY <1>1 DEF NoBucket
  <2> QED BY <1>1, <2>1, NoObjectsTyped DEF BucketWorker
<1>2. CASE bw' = [Idle(bucket) EXCEPT !.pc = "finalize"] /\ UNCHANGED bucket
  <2>1. bw' \in BWorkers /\ bw'.pc = "finalize"
    BY <1>2, IdleTyped DEF BWorkers, BPoints
  <2> QED BY <1>2, <2>1 DEF BucketWorker, Holding, Working
<1>3. CASE bucket' = [bucket EXCEPT !.phase = "Pending"] /\ UNCHANGED bw
  <2>1. bucket' \in Buckets /\ bucket'.ver = bucket.ver
    BY <1>3 DEF Buckets, Phases
  <2> QED BY <1>3, <2>1 DEF BucketWorker
<1>4. CASE bucket' = [bucket EXCEPT !.fin = TRUE] /\ UNCHANGED bw
  <2>1. bucket' \in Buckets /\ bucket'.ver = bucket.ver
    BY <1>4 DEF Buckets
  <2> QED BY <1>4, <2>1 DEF BucketWorker
<1>5. CASE /\ bw' = [Idle(bucket) EXCEPT !.name = bucket.alias,
                       !.pc = IF bucket.mpu /\ bucket.id # 0 THEN "cleanup" ELSE "resolve"]
           /\ UNCHANGED bucket
  <2> DEFINE p == IF bucket.mpu /\ bucket.id # 0 THEN "cleanup" ELSE "resolve"
  <2>1. p \in {"cleanup", "resolve"} /\ bucket.alias \in {"a1", "a2"}
    BY DEF Buckets
  <2> HIDE DEF p
  <2>2. bw' \in BWorkers /\ bw'.pc = p /\ bw'.name = bucket.alias
    BY <1>5, <2>1, IdleTyped DEF BWorkers, BPoints, Working, p
  <2> QED BY <1>5, <2>1, <2>2 DEF BucketWorker, Holding, NoAlias
<1> QED BY <1>1, <1>2, <1>3, <1>4, <1>5 DEF StartBucket, NoAlias

\* The calls of Garage keep its types.
LEMMA CreateBucketTyped ==
  ASSUME NEW r \in Garages, NEW id \in BucketId, NEW a \in Alias, NEW uid \in UID
  PROVE  CreateBucket(r, id, a, uid) \in Garages
  BY DEF CreateBucket, Garages, Ids

LEMMA DeleteBucketTyped ==
  ASSUME NEW r \in Garages, NEW id \in BucketId
  PROVE  DeleteBucket(r, id) \in Garages
  BY DEF DeleteBucket, Garages, Ids, Perms, Locals

LEMMA UnaliasTyped ==
  ASSUME NEW r \in Garages, NEW a \in Alias
  PROVE  Unalias(r, a) \in Garages
  BY DEF Unalias, Garages, Ids

LEMMA ExactTyped ==
  ASSUME NEW r \in Garages, NEW id \in BucketId, NEW k \in KeyId, NEW c \in SUBSET Perm, NEW d \in SUBSET Perm
  PROVE  Exact(r, id, k, c, d) \in Garages
<1> DEFINE v == IF r.bucket[id] = "live" /\ r.key[k] = "live"
                THEN (r.perm[id][k] \ (c \ d)) \cup (d \ c) ELSE r.perm[id][k]
<1>1. r.perm[id] \in Perms /\ r.perm[id][k] \in SUBSET Perm
  BY DEF Garages, Perms
<1>2. v \in SUBSET Perm
  BY <1>1
<1> HIDE DEF v
<1>3. [r.perm[id] EXCEPT ![k] = v] \in Perms
  BY <1>1, <1>2 DEF Perms
<1>4. [r EXCEPT !.perm[id][k] = v] \in Garages
  BY <1>3 DEF Garages
<1> QED BY <1>4 DEF Exact, v

LEMMA ImportKeyTyped ==
  ASSUME NEW r \in Garages, NEW id \in KeyId, NEW uid \in UID, NEW name \in BOOLEAN
  PROVE  ImportKey(r, id, uid, name) \in Garages
  BY DEF ImportKey, Garages

LEMMA DeleteKeyTyped ==
  ASSUME NEW r \in Garages, NEW id \in KeyId
  PROVE  DeleteKey(r, id) \in Garages
<1>1. \A b \in BucketId : r.perm[b] \in Perms /\ [r.perm[b] EXCEPT ![id] = {}] \in Perms
  BY DEF Garages, Perms
<1>2. \A b \in BucketId : {l \in r.local[b] : l[1] # id} \in Locals
  BY DEF Garages, Locals
<1> QED BY <1>1, <1>2 DEF DeleteKey, Garages

ClusterTyped == cluster \in [state : {"Running", "deleting", "gone"}, repair : {"none", "Blocks", "Tables"}]

LEMMA RsvTyped == ASSUME NEW u PROVE Reservation(u) \in {"rsv1", "rsv2"} /\ Reservation(u) \in Alias
  BY DEF Reservation, Alias

LEMMA BucketReads ==
  ASSUME Typed
  PROVE  /\ bucket.ver <= edits /\ bucket \in Buckets /\ bw.obj \in Buckets /\ bw \in BWorkers /\ remote \in Garages
         /\ bw.seen \in Seens /\ key.id \in KeyIds
  BY DEF Typed, BWorkers, Keys

LEMMA ResolveTyped ==
  ASSUME Typed, BucketWorker, GetOrCreateBucket
  PROVE  BucketSide
<1> DEFINE b == bw.obj
           id == Resolved(b)
<1>1. b \in Buckets /\ id \in Ids
  <2>1. Reserved(b) \in Ids
    BY BucketReads, RsvTyped DEF Reserved, Garages, Ids
  <2> QED BY <2>1, Constants, BucketReads DEF Resolved, Buckets, Ids, Foreign
<1>2. bw.pc = "resolve"
  BY DEF GetOrCreateBucket, B
<1>3. CASE id # 0 /\ Learn(id) /\ UNCHANGED bucket
  <2> HIDE DEF id
  <2> DEFINE p == IF bw.obj.id = id THEN "alias" ELSE "bind"
             s == SeenOf(remote, id)
  <2>1. s \in Seens /\ id \in BucketId
    BY <1>1, <1>3, SeenTyped, BucketReads DEF Ids
  <2>2. p \in {"alias", "bind"}
    OBVIOUS
  <2>3. bw' = [bw EXCEPT !.id = id, !.seen = s, !.pc = p]
    BY <1>3 DEF Learn
  <2> HIDE DEF p, s
  <2>4. bw' \in BWorkers /\ bw'.pc = p /\ bw'.id = id /\ bw'.name = bw.name
    BY <2>1, <2>2, <2>3, BucketReads DEF BWorkers, BPoints, Holding, Working, Ids
  <2> QED BY <2>4, <2>2, <1>2, <1>3, BucketReads DEF BucketSide, BucketWorker, Working, Holding
<1>4. CASE Fail
  BY <1>4, FailTyped
<1>5. CASE Persist([bucket EXCEPT !.rsv = TRUE], "create")
  <2>1. [bucket EXCEPT !.rsv = TRUE] \in Buckets /\ [bucket EXCEPT !.rsv = TRUE].ver <= edits
    BY BucketReads DEF Buckets
  <2> HIDE DEF Typed
  <2> QED BY <1>2, <1>5, <2>1, PersistTyped DEF Plain, BPoints, Working, Holding
<1> QED BY <1>3, <1>4, <1>5 DEF GetOrCreateBucket

\* A step that writes the object and moves on, or fails.
LEMMA WriteTyped ==
  ASSUME Typed, BucketWorker, bw.pc \in Working, NEW pc \in Plain, pc \in Holding => bw.id # 0,
         \/ Go(pc) \/ Fail
         \/ \E a \in {NoAlias, bw.name} : Persist([bucket EXCEPT !.pAlias = a], pc)
         \/ Persist([bucket EXCEPT !.mAlias = bw.name, !.pAlias = NoAlias], pc)
         \/ Persist([bucket EXCEPT !.rsv = FALSE], pc)
         \/ Persist([bucket EXCEPT !.mpu = FALSE], pc)
         \/ bw.id # 0 /\ Persist([bucket EXCEPT !.id = bw.id], pc)
         \/ \E l \in Locals : Persist([bucket EXCEPT !.mLocal = l], pc)
  PROVE  BucketSide
<1>1. CASE Go(pc)
  BY <1>1, GoTyped
<1>2. CASE Fail
  BY <1>2, FailTyped
<1>3. ASSUME NEW b \in Buckets, b.ver = bucket.ver, Persist(b, pc) PROVE BucketSide
  BY <1>3, BucketReads, PersistTyped
<1>4. ASSUME NEW a \in {NoAlias, bw.name}, Persist([bucket EXCEPT !.pAlias = a], pc) PROVE BucketSide
  <2>1. [bucket EXCEPT !.pAlias = a] \in Buckets /\ [bucket EXCEPT !.pAlias = a].ver = bucket.ver
    BY BucketReads DEF Buckets, BWorkers, Alias
  <2> QED BY <1>3, <1>4, <2>1
<1>5. CASE Persist([bucket EXCEPT !.mAlias = bw.name, !.pAlias = NoAlias], pc)
  <2>1. /\ [bucket EXCEPT !.mAlias = bw.name, !.pAlias = NoAlias] \in Buckets
        /\ [bucket EXCEPT !.mAlias = bw.name, !.pAlias = NoAlias].ver = bucket.ver
    <3>1. bucket \in Buckets /\ bw.name \in Alias \cup {NoAlias}
      BY BucketReads DEF BWorkers, Alias
    <3> QED BY <3>1 DEF Buckets
  <2> QED BY <1>3, <1>5, <2>1
<1>6. CASE Persist([bucket EXCEPT !.rsv = FALSE], pc)
  <2>1. [bucket EXCEPT !.rsv = FALSE] \in Buckets /\ [bucket EXCEPT !.rsv = FALSE].ver = bucket.ver
    BY BucketReads DEF Buckets
  <2> QED BY <1>3, <1>6, <2>1
<1>7. CASE Persist([bucket EXCEPT !.mpu = FALSE], pc)
  <2>1. [bucket EXCEPT !.mpu = FALSE] \in Buckets /\ [bucket EXCEPT !.mpu = FALSE].ver = bucket.ver
    BY BucketReads DEF Buckets
  <2> QED BY <1>3, <1>7, <2>1
<1>8. CASE bw.id # 0 /\ Persist([bucket EXCEPT !.id = bw.id], pc)
  <2>1. [bucket EXCEPT !.id = bw.id] \in Buckets /\ [bucket EXCEPT !.id = bw.id].ver = bucket.ver
    BY BucketReads DEF Buckets, BWorkers
  <2> QED BY <1>3, <1>8, <2>1
<1>9. ASSUME NEW l \in Locals, Persist([bucket EXCEPT !.mLocal = l], pc) PROVE BucketSide
  <2>1. [bucket EXCEPT !.mLocal = l] \in Buckets /\ [bucket EXCEPT !.mLocal = l].ver = bucket.ver
    BY BucketReads DEF Buckets
  <2> QED BY <1>3, <1>9, <2>1
<1> QED BY <1>1, <1>2, <1>4, <1>5, <1>6, <1>7, <1>8, <1>9

\* The sets of a reconcile.
LEMMA DesiredTyped == ASSUME Typed PROVE BucketDesired \in Perms /\ BucketManaged \in SUBSET KeyIds /\ BucketUnauthorized \in SUBSET KeyId
<1>1. bw.obj.kp \in Decl /\ key.id \in KeyIds
  BY BucketReads DEF Buckets
<1>2. bw.obj.kp.p \in SUBSET Perm
  BY <1>1 DEF Decl
<1> QED BY <1>1, <1>2 DEF BucketDesired, BucketManaged, BucketUnauthorized, Perms, KeyIds

LEMMA ReserveTyped == ASSUME Typed, BucketWorker, ReserveKeyGrants PROVE BucketSide
<1> DEFINE reserved == bw.obj.mKeys \cup BucketManaged
           next == [bucket EXCEPT !.mKeys = reserved]
<1>1. CASE Fail
  BY <1>1, FailTyped
<1>2. ASSUME ~(BucketDeclares /\ key.id = 0) PROVE reserved \in SUBSET KeyId /\ BucketManaged \in SUBSET KeyId
  BY <1>2, BucketReads DEF Buckets, BucketManaged, KeyIds
<1>3. ASSUME ~(BucketDeclares /\ key.id = 0) PROVE next \in Buckets /\ next.ver <= edits
  BY <1>2, <1>3, BucketReads DEF Buckets
<1>4. ASSUME ~(BucketDeclares /\ key.id = 0), Leave([next EXCEPT !.phase = "Failed"]) PROVE BucketSide
  <2> HIDE DEF next
  <2>1. [next EXCEPT !.phase = "Failed"] \in Buckets /\ [next EXCEPT !.phase = "Failed"].ver = next.ver
    BY <1>3, <1>4 DEF Buckets, Phases
  <2> QED BY <1>3, <1>4, <2>1, LeaveTyped
<1>5. ASSUME ~(BucketDeclares /\ key.id = 0),
             bucket' = next,
             bw' = [bw EXCEPT !.obj = IF reserved = bw.obj.mKeys THEN @ ELSE next,
                        !.pc = "union", !.des = BucketDesired, !.man = BucketManaged,
                        !.tgt = reserved \cup BucketUnauthorized,
                        !.err = BucketUnauthorized # {}
                                \/ (bw.obj.kp.on /\ ~Permitted("bucket-key"))]
      PROVE BucketSide
  <2> DEFINE o == IF reserved = bw.obj.mKeys THEN bw.obj ELSE next
             e == BucketUnauthorized # {} \/ (bw.obj.kp.on /\ ~Permitted("bucket-key"))
             t == reserved \cup BucketUnauthorized
  <2>1. o \in Buckets /\ e \in BOOLEAN /\ t \in SUBSET KeyId
    BY <1>2, <1>3, <1>5, BucketReads, DesiredTyped
  <2>2. bw' = [bw EXCEPT !.obj = o, !.pc = "union", !.des = BucketDesired, !.man = BucketManaged, !.tgt = t, !.err = e]
    BY <1>5
  <2> HIDE DEF o, e, t, next, reserved
  <2>6. BucketManaged \in SUBSET (KeyId \cup (KeyId \X LocalAlias)) /\ t \in SUBSET (KeyId \cup (KeyId \X LocalAlias))
    BY <1>2, <1>5, <2>1
  <2>7. "union" \in BPoints /\ BucketDesired \in Perms
    BY DesiredTyped DEF BPoints, Working, Holding
  <2>3. bw' \in BWorkers
    BY <2>1, <2>2, <2>6, <2>7, BucketReads DEF BWorkers
  <2>4. bw'.pc = "union" /\ bw'.man = BucketManaged /\ bw'.tgt = t /\ bw'.id = bw.id /\ bw'.name = bw.name
    BY <2>2, BucketReads DEF BWorkers
  <2>5. bw.pc = "perms"
    BY DEF ReserveKeyGrants, B
  <2> QED BY <1>2, <1>3, <1>5, <2>1, <2>3, <2>4, <2>5 DEF BucketSide, BucketWorker, Working, Holding
<1> QED BY <1>1, <1>4, <1>5 DEF ReserveKeyGrants

LEMMA UnionTyped == ASSUME Typed, BucketWorker, UnionKeyPermissions PROVE BucketSide
<1> DEFINE t == IF KeyReserves /\ key.id # 0 THEN bw.tgt \cup {key.id} ELSE bw.tgt
           e == IF key.id = 0 THEN bw.err ELSE bw.err \/ (KeyDeclares /\ ~Permitted("key-bucket"))
           f == IF KeyDeclares /\ Permitted("key-bucket") /\ KeyReserves
                THEN bw.des[key.id] \cup KeyGives ELSE bw.des[key.id]
           d == IF key.id = 0 THEN bw.des ELSE [bw.des EXCEPT ![key.id] = f]
<1>1. bw' = [bw EXCEPT !.pc = "apply", !.tgt = t, !.err = e, !.des = d] /\ bw.pc = "union" /\ bucket' = bucket
  <2>1. CASE key.id = 0
    BY <2>1, BucketReads DEF UnionKeyPermissions, B, BWorkers
  <2>2. CASE key.id # 0
    BY <2>2, BucketReads DEF UnionKeyPermissions, B, BWorkers
  <2> QED BY <2>1, <2>2
<1>2. KeyGives \in SUBSET Perm
  <2>1. key.bp \in Decl
    BY DEF Typed, Keys
  <2> QED BY <2>1 DEF KeyGives, Decl
<1>3. bw.des \in Perms /\ bw.tgt \in SUBSET KeyId /\ bw.man \in SUBSET KeyId /\ bw.err \in BOOLEAN
  BY <1>1, BucketReads DEF BWorkers, BucketWorker
<1>4. t \in SUBSET KeyId /\ e \in BOOLEAN /\ d \in Perms
  <2>1. t \in SUBSET KeyId /\ e \in BOOLEAN
    BY <1>3, BucketReads DEF KeyIds
  <2>2. d \in Perms
    <3>1. CASE key.id = 0
      BY <1>3, <3>1
    <3>2. CASE key.id # 0
      <4>1. key.id \in KeyId /\ bw.des[key.id] \in SUBSET Perm
        BY <1>3, <3>2, BucketReads DEF KeyIds, Perms
      <4>2. f \in SUBSET Perm
        BY <1>2, <4>1
      <4> HIDE DEF f
      <4> QED BY <1>3, <3>2, <4>1, <4>2 DEF Perms
    <3> QED BY <3>1, <3>2
  <2> QED BY <2>1, <2>2
<1> HIDE DEF t, e, d
<1>5. bw' \in BWorkers /\ bw'.pc = "apply" /\ bw'.tgt = t /\ bw'.id = bw.id /\ bw'.name = bw.name /\ bw'.man = bw.man
  BY <1>1, <1>4, BucketReads DEF BWorkers, BPoints, Working, Holding
<1> QED BY <1>1, <1>3, <1>4, <1>5, BucketReads DEF BucketSide, BucketWorker, Working, Holding

LEMMA ApplyTyped == ASSUME Typed, BucketWorker, ApplyKeyPermissions PROVE BucketSide /\ remote' \in Garages
<1>1. PICK k \in bw.tgt :
        /\ remote' = Exact(remote, bw.id, k, bw.seen.perm[k], bw.des[k])
        /\ bw' = [bw EXCEPT !.tgt = @ \ {k},
                            !.err = @ \/ ExactFails(bw.id, k, bw.seen.perm[k], bw.des[k])]
  BY DEF ApplyKeyPermissions
<1>2. bw.pc = "apply" /\ bucket' = bucket
  BY DEF ApplyKeyPermissions, B
<1>3. k \in KeyId /\ bw.id \in BucketId /\ bw.seen.perm[k] \in SUBSET Perm /\ bw.des[k] \in SUBSET Perm
  <2>1. k \in KeyId /\ bw.id \in BucketId
    BY <1>1, <1>2, BucketReads DEF BucketWorker, Holding, Ids, BWorkers
  <2>2. bw.des \in Perms /\ bw.seen.perm \in Perms
    BY BucketReads DEF BWorkers, Seens
  <2> QED BY <2>1, <2>2 DEF Perms
<1>4. remote' \in Garages
  BY <1>1, <1>3, ExactTyped, BucketReads
<1> DEFINE e == bw.err \/ ExactFails(bw.id, k, bw.seen.perm[k], bw.des[k])
<1>5. e \in BOOLEAN
  BY BucketReads DEF BWorkers, ExactFails
<1> HIDE DEF e
<1>6. bw' = [bw EXCEPT !.tgt = bw.tgt \ {k}, !.err = e]
  BY <1>1 DEF e
<1>7. bw' \in BWorkers /\ bw'.pc = bw.pc /\ bw'.tgt = bw.tgt \ {k} /\ bw'.id = bw.id /\ bw'.name = bw.name /\ bw'.man = bw.man
  BY <1>5, <1>6, BucketReads DEF BWorkers
<1> QED BY <1>2, <1>4, <1>7, BucketReads DEF BucketSide, BucketWorker, Working, Holding

LEMMA NarrowTyped == ASSUME Typed, BucketWorker, NarrowKeyGrants PROVE BucketSide
<1> DEFINE next == [bucket EXCEPT !.mKeys = bw.man]
<1>1. bw.pc = "apply" /\ bw.man \in SUBSET KeyId
  BY DEF NarrowKeyGrants, B, BucketWorker
<1>2. next \in Buckets /\ next.ver <= edits
  BY <1>1, BucketReads DEF Buckets
<1>3. CASE Fail
  BY <1>3, FailTyped
<1>4. CASE Leave([next EXCEPT !.phase = "Failed"])
  <2> HIDE DEF next
  <2>1. [next EXCEPT !.phase = "Failed"] \in Buckets /\ [next EXCEPT !.phase = "Failed"].ver = next.ver
    BY <1>2, <1>4 DEF Buckets, Phases
  <2> QED BY <1>2, <1>4, <2>1, LeaveTyped
<1>5. CASE bucket' = next /\ bw' = [bw EXCEPT !.obj = IF bw.man = bw.obj.mKeys THEN @ ELSE next, !.pc = "local"]
  <2> DEFINE o == IF bw.man = bw.obj.mKeys THEN bw.obj ELSE next
  <2>1. o \in Buckets /\ bw' = [bw EXCEPT !.obj = o, !.pc = "local"]
    BY <1>2, <1>5, BucketReads
  <2> HIDE DEF o, next
  <2>2. bw' \in BWorkers /\ bw'.pc = "local" /\ bw'.id = bw.id /\ bw'.name = bw.name
    BY <2>1, BucketReads DEF BWorkers, BPoints, Working, Holding
  <2> QED BY <1>1, <1>2, <1>5, <2>2 DEF BucketSide, BucketWorker, Working, Holding
<1> QED BY <1>3, <1>4, <1>5 DEF NarrowKeyGrants

LEMMA LocalDesiredTyped ==
  ASSUME Typed, bw.obj.la = {} \/ key.id # 0
  PROVE  LocalDesired \in Locals /\ bw.obj.mLocal \in Locals
<1>1. bw.obj.la \in SUBSET LocalAlias /\ key.id \in KeyIds /\ bw.obj.mLocal \in Locals
  BY BucketReads DEF Buckets
<1>2. CASE bw.obj.la = {}
  BY <1>1, <1>2 DEF LocalDesired, Locals
<1>3. CASE key.id \in KeyId
  BY <1>1, <1>3 DEF LocalDesired, Locals
<1> QED BY <1>1, <1>2, <1>3 DEF KeyIds

LEMMA ReserveLocalTyped == ASSUME Typed, BucketWorker, ReserveLocalAliases PROVE BucketSide
<1> DEFINE next == [bucket EXCEPT !.mLocal = bw.obj.mLocal \cup LocalDesired]
<1>1. CASE Fail
  BY <1>1, FailTyped
<1>2. CASE /\ bw.obj.la = {} \/ key.id # 0
           /\ bucket' = next
           /\ bw' = [bw EXCEPT !.obj = next, !.man = LocalDesired, !.tgt = LocalDesired, !.pc = "localAdd"]
  <2>1. bw.pc = "local"
    BY DEF ReserveLocalAliases, B
  <2>2. LocalDesired \in Locals /\ bw.obj.mLocal \in Locals
    BY <1>2, LocalDesiredTyped
  <2>3. bw.obj.mLocal \cup LocalDesired \in Locals
    BY <2>2 DEF Locals
  <2>4. next \in Buckets /\ next.ver <= edits
    BY <2>3, BucketReads DEF Buckets
  <2>5. LocalDesired \in SUBSET (KeyId \cup (KeyId \X LocalAlias))
    BY <2>2 DEF Locals
  <2> HIDE DEF next
  <2>6. bw' \in BWorkers /\ bw'.pc = "localAdd" /\ bw'.id = bw.id /\ bw'.name = bw.name /\ bw'.man = LocalDesired /\ bw'.tgt = LocalDesired
    BY <1>2, <2>4, <2>5, BucketReads DEF BWorkers, BPoints, Working, Holding
  <2> QED BY <1>2, <2>1, <2>2, <2>4, <2>6 DEF BucketSide, BucketWorker, Working, Holding
<1> QED BY <1>1, <1>2 DEF ReserveLocalAliases

LEMMA AddLocalTyped == ASSUME Typed, BucketWorker, AddLocalAlias PROVE BucketSide /\ remote' \in Garages
<1>1. bw.pc = "localAdd" /\ bw.tgt \in Locals /\ bw.man \in Locals /\ bw.id \in BucketId
  BY BucketReads DEF AddLocalAlias, B, BucketWorker, Holding, Ids, BWorkers
<1>2. CASE Fail /\ UNCHANGED remote
  BY <1>2, FailTyped, BucketReads
<1>3. ASSUME NEW l \in bw.tgt,
             remote' = [remote EXCEPT !.local[bw.id] = @ \cup {l}],
             bw' = [bw EXCEPT !.tgt = @ \ {l}], UNCHANGED bucket
      PROVE  BucketSide /\ remote' \in Garages
  <2>1. l \in KeyId \X LocalAlias /\ bw.tgt \ {l} \in Locals
    BY <1>1, <1>3 DEF Locals
  <2>2. remote.local[bw.id] \cup {l} \in Locals
    BY <1>1, <2>1, BucketReads DEF Garages, Locals
  <2>3. remote' \in Garages
    BY <1>1, <1>3, <2>2, BucketReads DEF Garages
  <2>4. bw.tgt \ {l} \in SUBSET (KeyId \cup (KeyId \X LocalAlias))
    BY <2>1 DEF Locals
  <2>5. bw' \in BWorkers /\ bw'.pc = bw.pc /\ bw'.id = bw.id /\ bw'.name = bw.name /\ bw'.man = bw.man /\ bw'.tgt = bw.tgt \ {l}
    BY <1>3, <2>4, BucketReads DEF BWorkers
  <2> QED BY <1>1, <1>3, <2>1, <2>3, <2>5, BucketReads DEF BucketSide, BucketWorker, Working, Holding
<1> QED BY <1>2, <1>3 DEF AddLocalAlias

LEMMA RemoveLocalTyped == ASSUME Typed, BucketWorker, RemoveLocalAliases PROVE BucketSide /\ remote' \in Garages
<1>1. bw.pc = "localAdd" /\ bw.man \in Locals /\ bw.id \in BucketId /\ bw.tgt \in Locals
  BY BucketReads DEF RemoveLocalAliases, B, BucketWorker, Holding, Ids, BWorkers
<1>2. remote' \in Garages
  <2> DEFINE gone == (bw.obj.mLocal \ bw.man) \cap bw.seen.local
  <2>1. remote' = [remote EXCEPT !.local[bw.id] = remote.local[bw.id] \ gone]
    BY <1>1, BucketReads DEF RemoveLocalAliases, Garages
  <2> HIDE DEF gone
  <2>2. remote.local[bw.id] \ gone \in Locals
    BY <1>1, BucketReads DEF Garages, Locals
  <2> QED BY <1>1, <2>1, <2>2, BucketReads DEF Garages
<1>3. bw' = [bw EXCEPT !.pc = "localDone"] /\ bucket' = bucket
  BY DEF RemoveLocalAliases, Go
<1>4. bw' \in BWorkers /\ bw'.pc = "localDone" /\ bw'.id = bw.id /\ bw'.name = bw.name /\ bw'.man = bw.man /\ bw'.tgt = bw.tgt
  BY <1>3, BucketReads DEF BWorkers, BPoints, Working, Holding
<1> QED BY <1>1, <1>2, <1>3, <1>4, BucketReads DEF BucketSide, BucketWorker, Working, Holding

LEMMA LifecycleTyped ==
  ASSUME Typed, BucketWorker, ReconcileLifecycleSafe \/ VerifyLifecycleApplied
  PROVE  BucketSide /\ remote' \in Garages
<1>1. bw.pc \in {"life", "verify"} /\ bw.id \in BucketId /\ bw.name # NoAlias
  BY BucketReads DEF ReconcileLifecycleSafe, VerifyLifecycleApplied, B, BucketWorker, Holding, Working, Ids, BWorkers
<1>2. \A ok \in BOOLEAN : WithLifecycle(bw.obj, ok) \in Buckets
  <2>1. bw.obj \in Buckets
    BY BucketReads DEF BWorkers
  <2>2. [bw.obj EXCEPT !.rules = bw.obj.life, !.rulesSet = "true"] \in Buckets
    BY <2>1 DEF Buckets
  <2>3. [bw.obj EXCEPT !.rulesSet = "false"] \in Buckets
    BY <2>1 DEF Buckets
  <2> QED BY <2>2, <2>3 DEF WithLifecycle
<1>3. SetLifecycle(remote) \in Garages
  <2>1. bw.obj.life \in 0..1
    BY BucketReads DEF Buckets
  <2> QED BY <1>1, <2>1, BucketReads DEF SetLifecycle, Garages
<1>4. ASSUME NEW pc \in {"status", "verify"}, Go(pc) PROVE BucketSide
  BY <1>1, <1>4, GoTyped DEF Plain, BPoints, Working, Holding, BucketWorker
<1>5. ASSUME NEW o \in Buckets, bw' = [bw EXCEPT !.pc = "status", !.obj = o], bucket' = bucket PROVE BucketSide
  <2>1. bw' \in BWorkers /\ bw'.pc = "status" /\ bw'.id = bw.id /\ bw'.name = bw.name
    BY <1>5, BucketReads DEF BWorkers, BPoints, Working, Holding
  <2> QED BY <1>1, <1>5, <2>1, BucketReads DEF BucketSide, BucketWorker, Working, Holding, Ids
<1>6. CASE VerifyLifecycleApplied
  <2>1. Applied(remote) \in BOOLEAN
    BY DEF Applied
  <2> DEFINE o == WithLifecycle(bw.obj, Applied(remote))
  <2>2. o \in Buckets
    BY <1>2, <2>1
  <2>3. bw' = [bw EXCEPT !.pc = "status", !.obj = o] /\ bucket' = bucket /\ remote' = remote
    BY <1>6 DEF VerifyLifecycleApplied
  <2> HIDE DEF o
  <2> QED BY <1>5, <2>2, <2>3, BucketReads
<1>7. CASE ReconcileLifecycleSafe
  <2> DEFINE o == WithLifecycle(bw.obj, TRUE)
  <2>1. o \in Buckets
    BY <1>2
  <2>2. CASE Go("status") /\ UNCHANGED remote
    BY <1>4, <2>2, BucketReads
  <2>3. CASE remote' = SetLifecycle(remote) /\ Go("verify")
    BY <1>3, <1>4, <2>3
  <2>4. CASE bw' = [bw EXCEPT !.pc = "status", !.obj = o] /\ UNCHANGED <<bucket, remote>>
    <3> HIDE DEF o
    <3> QED BY <1>5, <2>1, <2>4, BucketReads
  <2> QED BY <1>7, <2>2, <2>3, <2>4 DEF ReconcileLifecycleSafe
<1> QED BY <1>6, <1>7

LEMMA StatusTyped == ASSUME Typed, BucketWorker, UpdateStatusFromGarage PROVE BucketSide
<1> DEFINE healed == bw.obj.timeouts > 0 \/ bw.obj.decodes > 0
           read == IF healed THEN bucket ELSE [bucket EXCEPT !.rules = bw.obj.rules, !.rulesSet = bw.obj.rulesSet]
           ver == IF healed THEN bucket.ver ELSE bw.obj.ver
           b == [read EXCEPT !.timeouts = 0, !.decodes = 0, !.stuck = FALSE, !.phase = "Ready", !.og = ver]
<1>1. CASE Fail
  BY <1>1, FailTyped
<1>2. CASE Leave(b)
  <2>1. bw.obj.rules \in 0..1 /\ bw.obj.rulesSet \in {"none", "true", "false"} /\ bw.obj.ver \in 0..MaxEdits /\ bucket.ver \in 0..MaxEdits
    BY BucketReads DEF Buckets
  <2>2. /\ [bucket EXCEPT !.rules = bw.obj.rules, !.rulesSet = bw.obj.rulesSet] \in Buckets
        /\ [bucket EXCEPT !.rules = bw.obj.rules, !.rulesSet = bw.obj.rulesSet].ver = bucket.ver
    BY <2>1, BucketReads DEF Buckets
  <2>3. read \in Buckets /\ read.ver = bucket.ver /\ ver \in 0..MaxEdits
    BY <2>1, <2>2, BucketReads
  <2> HIDE DEF read, ver
  <2>5. 0 \in 0..LookupThreshold
    BY Constants
  <2>4. b \in Buckets /\ b.ver = read.ver
    BY <2>3, <2>5 DEF Buckets, Phases
  <2> HIDE DEF b
  <2> QED BY <1>2, <2>3, <2>4, BucketReads, LeaveTyped
<1> QED BY <1>1, <1>2 DEF UpdateStatusFromGarage

LEMMA BumpTyped == ASSUME NEW n \in 0..LookupThreshold PROVE Bump(n) \in 0..LookupThreshold
  BY Constants DEF Bump

LEMMA LookupTyped ==
  ASSUME Typed, BucketWorker, BucketLookupTimeout \/ BucketDecodeError
  PROVE  BucketSide /\ ClusterTyped'
<1>1. bw.obj.timeouts \in 0..LookupThreshold /\ bw.obj.decodes \in 0..LookupThreshold
  BY BucketReads DEF Buckets
<1>2. ASSUME NEW b \in Buckets, b.ver = bucket.ver, Leave(b) PROVE BucketSide
  BY <1>2, BucketReads, LeaveTyped
<1>3. CASE BucketLookupTimeout
  <2> DEFINE n == Bump(bw.obj.timeouts)
             s == bucket.stuck \/ n >= LookupThreshold
             b == [bucket EXCEPT !.timeouts = n, !.stuck = @ \/ n >= LookupThreshold]
  <2>1. n \in 0..LookupThreshold /\ s \in BOOLEAN
    BY <1>1, BumpTyped, BucketReads DEF Buckets
  <2>2. b = [bucket EXCEPT !.timeouts = n, !.stuck = s] /\ Leave(b) /\ cluster' = cluster
    BY <1>3 DEF BucketLookupTimeout
  <2> HIDE DEF n, s, b
  <2>3. b \in Buckets /\ b.ver = bucket.ver
    BY <2>1, <2>2, BucketReads DEF Buckets
  <2> QED BY <1>2, <2>2, <2>3 DEF Typed, ClusterTyped
<1>4. CASE BucketDecodeError
  <2> DEFINE n == Bump(bw.obj.decodes)
             b == [bucket EXCEPT !.decodes = n]
             v == IF n >= LookupThreshold /\ cluster.repair = "none" THEN "Tables" ELSE cluster.repair
  <2>1. n \in 0..LookupThreshold
    BY <1>1, BumpTyped
  <2>2. Leave(b) /\ cluster' = [cluster EXCEPT !.repair = v]
    BY <1>4 DEF BucketDecodeError
  <2>3. v \in {"none", "Blocks", "Tables"}
    BY DEF Typed
  <2> HIDE DEF n, v
  <2>4. b \in Buckets /\ b.ver = bucket.ver
    BY <2>1, BucketReads DEF Buckets
  <2> HIDE DEF b
  <2> QED BY <1>2, <2>2, <2>3, <2>4 DEF Typed, ClusterTyped
<1> QED BY <1>3, <1>4

LEMMA FinalizeBucketTyped == ASSUME Typed, BucketWorker, FinalizeBucket PROVE BucketSide /\ remote' \in Garages
<1> DEFINE b == bw.obj
           recorded == IF b.id # 0 THEN b.id ELSE b.want
           id == IF Reserved(b) # 0 THEN Reserved(b) ELSE recorded
<1>1. id \in Ids
  <2>1. Reserved(b) \in Ids
    BY BucketReads, RsvTyped DEF Reserved, Garages, Ids
  <2>2. recorded \in Ids
    BY BucketReads, Constants DEF Buckets, Ids, Foreign
  <2> QED BY <2>1, <2>2
<1> HIDE DEF id
<1>2. CASE bw' = Idle(NoBucket) /\ UNCHANGED <<remote, bucket>>
  BY <1>2, NoObjectsTyped, LeaveTyped, BucketReads DEF Leave
<1>3. CASE /\ remote' = IF id = 0 THEN remote ELSE DeleteBucket(remote, id)
           /\ bw' = [bw EXCEPT !.pc = "drop"] /\ UNCHANGED bucket
  <2>1. remote' \in Garages
    BY <1>1, <1>3, DeleteBucketTyped, BucketReads DEF Ids
  <2>2. bw' \in BWorkers /\ bw'.pc = "drop"
    BY <1>3, BucketReads DEF BWorkers, BPoints
  <2> QED BY <1>3, <2>1, <2>2, BucketReads DEF BucketSide, BucketWorker, Working, Holding
<1> QED BY <1>2, <1>3 DEF FinalizeBucket, id

\* A set of numbers that is not empty has a least one.
LEMMA LeastNumber == ASSUME NEW S \in SUBSET Nat, S # {} PROVE \E i \in S : \A j \in S : i <= j
<1>1. PICK x \in S : \A y \in S : ~(<<y, x>> \in OpToRel(<, Nat))
  BY NatLessThanWellFounded, WFMin
<1>2. \A y \in S : ~(y < x)
  BY <1>1 DEF OpToRel
<1> QED BY <1>2

LEMMA FreeBucketIsFree == ASSUME MayCreate PROVE FreeBucket \in BucketId /\ remote.bucket[FreeBucket] = "free"
<1>1. PICK b \in BucketId : remote.bucket[b] = "free"
  BY DEF MayCreate
<1> DEFINE S == {i \in BucketId : remote.bucket[i] = "free"}
<1>2. S \subseteq Nat /\ b \in S
  BY <1>1, Constants
<1>3. PICK i \in S : \A j \in S : i <= j
  BY <1>2, LeastNumber
<1>4. \A j \in BucketId : j < i => remote.bucket[j] # "free"
  BY <1>3, Constants
<1> QED BY <1>3, <1>4 DEF FreeBucket

LEMMA CreateReservedTyped == ASSUME Typed, BucketWorker, CreateReservedBucket PROVE BucketSide /\ remote' \in Garages
<1>1. bw.pc = "create" /\ bw.name # NoAlias
  BY DEF CreateReservedBucket, B, BucketWorker, Working
<1>2. FreeBucket \in BucketId
  BY FreeBucketIsFree DEF CreateReservedBucket
<1> DEFINE id == FreeBucket
           s == SeenOf(remote', id)
<1> HIDE DEF id
<1>3. remote' = CreateBucket(remote, id, Reservation(bw.obj.uid), bw.obj.uid)
  BY DEF CreateReservedBucket, id
<1>4. id \in BucketId /\ bw.obj.uid \in UID
  BY <1>2, BucketReads DEF id, Buckets
<1>5. remote' \in Garages
  BY <1>3, <1>4, RsvTyped, CreateBucketTyped, BucketReads
<1>6. s \in Seens
  BY <1>4, <1>5, SeenTyped
<1>7. bw' = [bw EXCEPT !.id = id, !.pc = "bind", !.seen = s] /\ bucket' = bucket
  BY DEF CreateReservedBucket, id
<1> HIDE DEF s
<1>8. bw' \in BWorkers /\ bw'.pc = "bind" /\ bw'.id = id /\ bw'.name = bw.name
  BY <1>4, <1>6, <1>7, BucketReads DEF BWorkers, BPoints, Working, Holding, Ids
<1> QED BY <1>1, <1>4, <1>5, <1>7, <1>8, BucketReads, Constants DEF BucketSide, BucketWorker, Working, Holding

\* The steps that only write the object, or one thing in Garage, and move on.
LEMMA AliasStepsTyped ==
  ASSUME Typed, BucketWorker,
         \/ CleanupIncompleteUploads \/ RemoveCleanupAnnotation \/ PersistBucketID
         \/ RemoveAbandonedAlias \/ ClearAbandonedAlias \/ ReserveGlobalAlias \/ AddGlobalAlias
         \/ RemovePreviousAlias \/ CompleteAliasHandoff \/ RemoveReservationAlias
         \/ ClearReservationAnnotation \/ UpdateBucketSettings \/ NarrowLocalAliases
  PROVE  BucketSide /\ remote' \in Garages
<1> USE DEF Plain, BPoints, Working, Holding, B
<1>1. bw.name \in Alias \cup {NoAlias} /\ bw.id \in Ids
  BY BucketReads DEF BWorkers, Alias
<1>2. CASE CleanupIncompleteUploads
  <2>1. remote' \in Garages
    BY <1>2, BucketReads DEF CleanupIncompleteUploads, Garages
  <2> QED BY <1>2, <2>1, WriteTyped DEF CleanupIncompleteUploads
<1>3. CASE RemoveCleanupAnnotation
  <2>1. CASE Persist([bucket EXCEPT !.mpu = FALSE], "resolve")
    <3>1. bw.pc \in Working /\ "resolve" \in Plain /\ "resolve" \notin Holding /\ remote' = remote
      BY <1>3 DEF RemoveCleanupAnnotation
    <3> QED BY <2>1, <3>1, WriteTyped, BucketReads
  <2>2. CASE bw' = Idle(NoBucket) /\ UNCHANGED bucket
    BY <1>3, <2>2, NoObjectsTyped, LeaveTyped, BucketReads DEF Leave, RemoveCleanupAnnotation
  <2> QED BY <1>3, <2>1, <2>2 DEF RemoveCleanupAnnotation
<1>4. CASE PersistBucketID
  BY <1>4, WriteTyped, BucketReads DEF PersistBucketID, BucketWorker
<1>5. CASE RemoveAbandonedAlias
  <2>1. bw.obj.pAlias \in Alias
    BY <1>5, BucketReads DEF RemoveAbandonedAlias, Abandoned, Buckets
  <2>2. Unalias(remote, bw.obj.pAlias) \in Garages
    BY <2>1, UnaliasTyped, BucketReads
  <2>3. remote' \in Garages
    BY <1>5, <2>2, BucketReads DEF RemoveAbandonedAlias
  <2> QED BY <1>5, <2>3, WriteTyped DEF RemoveAbandonedAlias, BucketWorker
<1>6. CASE ClearAbandonedAlias
  BY <1>6, WriteTyped, BucketReads DEF ClearAbandonedAlias, BucketWorker
<1>7. CASE ReserveGlobalAlias
  BY <1>7, WriteTyped, BucketReads DEF ReserveGlobalAlias, BucketWorker
<1>8. CASE AddGlobalAlias
  <2>1. bw.name \in Alias
    BY <1>1, <1>8 DEF AddGlobalAlias, BucketWorker
  <2>2. [remote EXCEPT !.alias[bw.name] = bw.id] \in Garages
    BY <1>1, <2>1, BucketReads DEF Garages
  <2>3. remote' \in Garages
    BY <1>8, <2>2, BucketReads DEF AddGlobalAlias
  <2>4. Fail \/ Go("aliasDrop")
    BY <1>8 DEF AddGlobalAlias
  <2> QED BY <1>8, <2>3, <2>4, WriteTyped DEF AddGlobalAlias, BucketWorker
<1>9. CASE RemovePreviousAlias
  <2>1. bw.obj.mAlias \in Alias \cup {NoAlias}
    BY BucketReads DEF Buckets
  <2>2. remote' \in Garages
    BY <1>9, <2>1, UnaliasTyped, BucketReads DEF RemovePreviousAlias
  <2> QED BY <1>9, <2>2, WriteTyped DEF RemovePreviousAlias, BucketWorker
<1>10. CASE CompleteAliasHandoff
  BY <1>10, WriteTyped, BucketReads DEF CompleteAliasHandoff, BucketWorker
<1>11. CASE RemoveReservationAlias
  <2>1. remote' \in Garages
    BY <1>11, RsvTyped, UnaliasTyped, BucketReads DEF RemoveReservationAlias
  <2>2. Go("settings") \/ Go("unannotate")
    BY <1>11 DEF RemoveReservationAlias
  <2> QED BY <1>11, <2>1, <2>2, WriteTyped DEF RemoveReservationAlias, BucketWorker
<1>12. CASE ClearReservationAnnotation
  BY <1>12, WriteTyped, BucketReads DEF ClearReservationAnnotation, BucketWorker
<1>13. CASE UpdateBucketSettings
  <2>1. bw.obj.cfg \in 0..1
    BY BucketReads DEF Buckets
  <2>2. [remote EXCEPT !.cfg[bw.id] = bw.obj.cfg] \in Garages
    BY <2>1, BucketReads DEF Garages
  <2>3. remote' \in Garages
    BY <1>13, <2>2, BucketReads DEF UpdateBucketSettings
  <2>4. Fail \/ Go("perms")
    BY <1>13 DEF UpdateBucketSettings
  <2> QED BY <1>13, <2>3, <2>4, WriteTyped DEF UpdateBucketSettings, BucketWorker
<1>14. CASE NarrowLocalAliases
  <2>1. bw.man \in Locals
    BY <1>14 DEF NarrowLocalAliases, BucketWorker
  <2> QED BY <1>14, <2>1, WriteTyped, BucketReads DEF NarrowLocalAliases, BucketWorker
<1> QED BY <1>2, <1>3, <1>4, <1>5, <1>6, <1>7, <1>8, <1>9, <1>10, <1>11, <1>12, <1>13, <1>14

LEMMA BucketStepTyped ==
  ASSUME Typed, BucketWorker, BucketNext \/ BucketFault
  PROVE  BucketSide /\ remote' \in Garages /\ ClusterTyped'
<1> USE DEF ClusterTyped
<1>1. CASE StartBucket
  BY <1>1, StartBucketTyped, BucketReads DEF StartBucket, Typed
<1>2. CASE GetOrCreateBucket
  BY <1>2, ResolveTyped, BucketReads DEF GetOrCreateBucket, Typed
<1>3. CASE CreateReservedBucket
  BY <1>3, CreateReservedTyped DEF CreateReservedBucket, Typed
<1>4. CASE \/ CleanupIncompleteUploads \/ RemoveCleanupAnnotation \/ PersistBucketID
           \/ RemoveAbandonedAlias \/ ClearAbandonedAlias \/ ReserveGlobalAlias \/ AddGlobalAlias
           \/ RemovePreviousAlias \/ CompleteAliasHandoff \/ RemoveReservationAlias
           \/ ClearReservationAnnotation \/ UpdateBucketSettings \/ NarrowLocalAliases
  <2>1. cluster' = cluster
    BY <1>4 DEF CleanupIncompleteUploads, RemoveCleanupAnnotation, PersistBucketID, RemoveAbandonedAlias,
       ClearAbandonedAlias, ReserveGlobalAlias, AddGlobalAlias, RemovePreviousAlias, CompleteAliasHandoff,
       RemoveReservationAlias, ClearReservationAnnotation, UpdateBucketSettings, NarrowLocalAliases
  <2> QED BY <1>4, <2>1, AliasStepsTyped DEF Typed
<1>5. CASE ReserveKeyGrants
  BY <1>5, ReserveTyped, BucketReads DEF ReserveKeyGrants, Typed
<1>6. CASE UnionKeyPermissions
  BY <1>6, UnionTyped, BucketReads DEF UnionKeyPermissions, Typed
<1>7. CASE ApplyKeyPermissions
  BY <1>7, ApplyTyped DEF ApplyKeyPermissions, Typed
<1>8. CASE NarrowKeyGrants
  BY <1>8, NarrowTyped, BucketReads DEF NarrowKeyGrants, Typed
<1>9. CASE ReserveLocalAliases
  BY <1>9, ReserveLocalTyped, BucketReads DEF ReserveLocalAliases, Typed
<1>10. CASE AddLocalAlias
  BY <1>10, AddLocalTyped DEF AddLocalAlias, Typed
<1>11. CASE RemoveLocalAliases
  BY <1>11, RemoveLocalTyped DEF RemoveLocalAliases, Typed
<1>12. CASE ReconcileLifecycleSafe \/ VerifyLifecycleApplied
  BY <1>12, LifecycleTyped DEF ReconcileLifecycleSafe, VerifyLifecycleApplied, Typed
<1>13. CASE UpdateStatusFromGarage
  BY <1>13, StatusTyped, BucketReads DEF UpdateStatusFromGarage, Typed
<1>14. CASE BucketLookupTimeout \/ BucketDecodeError
  BY <1>14, LookupTyped, BucketReads DEF BucketLookupTimeout, BucketDecodeError
<1>15. CASE FinalizeBucket
  BY <1>15, FinalizeBucketTyped DEF FinalizeBucket, Typed
<1>16. CASE DropBucketFinalizer
  <2>1. Leave(NoBucket) /\ NoBucket.ver = 0 /\ UNCHANGED <<cluster, remote>>
    BY <1>16 DEF DropBucketFinalizer, NoBucket
  <2> QED BY <2>1, LeaveTyped, NoObjectsTyped, BucketReads DEF Typed
<1>17. CASE BucketFault
  <2>1. Fail \/ Leave(bucket)
    BY <1>17 DEF BucketFault, Leave
  <2> QED BY <1>17, <2>1, LeaveTyped, FailTyped, BucketReads DEF BucketFault, Typed
<1> QED BY <1>1, <1>2, <1>3, <1>4, <1>5, <1>6, <1>7, <1>8, <1>9, <1>10, <1>11, <1>12, <1>13, <1>14, <1>15,
   <1>16, <1>17 DEF BucketNext

\* What a step of a key's worker keeps typed.
KeySide ==
  /\ key' \in Keys /\ key'.ver <= edits
  /\ kw' \in KWorkers /\ KeyWorker'

LEMMA KeyReads ==
  ASSUME Typed
  PROVE  /\ key.ver <= edits /\ key \in Keys /\ kw.obj \in Keys /\ kw \in KWorkers /\ remote \in Garages
         /\ bucket.id \in Ids /\ snapshot.id \in KeyIds /\ snapshot.by \in UID /\ secrets \in Secrets
         /\ kw.obj.uid \in UID /\ kw.obj.id \in KeyIds /\ kw.obj.nonce \in 0..MaxNonce /\ kw.obj.renamed \in BOOLEAN
         /\ kw.id \in KeyIds
  BY DEF Typed, KWorkers, Buckets, Keys

\* Points that hold no set under reconciliation.
KPlain == KPoints \ ({"revoke"} \cup KHolding)

LEMMA KLeaveTyped == ASSUME NEW k \in Keys, k.ver <= edits, KLeave(k) PROVE KeySide
  BY NoObjectsTyped, KeyIdleTyped DEF KLeave, KeySide, KeyWorker, KeyIdle, KHolding, KEarly, KWorking

LEMMA FailedTyped ==
  ASSUME NEW k \in Keys
  PROVE  [k EXCEPT !.phase = "Failed"] \in Keys /\ [k EXCEPT !.phase = "Failed"].ver = k.ver
  BY DEF Keys, Phases

LEMMA KFailTyped == ASSUME Typed, KFail PROVE KeySide
  BY FailedTyped, KLeaveTyped, KeyReads DEF KFail

LEMMA KErrorTyped == ASSUME Typed, NEW k \in Keys, k.ver <= edits, KError(k) PROVE KeySide
<1>1. CASE KLeave([k EXCEPT !.phase = "Failed"])
  BY <1>1, FailedTyped, KLeaveTyped
<1>2. CASE key' = k /\ kw' = [kw EXCEPT !.obj = k, !.pc = "mark", !.err = TRUE]
  <2>1. kw' \in KWorkers /\ kw'.pc = "mark"
    BY <1>2, KeyReads DEF KWorkers, KPoints, KWorking
  <2> QED BY <1>2, <2>1 DEF KeySide, KeyWorker, KHolding, KEarly
<1> QED BY <1>1, <1>2 DEF KError

LEMMA KGoTyped ==
  ASSUME Typed, KeyWorker, NEW pc \in KPlain, pc \in KEarly => kw.pc \in KEarly, KGo(pc) PROVE KeySide
<1>1. kw' \in KWorkers /\ kw'.pc = pc /\ kw'.tgt = kw.tgt
  BY KeyReads DEF KGo, KWorkers, KPlain
<1> QED BY <1>1, KeyReads DEF KGo, KeySide, KeyWorker, KPlain, KHolding, KEarly

LEMMA KPersistTyped ==
  ASSUME Typed, KeyWorker, NEW k \in Keys, k.ver = key.ver, NEW pc \in KPlain, pc \in KEarly => kw.pc \in KEarly,
         KPersist(k, pc)
  PROVE  KeySide
<1>1. kw' \in KWorkers /\ kw'.pc = pc /\ kw'.tgt = kw.tgt
  BY KeyReads DEF KPersist, KWorkers, KPlain
<1> QED BY <1>1, KeyReads DEF KPersist, KeySide, KeyWorker, KPlain, KHolding, KEarly

LEMMA LearnTyped ==
  ASSUME Typed, KeyWorker, NEW id \in KeyId, LearnKey(id), key' = key, kw.pc \in KEarly
  PROVE  KeySide
<1> DEFINE p == IF kw.obj.id = id THEN "perms" ELSE "bind"
           c == [b \in BucketId |-> remote.perm[b][id]]
<1>1. p \in {"perms", "bind"}
  OBVIOUS
<1>2. c \in [BucketId -> SUBSET Perm]
  BY KeyReads DEF Garages, Perms
<1>3. kw' = [kw EXCEPT !.id = id, !.full = TRUE, !.cur = c, !.pc = p]
  BY DEF LearnKey
<1> HIDE DEF p, c
<1>4. kw' \in KWorkers /\ kw'.pc = p /\ kw'.id = id /\ kw'.tgt = kw.tgt
  BY <1>1, <1>2, <1>3, KeyReads DEF KWorkers, KPoints, KWorking, KHolding, KeyIds
<1> QED BY <1>1, <1>4, KeyReads, Constants DEF KeySide, KeyWorker, KHolding, KEarly

LEMMA StartKeyTyped == ASSUME Typed, KeyWorker, StartKey PROVE KeySide
<1>1. CASE key' = NoKey /\ UNCHANGED kw
  <2>1. key'.ver = 0
    BY <1>1 DEF NoKey
  <2> QED BY <1>1, <2>1, NoObjectsTyped DEF KeySide, KeyWorker, Typed
<1>2. CASE kw' = [KeyIdle(key) EXCEPT !.pc = "finalize"] /\ UNCHANGED key
  <2>1. kw' \in KWorkers /\ kw'.pc = "finalize"
    BY <1>2, KeyReads, KeyIdleTyped DEF KWorkers, KPoints
  <2> QED BY <1>2, <2>1, KeyReads DEF KeySide, KeyWorker, KHolding, KEarly
<1>3. ASSUME NEW k \in Keys, k.ver = key.ver, key' = k, UNCHANGED kw PROVE KeySide
  BY <1>3, KeyReads DEF KeySide, KeyWorker, Typed
<1>4. CASE kw' = [KeyIdle(key) EXCEPT !.pc = "resolve"] /\ UNCHANGED key
  <2>1. kw' \in KWorkers /\ kw'.pc = "resolve" /\ kw'.tgt = {}
    BY <1>4, KeyReads, KeyIdleTyped DEF KWorkers, KPoints, KWorking, KeyIdle
  <2> QED BY <1>4, <2>1, KeyReads DEF KeySide, KeyWorker, KHolding, KEarly
<1>5. /\ [key EXCEPT !.phase = "Failed"] \in Keys /\ [key EXCEPT !.phase = "Failed"].ver = key.ver
      /\ [key EXCEPT !.phase = "Pending"] \in Keys /\ [key EXCEPT !.phase = "Pending"].ver = key.ver
      /\ [key EXCEPT !.fin = TRUE] \in Keys /\ [key EXCEPT !.fin = TRUE].ver = key.ver
  BY KeyReads DEF Keys, Phases
<1> QED BY <1>1, <1>2, <1>3, <1>4, <1>5 DEF StartKey

LEMMA GetKeyTyped ==
  ASSUME Typed, KeyWorker, KeyObject, SnapshotKnown,
         \/ GetTrackedKey \/ EnsureImportKeySnapshot \/ PinImport \/ ImportPinnedKey
         \/ CreateOrAdoptDeterministic \/ PersistAccessKeyID
  PROVE  KeySide /\ remote' \in Garages /\ snapshot' \in [by : UID, id : KeyIds]
<1> USE DEF K
<1>1. kw.pc \in KEarly /\ key \in Keys /\ key.ver <= edits
  BY KeyReads DEF GetTrackedKey, EnsureImportKeySnapshot, PinImport, ImportPinnedKey, CreateOrAdoptDeterministic,
     PersistAccessKeyID, KEarly, KHolding
<1>2. snapshot \in [by : UID, id : KeyIds]
  BY DEF Typed
<1>3. \A id \in KeyId, n \in BOOLEAN : [remote EXCEPT !.name[id] = n] \in Garages
  BY KeyReads DEF Garages
<1>4. CASE GetTrackedKey
  <2>1. kw.obj.id \in KeyId
    BY <1>4, KeyReads DEF GetTrackedKey, IsKey, KeyIds
  <2>2. remote' \in Garages
    BY <1>3, <1>4, <2>1, KeyReads DEF GetTrackedKey
  <2> QED BY <1>1, <1>2, <1>4, <2>1, <2>2, LearnTyped DEF GetTrackedKey
<1>5. CASE EnsureImportKeySnapshot
  <2>1. KGo("pin") \/ KError(key)
    BY <1>5 DEF EnsureImportKeySnapshot
  <2>2. KeySide
    BY <1>1, <2>1, KGoTyped, KErrorTyped DEF KPlain, KPoints, KWorking, KHolding, KEarly
  <2>3. source \in KeyIds
    BY Constants DEF Typed, KeyIds
  <2> QED BY <1>2, <1>5, <2>2, <2>3, KeyReads DEF EnsureImportKeySnapshot
<1>6. CASE PinImport
  <2>1. CASE KError(key)
    BY <1>1, <1>2, <1>6, <2>1, KErrorTyped, KeyReads DEF PinImport
  <2>2. CASE IsKey(snapshot.id) /\ LearnKey(snapshot.id) /\ UNCHANGED key
    BY <1>1, <1>2, <1>6, <2>2, LearnTyped, KeyReads DEF PinImport, IsKey, KeyIds
  <2>3. CASE KPersist([key EXCEPT !.pin = snapshot.id], "import")
    <3>1. [key EXCEPT !.pin = snapshot.id] \in Keys /\ [key EXCEPT !.pin = snapshot.id].ver = key.ver
      BY KeyReads DEF Keys
    <3> QED BY <1>1, <1>2, <1>6, <2>3, <3>1, KPersistTyped, KeyReads DEF PinImport, KPlain, KPoints, KWorking, KHolding, KEarly
  <2> QED BY <1>6, <2>1, <2>2, <2>3 DEF PinImport
<1>7. CASE ImportPinnedKey
  <2>1. snapshot.id \in KeyId
    BY <1>7, KeyReads DEF ImportPinnedKey, SnapshotKnown, KeyIds
  <2>2. ImportKey(remote, snapshot.id, kw.obj.uid, kw.obj.renamed) \in Garages
    BY <2>1, ImportKeyTyped, KeyReads
  <2> QED BY <1>1, <1>2, <1>7, <2>1, <2>2, LearnTyped, KErrorTyped, KeyReads DEF ImportPinnedKey
<1>8. CASE CreateOrAdoptDeterministic
  <2>1. Derived(kw.obj.nonce) \in KeyId /\ Legacy \in KeyId
    BY KeyReads, Constants
  <2>2. CASE kw.obj.nonce < MaxNonce /\ KError([key EXCEPT !.nonce = @ + 1]) /\ UNCHANGED remote
    <3>1. key.nonce = kw.obj.nonce
      BY <1>8 DEF CreateOrAdoptDeterministic, KeyObject, SameKey
    <3>2. [key EXCEPT !.nonce = @ + 1] \in Keys /\ [key EXCEPT !.nonce = @ + 1].ver = key.ver
      BY <2>2, <3>1, KeyReads, Constants DEF Keys
    <3> QED BY <1>1, <1>2, <1>8, <2>2, <3>2, KErrorTyped, KeyReads DEF CreateOrAdoptDeterministic
  <2>3. CASE remote' = [remote EXCEPT !.name[Legacy] = TRUE] /\ LearnKey(Legacy) /\ UNCHANGED key
    BY <1>1, <1>2, <1>3, <1>8, <2>1, <2>3, LearnTyped DEF CreateOrAdoptDeterministic
  <2> DEFINE id == Derived(kw.obj.nonce)
  <2>4. CASE remote' = ImportKey(remote, id, kw.obj.uid, kw.obj.renamed) /\ LearnKey(id) /\ UNCHANGED key
    BY <1>1, <1>2, <1>8, <2>1, <2>4, LearnTyped, ImportKeyTyped, KeyReads DEF CreateOrAdoptDeterministic
  <2>5. CASE remote' = [remote EXCEPT !.name[id] = kw.obj.renamed] /\ LearnKey(id) /\ UNCHANGED key
    BY <1>1, <1>2, <1>3, <1>8, <2>1, <2>5, LearnTyped, KeyReads DEF CreateOrAdoptDeterministic
  <2> QED BY <1>8, <2>2, <2>3, <2>4, <2>5 DEF CreateOrAdoptDeterministic
<1>9. CASE PersistAccessKeyID
  <2>1. [key EXCEPT !.id = kw.id] \in Keys /\ [key EXCEPT !.id = kw.id].ver = key.ver
    BY KeyReads DEF Keys
  <2>2. kw' \in KWorkers /\ kw'.pc = "perms" /\ kw'.id = kw.id /\ kw'.tgt = kw.tgt
    BY <1>9, <2>1, KeyReads DEF PersistAccessKeyID, KPersist, KWorkers, KPoints, KWorking, KHolding
  <2> QED BY <1>1, <1>2, <1>9, <2>1, <2>2, KeyReads DEF PersistAccessKeyID, KPersist, KeySide, KeyWorker, KHolding, KEarly
<1> QED BY <1>4, <1>5, <1>6, <1>7, <1>8, <1>9

LEMMA KeyReserveTyped == ASSUME Typed, KeyWorker, ReserveBucketGrants PROVE KeySide
<1> DEFINE mb == kw.obj.mBuckets \cup KeyManaged
           w == kw.obj.wide \/ kw.obj.all
           next == [key EXCEPT !.mBuckets = mb, !.wide = w]
<1>1. kw.pc = "perms" /\ kw.id # 0
  BY DEF ReserveBucketGrants, K, KeyWorker, KHolding
<1>2. CASE KeyPending /\ KError(key)
  BY <1>2, KErrorTyped, KeyReads
<1>3. ASSUME ~KeyPending PROVE mb \in SUBSET BucketId /\ KeyManaged \in SUBSET BucketId /\ w \in BOOLEAN
  BY <1>3, KeyReads DEF KeyPending, KeyManaged, Keys, Ids
<1>4. ASSUME ~KeyPending PROVE next \in Keys /\ next.ver = key.ver
  <2>1. mb \in SUBSET BucketId /\ w \in BOOLEAN
    BY <1>3, <1>4
  <2> HIDE DEF mb, w
  <2> QED BY <2>1, KeyReads DEF Keys
<1>5. CASE ~KeyPending /\ KError(next)
  <2> HIDE DEF next
  <2> QED BY <1>4, <1>5, KErrorTyped, KeyReads
<1> DEFINE same == next.mBuckets = kw.obj.mBuckets /\ next.wide = kw.obj.wide
           o == IF same THEN kw.obj ELSE next
           e == kw.obj.bp.on /\ ~KeyRefers
           t == next.mBuckets \cup KeyManaged \cup ListedBuckets \cup KeyUnauthorized
                  \cup (IF next.wide THEN {b \in BucketId : kw.cur[b] # {}} ELSE {})
<1>6. CASE /\ ~KeyPending /\ key' = next
           /\ kw' = [kw EXCEPT !.obj = o, !.pc = "union", !.des = KeyDesired, !.man = KeyManaged, !.err = e, !.tgt = t]
  <2>1. o \in Keys
    BY <1>4, <1>6, KeyReads
  <2>2. e \in BOOLEAN
    BY KeyReads DEF Keys, Decl
  <2>3. next.mBuckets = mb
    BY KeyReads DEF Keys
  <2>4. t \in SUBSET BucketId
    <3>1. KeyUnauthorized \in SUBSET BucketId
      BY KeyReads DEF KeyUnauthorized, Ids
    <3> HIDE DEF next
    <3> QED BY <1>3, <1>6, <2>3, <3>1 DEF ListedBuckets
  <2>5. KeyDesired \in [BucketId -> SUBSET Perm]
    <3>1. kw.obj.bp.p \in SUBSET Perm
      BY KeyReads DEF Keys, Decl
    <3> QED BY <3>1 DEF KeyDesired
  <2>6. kw' = [kw EXCEPT !.obj = o, !.pc = "union", !.des = KeyDesired, !.man = KeyManaged, !.err = e, !.tgt = t]
    BY <1>6
  <2>7. next \in Keys /\ next.ver = key.ver /\ KeyManaged \in SUBSET BucketId
    BY <1>3, <1>4, <1>6
  <2> HIDE DEF o, e, t, next
  <2>8. kw' \in KWorkers /\ kw'.pc = "union" /\ kw'.id = kw.id /\ kw'.tgt = t
    BY <2>1, <2>2, <2>4, <2>5, <2>6, <2>7, KeyReads DEF KWorkers, KPoints, KWorking, KHolding
  <2> QED BY <1>1, <1>6, <2>4, <2>7, <2>8, KeyReads DEF KeySide, KeyWorker, KHolding, KEarly
<1> QED BY <1>2, <1>5, <1>6 DEF ReserveBucketGrants

LEMMA KeyUnionTyped == ASSUME Typed, KeyWorker, UnionBucketPermissions PROVE KeySide
<1> DEFINE i == BucketIdentity
           t == IF BucketReserves /\ i # 0 THEN kw.tgt \cup {i} ELSE kw.tgt
           e == IF i = 0 THEN kw.err ELSE kw.err \/ (bucket.kp.on /\ ~Permitted("bucket-key"))
           f == IF bucket.kp.on /\ Permitted("bucket-key") /\ BucketReserves
                THEN kw.des[i] \cup bucket.kp.p ELSE kw.des[i]
           d == IF i = 0 THEN kw.des ELSE [kw.des EXCEPT ![i] = f]
<1>1. kw' = [kw EXCEPT !.pc = "apply", !.tgt = t, !.err = e, !.des = d] /\ kw.pc = "union" /\ key' = key
  <2>1. CASE i = 0
    BY <2>1, KeyReads DEF UnionBucketPermissions, K, KWorkers
  <2>2. CASE i # 0
    BY <2>2, KeyReads DEF UnionBucketPermissions, K, KWorkers
  <2> QED BY <2>1, <2>2
<1>2. bucket.kp.p \in SUBSET Perm /\ bucket.kp.on \in BOOLEAN /\ i \in Ids
  BY Constants DEF Typed, Buckets, Decl, BucketIdentity, Ids
<1>3. kw.des \in [BucketId -> SUBSET Perm] /\ kw.tgt \in SUBSET BucketId /\ kw.err \in BOOLEAN /\ kw.id # 0
  BY <1>1, KeyReads DEF KWorkers, KeyWorker, KEarly, KHolding
<1>4. t \in SUBSET BucketId /\ e \in BOOLEAN
  BY <1>2, <1>3 DEF Ids
<1>5. d \in [BucketId -> SUBSET Perm]
  <2>1. CASE i = 0
    BY <1>3, <2>1
  <2>2. CASE i # 0
    <3>1. i \in BucketId /\ kw.des[i] \in SUBSET Perm
      BY <1>2, <1>3, <2>2 DEF Ids
    <3>2. f \in SUBSET Perm
      BY <1>2, <3>1
    <3> HIDE DEF f, i
    <3> QED BY <1>3, <2>2, <3>1, <3>2
  <2> QED BY <2>1, <2>2
<1> HIDE DEF t, e, d
<1>6. kw' \in KWorkers /\ kw'.pc = "apply" /\ kw'.id = kw.id /\ kw'.tgt = t
  BY <1>1, <1>4, <1>5, KeyReads DEF KWorkers, KPoints, KWorking, KHolding
<1> QED BY <1>1, <1>3, <1>4, <1>6, KeyReads DEF KeySide, KeyWorker, KHolding, KEarly

LEMMA KeyApplyTyped == ASSUME Typed, KeyWorker, ApplyBucketPermissions PROVE KeySide /\ remote' \in Garages
<1>1. PICK b \in kw.tgt :
        /\ remote' = Exact(remote, b, kw.id, kw.cur[b], kw.des[b])
        /\ kw' = [kw EXCEPT !.tgt = @ \ {b}, !.err = @ \/ ExactFails(b, kw.id, kw.cur[b], kw.des[b])]
  BY DEF ApplyBucketPermissions
<1>2. kw.pc = "apply" /\ key' = key
  BY DEF ApplyBucketPermissions, K
<1>3. b \in BucketId /\ kw.id \in KeyId /\ kw.cur[b] \in SUBSET Perm /\ kw.des[b] \in SUBSET Perm
  <2>1. b \in BucketId /\ kw.id \in KeyId
    BY <1>1, <1>2, KeyReads DEF KeyWorker, KEarly, KHolding, KeyIds
  <2> QED BY <2>1, KeyReads DEF KWorkers
<1>4. remote' \in Garages
  BY <1>1, <1>3, ExactTyped, KeyReads
<1> DEFINE e == kw.err \/ ExactFails(b, kw.id, kw.cur[b], kw.des[b])
<1>5. e \in BOOLEAN
  BY KeyReads DEF KWorkers, ExactFails
<1> HIDE DEF e
<1>6. kw' = [kw EXCEPT !.tgt = kw.tgt \ {b}, !.err = e]
  BY <1>1 DEF e
<1>7. kw' \in KWorkers /\ kw'.pc = kw.pc /\ kw'.tgt = kw.tgt \ {b} /\ kw'.id = kw.id
  BY <1>5, <1>6, KeyReads DEF KWorkers
<1> QED BY <1>2, <1>4, <1>7, KeyReads DEF KeySide, KeyWorker, KHolding, KEarly

LEMMA KeyNarrowTyped == ASSUME Typed, KeyWorker, NarrowBucketGrants PROVE KeySide
<1> DEFINE next == [key EXCEPT !.mBuckets = kw.man, !.wide = kw.obj.all]
           same == kw.man = kw.obj.mBuckets /\ kw.obj.wide = kw.obj.all
           o == IF same THEN kw.obj ELSE next
<1>1. next \in Keys /\ next.ver = key.ver
  BY KeyReads DEF Keys, KWorkers
<1>2. CASE KError(key)
  BY <1>2, KErrorTyped, KeyReads
<1>3. CASE KError(next)
  <2> HIDE DEF next
  <2> QED BY <1>1, <1>3, KErrorTyped, KeyReads
<1>4. CASE key' = next /\ kw' = [kw EXCEPT !.obj = o, !.pc = "mark"]
  <2>1. o \in Keys
    BY <1>1, KeyReads
  <2> HIDE DEF o, next
  <2>2. kw' \in KWorkers /\ kw'.pc = "mark"
    BY <1>4, <2>1, KeyReads DEF KWorkers, KPoints, KWorking
  <2> QED BY <1>1, <1>4, <2>2, KeyReads DEF KeySide, KeyWorker, KHolding, KEarly
<1> QED BY <1>2, <1>3, <1>4 DEF NarrowBucketGrants

LEMMA SecretStepsTyped ==
  ASSUME Typed, KeyWorker,
         \/ MarkPreviousGeneratedSecret \/ PublishSecret \/ PersistSecretRef \/ CleanupStaleGeneratedSecrets
         \/ UpdateKeyStatus
  PROVE  KeySide /\ secrets' \in Secrets
<1> USE DEF K
<1>1. kw.obj.sref \in SecretName \cup {NoAlias} /\ kw.obj.sec \in SecretName /\ kw.full \in BOOLEAN /\ kw.obj.uid \in UID
  BY KeyReads DEF Keys, KWorkers
<1>2. ASSUME NEW pc \in {"publish", "sweep", "status"}, KGo(pc) PROVE KeySide
  BY <1>2, KGoTyped DEF KPlain, KPoints, KWorking, KHolding, KEarly
<1>3. CASE MarkPreviousGeneratedSecret
  <2>1. secrets' \in Secrets
    <3>1. CASE kw.obj.sref \in SecretName
      BY <1>1, <1>3, <3>1, KeyReads DEF MarkPreviousGeneratedSecret, Secrets
    <3>2. CASE kw.obj.sref = NoAlias
      BY <1>3, <3>2, KeyReads DEF MarkPreviousGeneratedSecret
    <3> QED BY <1>1, <3>1, <3>2
  <2> QED BY <1>2, <1>3, <2>1, KFailTyped DEF MarkPreviousGeneratedSecret
<1>4. CASE PublishSecret
  <2>1. CASE KFail /\ UNCHANGED secrets
    BY <2>1, KFailTyped, KeyReads
  <2> DEFINE name == kw.obj.sec
             full == kw.full \/ secrets[name].full
             o == [kw.obj EXCEPT !.sref = name]
  <2>2. CASE /\ secrets' = [secrets EXCEPT ![name] = [by |-> kw.obj.uid, label |-> kw.obj.uid, full |-> full]]
             /\ kw' = [kw EXCEPT !.obj = o, !.pc = "handoff"] /\ UNCHANGED key
    <3>1. full \in BOOLEAN
      BY <1>1, KeyReads DEF Secrets
    <3> HIDE DEF full
    <3>2. secrets' \in Secrets
      BY <1>1, <2>2, <3>1, KeyReads DEF Secrets
    <3>3. o \in Keys
      BY <1>1, KeyReads DEF Keys
    <3> HIDE DEF o
    <3>4. kw' \in KWorkers /\ kw'.pc = "handoff"
      BY <2>2, <3>3, KeyReads DEF KWorkers, KPoints, KWorking
    <3> QED BY <2>2, <3>2, <3>4, KeyReads DEF KeySide, KeyWorker, KHolding, KEarly
  <2>3. ASSUME ~(KFail /\ UNCHANGED secrets)
        PROVE /\ secrets' = [secrets EXCEPT ![name] = [by |-> kw.obj.uid, label |-> kw.obj.uid, full |-> full]]
              /\ kw' = [kw EXCEPT !.obj = o, !.pc = "handoff"] /\ UNCHANGED key
    BY <1>4, <2>3, <1>1, KeyReads DEF PublishSecret, Secrets, KWorkers
  <2> QED BY <2>1, <2>2, <2>3
<1>5. CASE PersistSecretRef
  <2> DEFINE next == [key EXCEPT !.sref = kw.obj.sref]
  <2>1. next \in Keys /\ next.ver = key.ver
    BY <1>1, KeyReads DEF Keys
  <2> HIDE DEF next
  <2>2. CASE KGo("sweep")
    BY <1>2, <1>5, <2>2, KeyReads DEF PersistSecretRef
  <2>3. CASE key' = next /\ kw' = [kw EXCEPT !.obj = next, !.pc = "sweep"]
    <3>1. kw' \in KWorkers /\ kw'.pc = "sweep"
      BY <2>1, <2>3, KeyReads DEF KWorkers, KPoints, KWorking
    <3> QED BY <1>5, <2>1, <2>3, <3>1, KeyReads DEF PersistSecretRef, KeySide, KeyWorker, KHolding, KEarly
  <2> QED BY <1>5, <2>2, <2>3 DEF PersistSecretRef, next
<1>6. CASE CleanupStaleGeneratedSecrets
  <2>1. NoSecret \in [by : UID, label : UID, full : BOOLEAN]
    BY Constants DEF NoSecret, UID
  <2>2. secrets' \in Secrets
    BY <1>6, <2>1, KeyReads DEF CleanupStaleGeneratedSecrets, Secrets
  <2> QED BY <1>2, <1>6, <2>2, KFailTyped DEF CleanupStaleGeneratedSecrets
<1>7. CASE UpdateKeyStatus
  <2> DEFINE w == kw.obj.all
             l == key.lost \/ (key.wide /\ ~kw.obj.all)
             k == [key EXCEPT !.phase = "Ready", !.wide = w, !.lost = l]
  <2>0. w \in BOOLEAN /\ l \in BOOLEAN
    BY KeyReads DEF Keys
  <2>1. KLeave(k) \/ KLeave([key EXCEPT !.id = 0])
    BY <1>7, KeyReads DEF UpdateKeyStatus, Keys
  <2> HIDE DEF w, l
  <2>2. /\ k \in Keys /\ k.ver = key.ver
        /\ [key EXCEPT !.id = 0] \in Keys /\ [key EXCEPT !.id = 0].ver = key.ver
    BY <2>0, KeyReads DEF Keys, Phases, KeyIds
  <2>3. UNCHANGED <<secrets, snapshot, remote>>
    BY <1>7 DEF UpdateKeyStatus
  <2> HIDE DEF k
  <2> QED BY <2>1, <2>2, <2>3, KLeaveTyped, KeyReads
<1> QED BY <1>3, <1>4, <1>5, <1>6, <1>7

LEMMA FinalizeKeyTyped ==
  ASSUME Typed, KeyWorker, FinalizeKey \/ RevokeAndDeleteKey \/ DropKeyFinalizer
  PROVE  KeySide /\ remote' \in Garages
<1> USE DEF K
<1>1. CASE FinalizeKey
  <2>1. DeterministicIDs \in SUBSET KeyId /\ RecordedIDs \in SUBSET KeyId
    BY KeyReads, Constants DEF DeterministicIDs, RecordedIDs, KeyIds
  <2>2. ASSUME NEW t \in SUBSET KeyId, kw' = [kw EXCEPT !.tgt = t, !.pc = "revoke"] PROVE kw' \in KWorkers /\ KeyWorker'
    <3>1. kw' \in KWorkers /\ kw'.pc = "revoke" /\ kw'.tgt = t
      BY <2>2, KeyReads DEF KWorkers, KPoints
    <3> QED BY <3>1 DEF KeyWorker, KHolding, KEarly
  <2>3. CASE kw' = KeyIdle(NoKey)
    BY <1>1, <2>3, KLeaveTyped, KeyReads DEF FinalizeKey, KLeave
  <2> QED BY <1>1, <2>1, <2>2, <2>3, KeyReads DEF FinalizeKey, KeySide
<1>2. CASE RevokeAndDeleteKey
  <2>1. PICK id \in kw.tgt : remote' = DeleteKey(remote, id) /\ kw' = [kw EXCEPT !.tgt = @ \ {id}]
    BY <1>2 DEF RevokeAndDeleteKey
  <2>2. kw.pc = "revoke" /\ kw.tgt \subseteq KeyId /\ key' = key
    BY <1>2 DEF RevokeAndDeleteKey, KeyWorker
  <2>3. remote' \in Garages
    BY <2>1, <2>2, DeleteKeyTyped, KeyReads
  <2>4. kw' \in KWorkers /\ kw'.pc = "revoke" /\ kw'.tgt = kw.tgt \ {id}
    BY <2>1, <2>2, KeyReads DEF KWorkers
  <2> QED BY <2>2, <2>3, <2>4, KeyReads DEF KeySide, KeyWorker, KHolding, KEarly
<1>3. CASE DropKeyFinalizer
  <2>1. NoKey.ver = 0
    BY DEF NoKey
  <2> QED BY <1>3, <2>1, NoObjectsTyped, KLeaveTyped, KeyReads DEF DropKeyFinalizer, Typed
<1> QED BY <1>1, <1>2, <1>3

LEMMA KeyStepTyped ==
  ASSUME Typed, KeyWorker, KeyObject, SnapshotKnown, KeyNext \/ KeyFault
  PROVE  KeySide /\ remote' \in Garages /\ snapshot' \in [by : UID, id : KeyIds] /\ secrets' \in Secrets
<1>0. remote \in Garages /\ snapshot \in [by : UID, id : KeyIds] /\ secrets \in Secrets
  BY DEF Typed
<1>1. CASE StartKey
  BY <1>0, <1>1, StartKeyTyped DEF StartKey
<1>2. CASE \/ GetTrackedKey \/ EnsureImportKeySnapshot \/ PinImport \/ ImportPinnedKey
           \/ CreateOrAdoptDeterministic \/ PersistAccessKeyID
  <2>1. UNCHANGED secrets
    BY <1>2 DEF GetTrackedKey, EnsureImportKeySnapshot, PinImport, ImportPinnedKey, CreateOrAdoptDeterministic, PersistAccessKeyID
  <2> QED BY <1>0, <1>2, <2>1, GetKeyTyped
<1>3. CASE ReserveBucketGrants
  BY <1>0, <1>3, KeyReserveTyped DEF ReserveBucketGrants
<1>4. CASE UnionBucketPermissions
  BY <1>0, <1>4, KeyUnionTyped DEF UnionBucketPermissions
<1>5. CASE ApplyBucketPermissions
  BY <1>0, <1>5, KeyApplyTyped DEF ApplyBucketPermissions
<1>6. CASE NarrowBucketGrants
  BY <1>0, <1>6, KeyNarrowTyped DEF NarrowBucketGrants
<1>7. CASE \/ MarkPreviousGeneratedSecret \/ PublishSecret \/ PersistSecretRef \/ CleanupStaleGeneratedSecrets
           \/ UpdateKeyStatus
  <2>1. UNCHANGED <<snapshot, remote>>
    BY <1>7 DEF MarkPreviousGeneratedSecret, PublishSecret, PersistSecretRef, CleanupStaleGeneratedSecrets, UpdateKeyStatus
  <2> QED BY <1>0, <1>7, <2>1, SecretStepsTyped
<1>8. CASE FinalizeKey \/ RevokeAndDeleteKey \/ DropKeyFinalizer
  <2>1. UNCHANGED <<snapshot, secrets>>
    BY <1>8 DEF FinalizeKey, RevokeAndDeleteKey, DropKeyFinalizer
  <2> QED BY <1>0, <1>8, <2>1, FinalizeKeyTyped
<1>9. CASE CollectKeySecrets
  <2>1. KeySide
    BY <1>9, KeyReads DEF CollectKeySecrets, KeySide, KeyWorker
  <2>2. NoSecret \in [by : UID, label : UID, full : BOOLEAN] /\ [by |-> 0, id |-> 0] \in [by : UID, id : KeyIds]
    BY Constants DEF NoSecret, UID, KeyIds
  <2>3. secrets' \in Secrets /\ snapshot' \in [by : UID, id : KeyIds]
    BY <1>0, <1>9, <2>2 DEF CollectKeySecrets, Secrets
  <2> QED BY <1>0, <1>9, <2>1, <2>3 DEF CollectKeySecrets
<1>10. CASE KeyFault
  <2>1. KLeave(key) \/ KError(key) \/ KFail
    BY <1>10 DEF KeyFault, KLeave
  <2> QED BY <1>0, <1>10, <2>1, KLeaveTyped, KErrorTyped, KFailTyped, KeyReads DEF KeyFault
<1> QED BY <1>1, <1>2, <1>3, <1>4, <1>5, <1>6, <1>7, <1>8, <1>9, <1>10 DEF KeyNext

-----------------------------------------------------------------------------
(* Types: the other controllers, users, the start.                         *)

LEMMA TokenTyped == ASSUME Typed, TokenNext \/ TokenFault PROVE token' \in Tokens
<1>1. token \in Tokens
  BY DEF Typed
<1>2. \A t \in Tokens : [t EXCEPT !.pc = "idle", !.read = 0, !.new = 0] \in Tokens
  BY DEF Tokens
<1>4. CASE StartToken
  BY ZenonT(60), <1>1, <1>4 DEF StartToken, Tokens, Phases
<1>5. CASE ReconcileTokenSecret
  <2>1. [token EXCEPT !.phase = "Failed"] \in Tokens
    BY <1>1 DEF Tokens, Phases
  <2>2. CASE TStop([token EXCEPT !.phase = "Failed"])
    BY <1>2, <2>1, <2>2 DEF TStop
  <2>3. CASE token' = [token EXCEPT !.pc = "status", !.new = token.sec.val]
    BY <1>1, <2>3 DEF Tokens
  <2>4. CASE token' = [token EXCEPT !.sec = [by |-> token.uid, val |-> token.next],
                                    !.next = @ + 1, !.pc = "status", !.new = token.next]
    <3> DEFINE s == [by |-> token.uid, val |-> token.next]
               n == token.next + 1
    <3>1. s \in [by : Nat, val : Nat] /\ n \in Nat /\ token.next \in Nat
      BY <1>1 DEF Tokens
    <3>2. token' = [token EXCEPT !.sec = s, !.next = n, !.pc = "status", !.new = token.next]
      BY <1>1, <2>4 DEF Tokens
    <3> HIDE DEF s, n
    <3> QED BY <1>1, <3>1, <3>2 DEF Tokens
  <2> QED BY <1>5, <2>2, <2>3, <2>4 DEF ReconcileTokenSecret
<1>6. CASE PublishTokenStatus
  <2>1. [token EXCEPT !.phase = "Ready", !.digest = token.new] \in Tokens
    BY <1>1 DEF Tokens, Phases
  <2> QED BY <1>1, <1>2, <1>6, <2>1 DEF PublishTokenStatus, TStop
<1>7. CASE FinalizeToken
  <2>1. [token EXCEPT !.sec = [by |-> 0, val |-> 0], !.pc = "drop"] \in Tokens
    BY <1>1 DEF Tokens
  <2> QED BY <1>1, <1>2, <1>7, <2>1 DEF FinalizeToken, TStop
<1>8. CASE DropTokenFinalizer
  BY <1>1, <1>8 DEF DropTokenFinalizer, NoToken, Tokens, Phases
<1>9. CASE TokenFault
  <2>1. CASE TStop(token)
    BY <1>1, <1>2, <2>1 DEF TStop
  <2>2. CASE FailTokenCreate
    <3> DEFINE n == token.next + 1
               l == token.lost \cup {token.next}
               d == IF token.read = token.ver THEN token.next ELSE token.digest
    <3>1. n \in Nat /\ l \in SUBSET Nat /\ d \in Nat
      BY <1>1 DEF Tokens
    <3>2. [token EXCEPT !.phase = "Failed", !.next = n, !.lost = l, !.digest = d] \in Tokens
      <4> HIDE DEF n, l, d
      <4> QED BY <1>1, <3>1 DEF Tokens, Phases
    <3>3. TStop([token EXCEPT !.phase = "Failed", !.next = n, !.lost = l, !.digest = d])
      BY <1>1, <2>2 DEF FailTokenCreate, Tokens
    <3> HIDE DEF n, l, d
    <3> QED BY <1>2, <3>2, <3>3 DEF TStop
  <2> QED BY <1>9, <2>1, <2>2 DEF TokenFault
<1> QED BY <1>4, <1>5, <1>6, <1>7, <1>8, <1>9 DEF TokenNext

\* A new incarnation has a number of its own.
LEMMA NextUIDTyped == ASSUME NEW f PROVE NextUID(f) \in Nat /\ NextUID(f) >= 1
<1> DEFINE U == {u \in 1..MaxUID : \E i \in DOMAIN f : f[i] = u}
<1>1. IsFiniteSet(1..MaxUID)
  BY Constants, FS_Interval
<1>2. IsFiniteSet(U)
  BY <1>1, FS_Subset
<1>3. Cardinality(U) \in Nat
  BY <1>2, FS_CardinalityType
<1> QED BY <1>3 DEF NextUID

LEMMA DeclsTyped == ASSUME NEW d \in Decls PROVE d \in Decl
<1>1. CASE d = Undeclared
  BY <1>1 DEF Decl, Undeclared
<1>2. CASE \E p \in SUBSET Perm : d = [on |-> TRUE, p |-> p]
  BY <1>2 DEF Decl
<1> QED BY <1>1, <1>2 DEF Decls

LEMMA EditBucketTyped == ASSUME Typed, EditBucket PROVE bucket' \in Buckets /\ bucket'.ver <= edits'
<1>1. bucket \in Buckets /\ bucket.ver <= edits /\ edits < MaxEdits /\ edits' = edits + 1 /\ edits \in 0..MaxEdits
  BY DEF Typed, EditBucket, Edit
<1>2. ASSUME NEW b \in Buckets, b.ver = bucket.ver, Change(b) PROVE bucket' \in Buckets /\ bucket'.ver <= edits'
  <2>1. bucket.ver + 1 \in 0..MaxEdits /\ bucket.ver \in 0..MaxEdits
    BY <1>1, Constants DEF Buckets
  <2> QED BY <1>1, <1>2, <2>1 DEF Change, Buckets
<1>3. \A d \in Decls : d \in Decl
  BY DeclsTyped
<1>4. \A d \in Decls : [bucket EXCEPT !.kp = d] \in Buckets /\ [bucket EXCEPT !.kp = d].ver = bucket.ver
  BY <1>1, <1>3 DEF Buckets
<1>5. \A a \in {"a1", "a2"} : [bucket EXCEPT !.alias = a] \in Buckets /\ [bucket EXCEPT !.alias = a].ver = bucket.ver
  BY <1>1 DEF Buckets
<1>6. \A l \in SUBSET LocalAlias : [bucket EXCEPT !.la = l] \in Buckets /\ [bucket EXCEPT !.la = l].ver = bucket.ver
  BY <1>1 DEF Buckets
<1>7. 1 - bucket.cfg \in 0..1 /\ 1 - bucket.life \in 0..1
  BY <1>1 DEF Buckets
<1>8. /\ [bucket EXCEPT !.cfg = 1 - @] \in Buckets /\ [bucket EXCEPT !.cfg = 1 - @].ver = bucket.ver
      /\ [bucket EXCEPT !.life = 1 - @] \in Buckets /\ [bucket EXCEPT !.life = 1 - @].ver = bucket.ver
      /\ [bucket EXCEPT !.mpu = TRUE] \in Buckets /\ [bucket EXCEPT !.mpu = TRUE].ver = bucket.ver
  BY <1>1, <1>7 DEF Buckets
<1> QED BY <1>2, <1>4, <1>5, <1>6, <1>8 DEF EditBucket

LEMMA EditKeyTyped == ASSUME Typed, EditKey PROVE key' \in Keys /\ key'.ver <= edits'
<1>1. key \in Keys /\ key.ver <= edits /\ edits < MaxEdits /\ edits' = edits + 1 /\ edits \in 0..MaxEdits
  BY DEF Typed, EditKey, Edit
<1>2. ASSUME NEW k \in Keys, k.ver = key.ver, ChangeKey(k) PROVE key' \in Keys /\ key'.ver <= edits'
  <2>1. key.ver + 1 \in 0..MaxEdits /\ key.ver \in 0..MaxEdits
    BY <1>1, Constants DEF Keys
  <2> QED BY <1>1, <1>2, <2>1 DEF ChangeKey, Keys
<1>3. \A d \in Decls : d \in Decl
  BY DeclsTyped
<1>4. \A d \in Decls : [key EXCEPT !.bp = d] \in Keys /\ [key EXCEPT !.bp = d].ver = key.ver
  BY <1>1, <1>3 DEF Keys
<1>5. \A s \in SecretName : [key EXCEPT !.sec = s] \in Keys /\ [key EXCEPT !.sec = s].ver = key.ver
  BY <1>1 DEF Keys
<1>6. /\ [key EXCEPT !.all = ~@] \in Keys /\ [key EXCEPT !.all = ~@].ver = key.ver
      /\ [key EXCEPT !.renamed = ~@] \in Keys /\ [key EXCEPT !.renamed = ~@].ver = key.ver
  <2> DEFINE p == ~key.all
             q == ~key.renamed
  <2>1. p \in BOOLEAN /\ q \in BOOLEAN
    OBVIOUS
  <2>2. [key EXCEPT !.all = ~@] = [key EXCEPT !.all = p] /\ [key EXCEPT !.renamed = ~@] = [key EXCEPT !.renamed = q]
    BY <1>1 DEF Keys
  <2> HIDE DEF p, q
  <2>3. /\ [key EXCEPT !.all = p] \in Keys /\ [key EXCEPT !.all = p].ver = key.ver
        /\ [key EXCEPT !.renamed = q] \in Keys /\ [key EXCEPT !.renamed = q].ver = key.ver
    BY <1>1, <2>1 DEF Keys
  <2> QED BY <2>2, <2>3
<1> QED BY <1>2, <1>4, <1>5, <1>6 DEF EditKey

LEMMA CreateOrDeleteTyped ==
  ASSUME Typed, CreateOrDelete
  PROVE  /\ bucket' \in Buckets /\ bucket'.ver <= edits'
         /\ key' \in Keys /\ key'.ver <= edits'
<1>1. /\ bucket \in Buckets /\ bucket.ver <= edits /\ bucket.ver \in Nat /\ edits' = edits + 1 /\ edits \in Nat
      /\ key \in Keys /\ key.ver <= edits /\ key.ver \in Nat
  BY Constants DEF Typed, CreateOrDelete, Edit, Buckets, Keys
<1>2. bucket.ver <= edits' /\ key.ver <= edits'
  BY <1>1
<1>3. ASSUME NEW u \in UID, NEW w \in {0, Foreign} PROVE NewBucket(u, w) \in Buckets /\ NewBucket(u, w).ver = 0
  <2>1. NoBucket.ver = 0
    BY DEF NoBucket
  <2> DEFINE n == NoBucket
  <2>2. n \in Buckets /\ n.ver = 0
    BY <2>1, NoObjectsTyped
  <2>3. NewBucket(u, w) = [n EXCEPT !.uid = u, !.want = w]
    BY DEF NewBucket
  <2> HIDE DEF n
  <2> DEFINE m == [n EXCEPT !.uid = u]
  <2>4. m \in Buckets /\ m.ver = 0
    BY <2>2 DEF Buckets
  <2>5. NewBucket(u, w) = [m EXCEPT !.want = w]
    BY <2>3
  <2> HIDE DEF m
  <2>6. [m EXCEPT !.want = w] \in Buckets /\ [m EXCEPT !.want = w].ver = m.ver
    BY <2>4, <1>3 DEF Buckets
  <2> QED BY <2>4, <2>5, <2>6
<1>4. \A u \in UID, i \in {"none", "ref"}, r \in BOOLEAN : NewKey(u, i, r) \in Keys /\ NewKey(u, i, r).ver = 0
  <2>1. NoKey.ver = 0
    BY DEF NoKey
  <2> QED BY <2>1, NoObjectsTyped DEF NewKey, Keys
<1>5. [bucket EXCEPT !.del = TRUE] \in Buckets /\ [bucket EXCEPT !.del = TRUE].ver = bucket.ver
  BY <1>1 DEF Buckets
<1>6. [key EXCEPT !.del = TRUE] \in Keys /\ [key EXCEPT !.del = TRUE].ver = key.ver
  BY <1>1 DEF Keys
<1>7. NextUID(remote.by) <= MaxUID => NextUID(remote.by) \in UID
  BY NextUIDTyped, Constants DEF UID
<1>8. NextUID(remote.keyBy) <= MaxUID => NextUID(remote.keyBy) \in UID
  BY NextUIDTyped, Constants DEF UID
<1>9. NoBucket.ver = 0 /\ NoKey.ver = 0
  BY DEF NoBucket, NoKey
<1>10. 0 <= edits'
  BY <1>1
<1>11. CASE focus = "bucket" /\ bucket.uid = 0
            /\ (\E want \in {0, Foreign}, uid \in {NextUID(remote.by)} : uid <= MaxUID /\ bucket' = NewBucket(uid, want))
            /\ UNCHANGED key
  BY <1>11, <1>1, <1>2, <1>3, <1>7, <1>10
<1>12. CASE bucket' = (IF bucket.fin THEN [bucket EXCEPT !.del = TRUE] ELSE NoBucket) /\ UNCHANGED key
  BY <1>12, <1>1, <1>2, <1>5, <1>9, <1>10, NoObjectsTyped
<1>13. CASE /\ \E renamed \in BOOLEAN, uid \in {NextUID(remote.keyBy)} :
                 uid <= MaxUID /\ key' = NewKey(uid, IF focus = "import" THEN "ref" ELSE "none", renamed)
            /\ UNCHANGED bucket
  BY <1>13, <1>1, <1>2, <1>4, <1>8, <1>10
<1>14. CASE key' = (IF key.fin THEN [key EXCEPT !.del = TRUE] ELSE NoKey) /\ UNCHANGED bucket
  BY <1>14, <1>1, <1>2, <1>6, <1>9, <1>10, NoObjectsTyped
<1> QED BY <1>11, <1>12, <1>13, <1>14 DEF CreateOrDelete

LEMMA GrantTyped ==
  ASSUME Typed, ReconcileGrant \/ EditGrant \/ TenantWatch \/ UNCHANGED grants
  PROVE  grants' \in Grants
<1>1. grants \in Grants
  BY DEF Typed
<1>2. CASE ReconcileGrant
  <2>1. PICK n \in grants.queue : grants' = [grants EXCEPT !.queue = @ \ {n}, !.inUse[n] = UsedBy(n)]
    BY <1>2 DEF ReconcileGrant
  <2> DEFINE u == UsedBy(n)
             q == grants.queue \ {n}
  <2>2. u \in BOOLEAN /\ n \in {"c", "k"} /\ q \in SUBSET {"c", "k"}
    BY <1>1 DEF Typed, Grants, Keys, Buckets, Decl, UsedBy
  <2>3. grants' = [grants EXCEPT !.queue = q, !.inUse[n] = u]
    BY <2>1
  <2> HIDE DEF u, q
  <2> QED BY <1>1, <2>2, <2>3 DEF Grants
<1>3. CASE EditGrant
  <2>1. PICK n \in {"c", "k"}, to \in SUBSET {"GarageCluster", "GarageBucket", "GarageKey"} :
          grants' = [grants EXCEPT !.to[n] = to, !.queue = @ \cup {n}]
    BY <1>3 DEF EditGrant
  <2> QED BY <1>1, <2>1 DEF Grants
<1> QED BY <1>1, <1>2, <1>3, WatchTyped

Base == Typed /\ BucketWorker /\ KeyWorker

\* The variables a step of each kind leaves alone.
LEMMA BucketFrame ==
  ASSUME BucketNext \/ BucketFault
  PROVE  UNCHANGED <<focus, key, secrets, source, snapshot, kw, token, edits>> /\ TenantWatch
                 /\ (UNCHANGED faults \/ Fault)
<1>1. BucketNext => BFrame
  BY DEF BucketNext, StartBucket, CleanupIncompleteUploads, RemoveCleanupAnnotation, GetOrCreateBucket,
     CreateReservedBucket, PersistBucketID, RemoveAbandonedAlias, ClearAbandonedAlias, ReserveGlobalAlias,
     AddGlobalAlias, RemovePreviousAlias, CompleteAliasHandoff, RemoveReservationAlias, ClearReservationAnnotation,
     UpdateBucketSettings, ReserveKeyGrants, UnionKeyPermissions, ApplyKeyPermissions, NarrowKeyGrants,
     ReserveLocalAliases, AddLocalAlias, RemoveLocalAliases, NarrowLocalAliases, ReconcileLifecycleSafe,
     VerifyLifecycleApplied, UpdateStatusFromGarage, BucketLookupTimeout, BucketDecodeError, FinalizeBucket,
     DropBucketFinalizer
<1> QED BY SMTT(60), <1>1 DEF BFrame, BucketFault

LEMMA KeyFrame ==
  ASSUME KeyNext \/ KeyFault
  PROVE  UNCHANGED <<focus, cluster, bucket, source, bw, token, edits>> /\ TenantWatch
                 /\ (UNCHANGED faults \/ Fault)
<1>1. KeyNext => KFrame
  BY DEF KeyNext, StartKey, GetTrackedKey, EnsureImportKeySnapshot, PinImport, ImportPinnedKey,
     CreateOrAdoptDeterministic, PersistAccessKeyID, ReserveBucketGrants, UnionBucketPermissions,
     ApplyBucketPermissions, NarrowBucketGrants, MarkPreviousGeneratedSecret, PublishSecret, PersistSecretRef,
     CleanupStaleGeneratedSecrets, UpdateKeyStatus, FinalizeKey, RevokeAndDeleteKey, DropKeyFinalizer,
     CollectKeySecrets
<1> QED BY SMTT(60), <1>1 DEF KFrame, KeyFault

UserNext ==
  EditBucket \/ EditKey \/ CreateOrDelete \/ EditGrant \/ EditToken \/ DeleteCluster \/ CollectBucket \/ Outside \/ RunRepair

LEMMA TokenFrame ==
  ASSUME TokenNext \/ TokenFault
  PROVE  UNCHANGED <<focus, cluster, bucket, key, secrets, source, snapshot, grants, remote, bw, kw, edits>>
                 /\ (UNCHANGED faults \/ Fault)
  BY DEF TokenNext, TokenFault, StartToken, ReconcileTokenSecret, PublishTokenStatus, FinalizeToken, DropTokenFinalizer, TFrame

LEMMA UserFrame ==
  ASSUME UserNext
  PROVE  UNCHANGED <<focus, bw, kw, faults, snapshot, secrets>> /\ (UNCHANGED edits \/ (edits < MaxEdits /\ edits' = edits + 1))
  BY DEF UserNext, Others, Edit, EditBucket, EditKey, CreateOrDelete, EditGrant, EditToken, DeleteCluster, CollectBucket,
     Outside, RunRepair

LEMMA NextCases == ASSUME Next PROVE \/ BucketNext \/ BucketFault \/ KeyNext \/ KeyFault \/ TokenNext \/ TokenFault
                                     \/ ReconcileGrant \/ UserNext
  BY DEF Next, UserNext

LEMMA UserTyped ==
  ASSUME Base, UserNext
  PROVE  /\ bucket' \in Buckets /\ bucket'.ver <= edits' /\ key' \in Keys /\ key'.ver <= edits'
         /\ ClusterTyped' /\ remote' \in Garages /\ source' \in Material /\ token' \in Tokens /\ grants' \in Grants
<1> USE DEF ClusterTyped
<1>1. /\ bucket \in Buckets /\ bucket.ver <= edits /\ key \in Keys /\ key.ver <= edits
      /\ ClusterTyped /\ remote \in Garages /\ source \in Material /\ token \in Tokens
  BY DEF Base, Typed
<1>2. edits' \in Nat /\ edits <= edits' /\ edits \in Nat
  BY UserFrame, Constants DEF Base, Typed
<1>3. bucket.ver <= edits' /\ key.ver <= edits' /\ bucket.ver \in Nat /\ key.ver \in Nat
  BY <1>1, <1>2, Constants DEF Buckets, Keys
<1>4. grants' \in Grants
  <2>1. ReconcileGrant \/ EditGrant \/ TenantWatch \/ UNCHANGED grants
    BY DEF UserNext, EditBucket, EditKey, CreateOrDelete, EditToken, DeleteCluster, CollectBucket, Outside, RunRepair
  <2> QED BY <2>1, GrantTyped DEF Base
<1>5. CASE EditBucket
  <2>1. key' = key
    BY <1>5 DEF EditBucket, Change
  <2> QED BY <1>1, <1>3, <1>4, <1>5, <2>1, EditBucketTyped DEF EditBucket, Base
<1>6. CASE EditKey
  <2>1. bucket' = bucket
    BY <1>6 DEF EditKey, ChangeKey
  <2> QED BY <1>1, <1>3, <1>4, <1>6, <2>1, EditKeyTyped DEF EditKey, Base
<1>7. CASE CreateOrDelete
  BY <1>1, <1>4, <1>7, CreateOrDeleteTyped DEF CreateOrDelete, Base
<1>8. CASE EditGrant
  BY <1>1, <1>3, <1>4, <1>8 DEF EditGrant
<1>9. CASE EditToken
  <2>1. [NoToken EXCEPT !.consumed = token.consumed, !.next = token.next] \in Tokens
    BY <1>1 DEF NoToken, Tokens, Phases
  <2>2. token' \in Tokens
    <3>1. CASE token' = [token EXCEPT !.uid = token.next]
      BY <1>1, <3>1 DEF Tokens
    <3>2. CASE token' = [token EXCEPT !.ver = @ + 1]
      <4>1. token.ver + 1 \in Nat
        BY <1>1 DEF Tokens
      <4> QED BY <1>1, <3>2, <4>1 DEF Tokens
    <3>3. CASE token' = [token EXCEPT !.del = TRUE]
      BY <1>1, <3>3 DEF Tokens
    <3>4. CASE token' = [token EXCEPT !.consumed = ~@]
      <4> DEFINE c == ~token.consumed
      <4>1. c \in BOOLEAN /\ token' = [token EXCEPT !.consumed = c]
        BY <1>1, <3>4 DEF Tokens
      <4> HIDE DEF c
      <4> QED BY <1>1, <4>1 DEF Tokens
    <3>5. CASE token' = [token EXCEPT !.sec = [by |-> 0, val |-> 0], !.lost = @ \cup {token.sec.val}]
      <4> DEFINE l == token.lost \cup {token.sec.val}
                 s == [by |-> 0, val |-> 0]
      <4>1. l \in SUBSET Nat /\ s \in [by : Nat, val : Nat] /\ token' = [token EXCEPT !.sec = s, !.lost = l]
        BY <1>1, <3>5 DEF Tokens
      <4> HIDE DEF l, s
      <4> QED BY <1>1, <4>1 DEF Tokens
    <3> QED BY <1>9, <2>1, <3>1, <3>2, <3>3, <3>4, <3>5 DEF EditToken
  <2> QED BY <1>1, <1>3, <1>4, <1>9, <2>2 DEF EditToken
<1>10. CASE DeleteCluster
  <2>1. ClusterTyped'
    BY <1>1, <1>10 DEF DeleteCluster
  <2> QED BY <1>1, <1>3, <1>4, <1>10, <2>1 DEF DeleteCluster
<1>11. CASE CollectBucket
  <2>1. [bucket EXCEPT !.del = TRUE] \in Buckets /\ [bucket EXCEPT !.del = TRUE].ver = bucket.ver
    BY <1>1 DEF Buckets
  <2> QED BY <1>1, <1>3, <1>4, <1>11, <2>1 DEF CollectBucket
<1>12. CASE Outside
  <2>1. ASSUME \E s \in {"ok", "hang", "decode"} : remote' = [remote EXCEPT !.sick = s] PROVE remote' \in Garages
    BY <1>1, <2>1 DEF Garages
  <2>2. ASSUME remote' = [remote EXCEPT !.alias["a2"] = 0] PROVE remote' \in Garages
    BY <1>1, <2>2 DEF Garages, Alias, Ids
  <2>3. ASSUME IsKey(key.id) /\ remote' = DeleteKey(remote, key.id) PROVE remote' \in Garages
    BY <1>1, <2>3, DeleteKeyTyped DEF IsKey, Keys, KeyIds
  <2>4. ASSUME IsBucket(bucket.id) /\ remote' = DeleteBucket(remote, bucket.id) PROVE remote' \in Garages
    BY <1>1, <2>4, DeleteBucketTyped DEF IsBucket, Buckets, Ids
  <2>a. ASSUME NEW full \in SUBSET {bucket.id}, IsBucket(bucket.id), remote' = [remote EXCEPT !.full = full] PROVE remote' \in Garages
    BY <1>1, <2>a DEF Garages, IsBucket, Buckets, Ids
  <2>5. remote' \in Garages
    BY <1>1, <1>12, <2>1, <2>2, <2>3, <2>4, <2>a DEF Outside
  <2>6. source' \in Material
    BY <1>1, <1>12 DEF Outside
  <2> QED BY <1>1, <1>3, <1>4, <1>12, <2>5, <2>6 DEF Outside
<1>13. CASE RunRepair
  <2>1. ClusterTyped'
    BY <1>1, <1>13 DEF RunRepair
  <2> DEFINE s == IF remote.sick = "decode" THEN "ok" ELSE remote.sick
  <2>2. s \in {"ok", "hang", "decode"}
    BY <1>1 DEF Garages
  <2>3. remote' = [remote EXCEPT !.sick = s]
    BY <1>13 DEF RunRepair
  <2> HIDE DEF s
  <2>4. remote' \in Garages
    BY <1>1, <2>2, <2>3 DEF Garages
  <2> QED BY <1>1, <1>3, <1>4, <1>13, <2>1, <2>4 DEF RunRepair
<1> QED BY <1>5, <1>6, <1>7, <1>8, <1>9, <1>10, <1>11, <1>12, <1>13 DEF UserNext

LEMMA BaseStep == ASSUME Base, KeyObject, SnapshotKnown, Next PROVE Base'
<1>1. CASE BucketNext \/ BucketFault
  <2>1. BucketSide /\ remote' \in Garages /\ ClusterTyped' /\ grants' \in Grants
    BY <1>1, BucketStepTyped, BucketFrame, GrantTyped DEF Base
  <2>2. faults' \in 0..MaxFaults
    BY <1>1, BucketFrame, Constants DEF Base, Typed, Fault
  <2> QED BY <1>1, <2>1, <2>2, BucketFrame DEF Base, Typed, BucketSide, KeyWorker, ClusterTyped
<1>2. CASE KeyNext \/ KeyFault
  <2>1. KeySide /\ remote' \in Garages /\ snapshot' \in [by : UID, id : KeyIds] /\ secrets' \in Secrets /\ grants' \in Grants
    BY <1>2, KeyStepTyped, KeyFrame, GrantTyped DEF Base
  <2>2. faults' \in 0..MaxFaults
    BY <1>2, KeyFrame, Constants DEF Base, Typed, Fault
  <2> QED BY <1>2, <2>1, <2>2, KeyFrame DEF Base, Typed, KeySide, BucketWorker
<1>3. CASE TokenNext \/ TokenFault
  <2>1. faults' \in 0..MaxFaults
    BY <1>3, TokenFrame, Constants DEF Base, Typed, Fault
  <2> QED BY <1>3, <2>1, TokenTyped, TokenFrame DEF Base, Typed, KeyWorker, BucketWorker
<1>4. CASE ReconcileGrant
  <2>1. grants' \in Grants
    BY <1>4, GrantTyped DEF Base
  <2> QED BY <1>4, <2>1 DEF ReconcileGrant, Base, Typed, KeyWorker, BucketWorker
<1>5. CASE UserNext
  <2>1. edits' \in 0..MaxEdits
    BY <1>5, UserFrame, Constants DEF Base, Typed
  <2> QED BY <1>5, <2>1, UserTyped, UserFrame DEF Base, Typed, KeyWorker, BucketWorker, ClusterTyped
<1> QED BY <1>1, <1>2, <1>3, <1>4, <1>5, NextCases

-----------------------------------------------------------------------------
(* The steps of a bucket's worker, field by field.                         *)

SameObj(b, c) == b.uid = c.uid /\ b.del = c.del /\ b.fin = c.fin /\ b.ver = c.ver /\ b.want = c.want
SameClaim(b, c) ==
  /\ b.og = c.og /\ b.rules = c.rules /\ b.rulesSet = c.rulesSet
  /\ b.timeouts = c.timeouts /\ b.decodes = c.decodes
SameMarks(b, c) ==
  b.rsv = c.rsv /\ b.id = c.id /\ b.mAlias = c.mAlias /\ b.pAlias = c.pAlias /\ b.mLocal = c.mLocal
SameWork(w, v) ==
  w.id = v.id /\ w.name = v.name /\ w.seen = v.seen /\ w.des = v.des /\ w.man = v.man /\ w.tgt = v.tgt /\ w.err = v.err

\* A step that leaves the object and the worker's copy of it alone.
Went(pc) == bucket' = bucket /\ bw'.pc = pc /\ bw'.obj = bw.obj /\ SameWork(bw', bw)
LEMMA GoFlat == ASSUME Base, NEW pc, Go(pc) PROVE Went(pc)
  BY DEF Base, Typed, BWorkers, Go, Went, SameWork

\* A step that writes the object.
Wrote(pc) ==
  /\ SameObj(bucket', bucket) /\ SameSpec(bucket', bucket) /\ SameClaim(bucket', bucket) /\ bucket'.phase = bucket.phase
  /\ bw'.pc = pc /\ bw'.obj = bucket' /\ SameWork(bw', bw)

\* A step that ends the reconcile.
Ended ==
  /\ bw' = Idle(NoBucket) /\ SameObj(bucket', bucket) /\ SameSpec(bucket', bucket) /\ SameMarks(bucket', bucket)
FailEnds ==
  Ended /\ SameClaim(bucket', bucket) /\ bucket'.phase = "Failed"

LEMMA FailFlat == ASSUME Base, Fail PROVE FailEnds /\ bucket'.mKeys = bucket.mKeys
  BY DEF Base, Typed, Buckets, Fail, Leave, FailEnds, Ended, SameObj, SameSpec, SameMarks, SameClaim

LEMMA LeaveFlat == ASSUME Leave(bucket) PROVE Ended /\ bucket' = bucket
  BY DEF Leave, Ended, SameObj, SameSpec, SameMarks

LEMMA IdleFlat == ASSUME NEW b PROVE /\ Idle(b).pc = "idle" /\ Idle(b).obj = b /\ Idle(b).id = 0 /\ Idle(b).name = NoAlias
                                     /\ Idle(b).seen = Unseen /\ Idle(b).man = {} /\ Idle(b).tgt = {} /\ Idle(b).err = FALSE
                                     /\ Idle(b).des = [k \in KeyId |-> {}]
  BY DEF Idle

LEMMA StartFlat ==
  ASSUME Base, StartBucket
  PROVE  /\ bw.pc = "idle" /\ bucket.uid # 0 /\ UNCHANGED <<cluster, remote>>
         /\ \/ /\ bucket.del /\ bucket.fin /\ cluster.state = "gone" /\ bucket' = NoBucket /\ bw' = bw
            \/ /\ bucket.del /\ bucket.fin /\ bucket' = bucket /\ bw'.pc = "finalize" /\ bw'.obj = bucket /\ cluster.state # "gone"
            \/ /\ ~bucket.del /\ bw' = bw /\ (bucket.fin => bucket'.fin)
               /\ cluster.state # "Running" => bucket'.fin = bucket.fin
               /\ bucket'.uid = bucket.uid /\ bucket'.del = bucket.del /\ bucket'.ver = bucket.ver /\ bucket'.want = bucket.want
               /\ SameSpec(bucket', bucket) /\ SameMarks(bucket', bucket) /\ SameClaim(bucket', bucket)
               /\ bucket'.mKeys = bucket.mKeys /\ bucket'.phase \in {bucket.phase, "Pending"}
            \/ /\ ~bucket.del /\ bucket.fin /\ cluster.state = "Running" /\ bucket' = bucket
               /\ bw'.pc \in {"cleanup", "resolve"} /\ bw'.obj = bucket /\ bw'.name = bucket.alias
               /\ bw'.id = 0 /\ bw'.err = FALSE
<1>1. bucket \in Buckets /\ bw.pc = "idle" /\ bucket.uid # 0 /\ UNCHANGED <<cluster, remote>>
  BY DEF Base, Typed, StartBucket, B
<1>2. CASE ~bucket.del /\ cluster.state # "Running" /\ bucket' = [bucket EXCEPT !.phase = "Pending"] /\ UNCHANGED bw
  BY <1>1, <1>2 DEF Buckets, SameSpec, SameMarks, SameClaim
<1>3. CASE ~bucket.del /\ cluster.state = "Running" /\ ~bucket.fin /\ bucket' = [bucket EXCEPT !.fin = TRUE] /\ UNCHANGED bw
  BY <1>1, <1>3 DEF Buckets, SameSpec, SameMarks, SameClaim
<1>4. CASE /\ bucket.del /\ bucket.fin /\ cluster.state # "gone"
           /\ bw' = [Idle(bucket) EXCEPT !.pc = "finalize"] /\ UNCHANGED bucket
  <2>1. bw'.pc = "finalize" /\ bw'.obj = bucket
    BY <1>4 DEF Idle
  <2> QED BY <1>1, <1>4, <2>1
<1>5. CASE /\ ~bucket.del /\ cluster.state = "Running" /\ bucket.fin
           /\ bw' = [Idle(bucket) EXCEPT !.name = bucket.alias,
                       !.pc = IF bucket.mpu /\ bucket.id # 0 THEN "cleanup" ELSE "resolve"]
           /\ UNCHANGED bucket
  <2> DEFINE p == IF bucket.mpu /\ bucket.id # 0 THEN "cleanup" ELSE "resolve"
  <2>1. p \in {"cleanup", "resolve"} /\ bw' = [Idle(bucket) EXCEPT !.name = bucket.alias, !.pc = p]
    BY <1>5
  <2> HIDE DEF p
  <2>2. bw'.pc = p /\ bw'.obj = bucket /\ bw'.name = bucket.alias /\ bw'.id = 0 /\ bw'.err = FALSE
    BY <2>1 DEF Idle
  <2> QED BY <1>1, <1>5, <2>1, <2>2
<1>6. CASE bucket.del /\ bucket.fin /\ cluster.state = "gone" /\ bucket' = NoBucket /\ UNCHANGED bw
  BY <1>1, <1>6
<1> QED BY <1>2, <1>3, <1>4, <1>5, <1>6 DEF StartBucket, NoAlias

LEMMA PersistFlat ==
  ASSUME Base, NEW b, NEW pc, Persist(b, pc)
  PROVE  bucket' = b /\ bw'.pc = pc /\ bw'.obj = b /\ SameWork(bw', bw)
  BY DEF Base, Typed, BWorkers, Persist, SameWork

LEMMA CleanupFlat ==
  ASSUME Base, CleanupIncompleteUploads
  PROVE  bw.pc = "cleanup" /\ Went("cleaned") /\ UNCHANGED cluster /\ remote' = [remote EXCEPT !.uploads = FALSE]
  BY GoFlat DEF CleanupIncompleteUploads, B

LEMMA CleanedFlat ==
  ASSUME Base, RemoveCleanupAnnotation
  PROVE  /\ bw.pc = "cleaned" /\ UNCHANGED <<cluster, remote>>
         /\ \/ Wrote("resolve") /\ SameMarks(bucket', bucket) /\ bucket'.mKeys = bucket.mKeys
            \/ Ended /\ bucket' = bucket
<1>1. CASE Persist([bucket EXCEPT !.mpu = FALSE], "resolve")
  <2> DEFINE b == [bucket EXCEPT !.mpu = FALSE]
  <2>1. /\ SameObj(b, bucket) /\ SameSpec(b, bucket) /\ SameClaim(b, bucket) /\ b.phase = bucket.phase
        /\ SameMarks(b, bucket) /\ b.mKeys = bucket.mKeys
    BY DEF Base, Typed, Buckets, SameObj, SameSpec, SameClaim, SameMarks
  <2>2. bucket' = b /\ bw'.pc = "resolve" /\ bw'.obj = b /\ SameWork(bw', bw)
    BY <1>1, PersistFlat
  <2> HIDE DEF b
  <2> QED BY <2>1, <2>2 DEF RemoveCleanupAnnotation, B, Wrote
<1>2. CASE bw' = Idle(NoBucket) /\ UNCHANGED bucket
  BY <1>2, LeaveFlat DEF RemoveCleanupAnnotation, B, Leave
<1> QED BY <1>1, <1>2 DEF RemoveCleanupAnnotation

LEMMA ResolveFlat ==
  ASSUME Base, GetOrCreateBucket
  PROVE  /\ bw.pc = "resolve" /\ UNCHANGED <<cluster, remote>> /\ remote.sick = "ok"
         /\ \/ /\ Resolved(bw.obj) # 0 /\ ~(Reserved(bw.obj) # 0 /\ Disagrees(bw.obj, Reserved(bw.obj)))
               /\ bucket' = bucket /\ bw'.obj = bw.obj /\ bw'.id = Resolved(bw.obj) /\ bw'.name = bw.name
               /\ bw'.seen = SeenOf(remote, Resolved(bw.obj))
               /\ bw'.pc = (IF bw.obj.id = Resolved(bw.obj) THEN "alias" ELSE "bind")
            \/ FailEnds /\ bucket'.mKeys = bucket.mKeys
            \/ /\ Resolved(bw.obj) = 0 /\ bw.obj.want = 0 /\ remote.alias[bw.name] = 0
               /\ Wrote("create") /\ bucket'.rsv = TRUE /\ bucket'.id = bucket.id /\ bucket'.mAlias = bucket.mAlias
               /\ bucket'.pAlias = bucket.pAlias /\ bucket'.mLocal = bucket.mLocal /\ bucket'.mKeys = bucket.mKeys
<1> DEFINE id == Resolved(bw.obj)
<1>1. bw.pc = "resolve" /\ UNCHANGED <<cluster, remote>> /\ remote.sick = "ok"
  BY DEF GetOrCreateBucket, B
<1>2. CASE Fail
  BY <1>1, <1>2, FailFlat
<1>3. CASE id # 0 /\ ~(Reserved(bw.obj) # 0 /\ Disagrees(bw.obj, Reserved(bw.obj))) /\ Learn(id) /\ UNCHANGED bucket
  <2> HIDE DEF id
  <2> DEFINE p == IF bw.obj.id = id THEN "alias" ELSE "bind"
             s == SeenOf(remote, id)
  <2>1. bw' = [bw EXCEPT !.id = id, !.seen = s, !.pc = p]
    BY <1>3 DEF Learn
  <2> HIDE DEF p, s
  <2>2. bw'.id = id /\ bw'.seen = s /\ bw'.pc = p /\ bw'.obj = bw.obj /\ bw'.name = bw.name
    BY <2>1 DEF Base, Typed, BWorkers
  <2> QED BY <1>1, <1>3, <2>2 DEF p, s, id
<1>4. CASE id = 0 /\ bw.obj.want = 0 /\ remote.alias[bw.name] = 0 /\ Persist([bucket EXCEPT !.rsv = TRUE], "create")
  <2> DEFINE b == [bucket EXCEPT !.rsv = TRUE]
  <2>1. /\ SameObj(b, bucket) /\ SameSpec(b, bucket) /\ SameClaim(b, bucket) /\ b.phase = bucket.phase
        /\ b.rsv = TRUE /\ b.id = bucket.id /\ b.mAlias = bucket.mAlias
        /\ b.pAlias = bucket.pAlias /\ b.mLocal = bucket.mLocal /\ b.mKeys = bucket.mKeys
    BY DEF Base, Typed, Buckets, SameObj, SameSpec, SameClaim
  <2>2. bucket' = b /\ bw'.pc = "create" /\ bw'.obj = b /\ SameWork(bw', bw)
    BY <1>4, PersistFlat
  <2> HIDE DEF b, id
  <2> QED BY <1>1, <1>4, <2>1, <2>2 DEF Wrote, id
<1> QED BY <1>2, <1>3, <1>4 DEF GetOrCreateBucket

LEMMA CreateFlat ==
  ASSUME Base, CreateReservedBucket
  PROVE  /\ bw.pc = "create" /\ bucket' = bucket /\ UNCHANGED cluster
         /\ FreeBucket \in BucketId /\ remote.bucket[FreeBucket] = "free"
         /\ remote' = CreateBucket(remote, FreeBucket, Reservation(bw.obj.uid), bw.obj.uid)
         /\ bw'.pc = "bind" /\ bw'.obj = bw.obj /\ bw'.id = FreeBucket /\ bw'.name = bw.name
         /\ bw'.seen = SeenOf(remote', FreeBucket)
<1>1. FreeBucket \in BucketId /\ remote.bucket[FreeBucket] = "free"
  BY FreeBucketIsFree DEF CreateReservedBucket
<1> DEFINE f == FreeBucket
           s == SeenOf(remote', f)
<1>2. bw' = [bw EXCEPT !.id = f, !.pc = "bind", !.seen = s]
  BY DEF CreateReservedBucket
<1>3. remote' = CreateBucket(remote, f, Reservation(bw.obj.uid), bw.obj.uid) /\ bw.pc = "create" /\ bucket' = bucket /\ UNCHANGED cluster
  BY DEF CreateReservedBucket, B
<1> HIDE DEF f, s
<1>4. bw'.pc = "bind" /\ bw'.obj = bw.obj /\ bw'.id = f /\ bw'.name = bw.name /\ bw'.seen = s
  BY <1>2 DEF Base, Typed, BWorkers
<1> QED BY <1>1, <1>3, <1>4 DEF f, s

\* The writes of the alias part: which marks they leave alone, and which one they set.
LEMMA WriteID ==
  ASSUME Base, NEW pc, Persist([bucket EXCEPT !.id = bw.id], pc)
  PROVE  /\ Wrote(pc) /\ bucket'.id = bw.id
         /\ bucket'.rsv = bucket.rsv /\ bucket'.mAlias = bucket.mAlias /\ bucket'.pAlias = bucket.pAlias /\ bucket'.mLocal = bucket.mLocal /\ bucket'.mKeys = bucket.mKeys
<1> DEFINE b == [bucket EXCEPT !.id = bw.id]
<1>1. /\ SameObj(b, bucket) /\ SameSpec(b, bucket) /\ SameClaim(b, bucket) /\ b.phase = bucket.phase
      /\ b.id = bw.id
      /\ b.rsv = bucket.rsv /\ b.mAlias = bucket.mAlias /\ b.pAlias = bucket.pAlias /\ b.mLocal = bucket.mLocal /\ b.mKeys = bucket.mKeys
  BY DEF Base, Typed, Buckets, SameObj, SameSpec, SameClaim
<1>2. bucket' = b /\ bw'.pc = pc /\ bw'.obj = b /\ SameWork(bw', bw)
  BY PersistFlat
<1> HIDE DEF b
<1> QED BY <1>1, <1>2 DEF Wrote

LEMMA WritePending ==
  ASSUME Base, NEW pc, NEW a, Persist([bucket EXCEPT !.pAlias = a], pc)
  PROVE  /\ Wrote(pc) /\ bucket'.pAlias = a
         /\ bucket'.id = bucket.id /\ bucket'.rsv = bucket.rsv /\ bucket'.mAlias = bucket.mAlias /\ bucket'.mLocal = bucket.mLocal /\ bucket'.mKeys = bucket.mKeys
<1> DEFINE b == [bucket EXCEPT !.pAlias = a]
<1>1. /\ SameObj(b, bucket) /\ SameSpec(b, bucket) /\ SameClaim(b, bucket) /\ b.phase = bucket.phase
      /\ b.pAlias = a
      /\ b.id = bucket.id /\ b.rsv = bucket.rsv /\ b.mAlias = bucket.mAlias /\ b.mLocal = bucket.mLocal /\ b.mKeys = bucket.mKeys
  BY DEF Base, Typed, Buckets, SameObj, SameSpec, SameClaim
<1>2. bucket' = b /\ bw'.pc = pc /\ bw'.obj = b /\ SameWork(bw', bw)
  BY PersistFlat
<1> HIDE DEF b
<1> QED BY <1>1, <1>2 DEF Wrote

LEMMA WriteManaged ==
  ASSUME Base, NEW pc, Persist([bucket EXCEPT !.mAlias = bw.name, !.pAlias = NoAlias], pc)
  PROVE  /\ Wrote(pc) /\ bucket'.mAlias = bw.name /\ bucket'.pAlias = NoAlias
         /\ bucket'.id = bucket.id /\ bucket'.rsv = bucket.rsv /\ bucket'.mLocal = bucket.mLocal /\ bucket'.mKeys = bucket.mKeys
<1> DEFINE b == [bucket EXCEPT !.mAlias = bw.name, !.pAlias = NoAlias]
<1>1. /\ SameObj(b, bucket) /\ SameSpec(b, bucket) /\ SameClaim(b, bucket) /\ b.phase = bucket.phase
      /\ b.mAlias = bw.name /\ b.pAlias = NoAlias
      /\ b.id = bucket.id /\ b.rsv = bucket.rsv /\ b.mLocal = bucket.mLocal /\ b.mKeys = bucket.mKeys
  BY DEF Base, Typed, Buckets, SameObj, SameSpec, SameClaim
<1>2. bucket' = b /\ bw'.pc = pc /\ bw'.obj = b /\ SameWork(bw', bw)
  BY PersistFlat
<1> HIDE DEF b
<1> QED BY <1>1, <1>2 DEF Wrote

LEMMA WriteRsv ==
  ASSUME Base, NEW pc, Persist([bucket EXCEPT !.rsv = FALSE], pc)
  PROVE  /\ Wrote(pc) /\ bucket'.rsv = FALSE
         /\ bucket'.id = bucket.id /\ bucket'.mAlias = bucket.mAlias /\ bucket'.pAlias = bucket.pAlias /\ bucket'.mLocal = bucket.mLocal /\ bucket'.mKeys = bucket.mKeys
<1> DEFINE b == [bucket EXCEPT !.rsv = FALSE]
<1>1. /\ SameObj(b, bucket) /\ SameSpec(b, bucket) /\ SameClaim(b, bucket) /\ b.phase = bucket.phase
      /\ b.rsv = FALSE
      /\ b.id = bucket.id /\ b.mAlias = bucket.mAlias /\ b.pAlias = bucket.pAlias /\ b.mLocal = bucket.mLocal /\ b.mKeys = bucket.mKeys
  BY DEF Base, Typed, Buckets, SameObj, SameSpec, SameClaim
<1>2. bucket' = b /\ bw'.pc = pc /\ bw'.obj = b /\ SameWork(bw', bw)
  BY PersistFlat
<1> HIDE DEF b
<1> QED BY <1>1, <1>2 DEF Wrote

LEMMA WriteLocal ==
  ASSUME Base, NEW pc, NEW l, Persist([bucket EXCEPT !.mLocal = l], pc)
  PROVE  /\ Wrote(pc) /\ bucket'.mLocal = l
         /\ bucket'.id = bucket.id /\ bucket'.rsv = bucket.rsv /\ bucket'.mAlias = bucket.mAlias /\ bucket'.pAlias = bucket.pAlias /\ bucket'.mKeys = bucket.mKeys
<1> DEFINE b == [bucket EXCEPT !.mLocal = l]
<1>1. /\ SameObj(b, bucket) /\ SameSpec(b, bucket) /\ SameClaim(b, bucket) /\ b.phase = bucket.phase
      /\ b.mLocal = l
      /\ b.id = bucket.id /\ b.rsv = bucket.rsv /\ b.mAlias = bucket.mAlias /\ b.pAlias = bucket.pAlias /\ b.mKeys = bucket.mKeys
  BY DEF Base, Typed, Buckets, SameObj, SameSpec, SameClaim
<1>2. bucket' = b /\ bw'.pc = pc /\ bw'.obj = b /\ SameWork(bw', bw)
  BY PersistFlat
<1> HIDE DEF b
<1> QED BY <1>1, <1>2 DEF Wrote

\* A step that writes the object if there is anything to write.
Moved(pc) ==
  /\ SameObj(bucket', bucket) /\ SameSpec(bucket', bucket) /\ SameClaim(bucket', bucket) /\ SameMarks(bucket', bucket)
  /\ bucket'.phase = bucket.phase
  /\ bw'.pc = pc /\ (bw'.obj = bucket' \/ (bw'.obj = bw.obj /\ bucket' = bucket))
  /\ bw'.id = bw.id /\ bw'.name = bw.name /\ bw'.seen = bw.seen

LEMMA KeysWritten ==
  ASSUME Base, NEW m
  PROVE  LET b == [bucket EXCEPT !.mKeys = m] IN
         /\ SameObj(b, bucket) /\ SameSpec(b, bucket) /\ SameClaim(b, bucket) /\ SameMarks(b, bucket)
         /\ b.phase = bucket.phase /\ b.mKeys = m /\ (m = bucket.mKeys => b = bucket)
  BY DEF Base, Typed, Buckets, SameObj, SameSpec, SameClaim, SameMarks

LEMMA KeysFailed ==
  ASSUME Base, NEW m, Leave([[bucket EXCEPT !.mKeys = m] EXCEPT !.phase = "Failed"])
  PROVE  FailEnds /\ bucket'.mKeys = m
<1> DEFINE b == [[bucket EXCEPT !.mKeys = m] EXCEPT !.phase = "Failed"]
<1>1. SameObj(b, bucket) /\ SameSpec(b, bucket) /\ SameMarks(b, bucket) /\ SameClaim(b, bucket) /\ b.phase = "Failed" /\ b.mKeys = m
  BY DEF Base, Typed, Buckets, SameObj, SameSpec, SameMarks, SameClaim
<1> HIDE DEF b
<1> QED BY <1>1 DEF Leave, FailEnds, Ended, b

LEMMA ReserveFlat ==
  ASSUME Base, BucketObject, ReserveKeyGrants
  PROVE  /\ bw.pc = "perms" /\ UNCHANGED <<cluster, remote>>
         /\ \/ FailEnds /\ bucket'.mKeys = bucket.mKeys
            \/ /\ ~(BucketDeclares /\ key.id = 0)
               /\ FailEnds /\ bucket'.mKeys = bw.obj.mKeys \cup BucketManaged
            \/ /\ ~(BucketDeclares /\ key.id = 0)
               /\ Moved("union") /\ bucket'.mKeys = bw.obj.mKeys \cup BucketManaged
               /\ bw'.des = BucketDesired /\ bw'.man = BucketManaged
               /\ bw'.tgt = (bw.obj.mKeys \cup BucketManaged) \cup BucketUnauthorized
<1> DEFINE reserved == bw.obj.mKeys \cup BucketManaged
           next == [bucket EXCEPT !.mKeys = reserved]
<1>1. bw.pc = "perms" /\ UNCHANGED <<cluster, remote>> /\ bw.obj.mKeys = bucket.mKeys
  BY DEF ReserveKeyGrants, B, BucketObject, SameStatus
<1>2. CASE Fail
  BY <1>1, <1>2, FailFlat
<1>3. CASE ~(BucketDeclares /\ key.id = 0) /\ Leave([next EXCEPT !.phase = "Failed"])
  BY <1>1, <1>3, KeysFailed
<1> DEFINE e == BucketUnauthorized # {} \/ (bw.obj.kp.on /\ ~Permitted("bucket-key"))
           o == IF reserved = bw.obj.mKeys THEN bw.obj ELSE next
           t == reserved \cup BucketUnauthorized
<1>4. CASE /\ ~(BucketDeclares /\ key.id = 0)
           /\ bucket' = next
           /\ bw' = [bw EXCEPT !.obj = o, !.pc = "union", !.des = BucketDesired, !.man = BucketManaged, !.tgt = t, !.err = e]
  <2>1. /\ SameObj(next, bucket) /\ SameSpec(next, bucket) /\ SameClaim(next, bucket) /\ SameMarks(next, bucket)
        /\ next.phase = bucket.phase /\ next.mKeys = reserved /\ (reserved = bucket.mKeys => next = bucket)
    BY KeysWritten
  <2> HIDE DEF next
  <2>2. o = next \/ (o = bw.obj /\ next = bucket)
    BY <1>1, <2>1
  <2> HIDE DEF reserved, o, t, e
  <2>3. bw'.obj = o /\ bw'.pc = "union" /\ bw'.des = BucketDesired /\ bw'.man = BucketManaged /\ bw'.tgt = t
        /\ bw'.id = bw.id /\ bw'.name = bw.name /\ bw'.seen = bw.seen
    BY <1>4 DEF Base, Typed, BWorkers
  <2> QED BY <1>1, <1>4, <2>1, <2>2, <2>3 DEF Moved, t, reserved
<1> QED BY <1>2, <1>3, <1>4 DEF ReserveKeyGrants

LEMMA UnionFlat ==
  ASSUME Base, UnionKeyPermissions
  PROVE  /\ bw.pc = "union" /\ bucket' = bucket /\ UNCHANGED <<cluster, remote>>
         /\ bw'.pc = "apply" /\ bw'.obj = bw.obj /\ bw'.id = bw.id /\ bw'.name = bw.name /\ bw'.seen = bw.seen
         /\ bw'.man = bw.man
         /\ bw'.tgt = (IF KeyReserves /\ key.id # 0 THEN bw.tgt \cup {key.id} ELSE bw.tgt)
         /\ \A k \in KeyId : bw'.des[k] = IF k = key.id /\ KeyDeclares /\ Permitted("key-bucket") /\ KeyReserves
                                          THEN bw.des[k] \cup KeyGives ELSE bw.des[k]
<1>1. key.id \in KeyIds /\ bw.des \in Perms
  BY DEF Base, Typed, Keys, BWorkers
<1>2. CASE key.id = 0
  BY <1>1, <1>2, Constants DEF UnionKeyPermissions, B, Base, Typed, BWorkers
<1>3. CASE key.id # 0
  <2> DEFINE f == IF KeyDeclares /\ Permitted("key-bucket") /\ KeyReserves THEN bw.des[key.id] \cup KeyGives ELSE bw.des[key.id]
             d == [bw.des EXCEPT ![key.id] = f]
             t == IF KeyReserves THEN bw.tgt \cup {key.id} ELSE bw.tgt
             e == bw.err \/ (KeyDeclares /\ ~Permitted("key-bucket"))
  <2>1. bw' = [bw EXCEPT !.pc = "apply", !.tgt = t, !.err = e, !.des = d]
    BY <1>3 DEF UnionKeyPermissions, Base, Typed, BWorkers
  <2>2. key.id \in KeyId
    BY <1>1, <1>3 DEF KeyIds
  <2>3. \A k \in KeyId : d[k] = IF k = key.id THEN f ELSE bw.des[k]
    BY <1>1, <2>2 DEF Perms
  <2> HIDE DEF d, t, e
  <2>4. bw'.pc = "apply" /\ bw'.tgt = t /\ bw'.des = d /\ bw'.obj = bw.obj /\ bw'.id = bw.id /\ bw'.name = bw.name
        /\ bw'.seen = bw.seen /\ bw'.man = bw.man
    BY <2>1 DEF Base, Typed, BWorkers
  <2>5. bw'.tgt = (IF KeyReserves /\ key.id # 0 THEN bw.tgt \cup {key.id} ELSE bw.tgt)
    BY <1>3, <2>4 DEF t
  <2>6. bw.pc = "union" /\ bucket' = bucket /\ UNCHANGED <<cluster, remote>>
    BY DEF UnionKeyPermissions, B
  <2> QED BY <2>3, <2>4, <2>5, <2>6
<1> QED BY <1>2, <1>3

LEMMA ApplyFlat ==
  ASSUME Base, ApplyKeyPermissions
  PROVE  \E k \in bw.tgt :
           /\ bw.pc = "apply" /\ bucket' = bucket /\ UNCHANGED cluster
           /\ remote' = Exact(remote, bw.id, k, bw.seen.perm[k], bw.des[k])
           /\ bw'.pc = "apply" /\ bw'.obj = bw.obj /\ bw'.id = bw.id /\ bw'.name = bw.name /\ bw'.seen = bw.seen
           /\ bw'.man = bw.man /\ bw'.des = bw.des /\ bw'.tgt = bw.tgt \ {k}
           /\ bw'.err = (bw.err \/ ExactFails(bw.id, k, bw.seen.perm[k], bw.des[k]))
<1>1. PICK k \in bw.tgt :
        /\ remote' = Exact(remote, bw.id, k, bw.seen.perm[k], bw.des[k])
        /\ bw' = [bw EXCEPT !.tgt = @ \ {k},
                            !.err = @ \/ ExactFails(bw.id, k, bw.seen.perm[k], bw.des[k])]
  BY DEF ApplyKeyPermissions
<1>2. bw.pc = "apply" /\ bucket' = bucket /\ UNCHANGED cluster
  BY DEF ApplyKeyPermissions, B
<1> DEFINE e == bw.err \/ ExactFails(bw.id, k, bw.seen.perm[k], bw.des[k])
           t == bw.tgt \ {k}
<1>3. bw' = [bw EXCEPT !.tgt = t, !.err = e]
  BY <1>1
<1> HIDE DEF e, t
<1>4. bw'.pc = bw.pc /\ bw'.obj = bw.obj /\ bw'.id = bw.id /\ bw'.name = bw.name /\ bw'.seen = bw.seen
      /\ bw'.man = bw.man /\ bw'.des = bw.des /\ bw'.tgt = t /\ bw'.err = e
  BY <1>3 DEF Base, Typed, BWorkers
<1> QED BY <1>1, <1>2, <1>4 DEF e, t

LEMMA NarrowFlat ==
  ASSUME Base, BucketObject, NarrowKeyGrants
  PROVE  /\ bw.pc = "apply" /\ bw.tgt = {} /\ UNCHANGED <<cluster, remote>>
         /\ \/ FailEnds /\ bucket'.mKeys = bucket.mKeys
            \/ ~bw.err /\ FailEnds /\ bucket'.mKeys = bw.man
            \/ ~bw.err /\ Moved("local") /\ bucket'.mKeys = bw.man
<1> DEFINE next == [bucket EXCEPT !.mKeys = bw.man]
           o == IF bw.man = bw.obj.mKeys THEN bw.obj ELSE next
<1>1. bw.pc = "apply" /\ bw.tgt = {} /\ UNCHANGED <<cluster, remote>> /\ bw.obj.mKeys = bucket.mKeys
  BY DEF NarrowKeyGrants, B, BucketObject, SameStatus
<1>2. CASE Fail
  BY <1>1, <1>2, FailFlat
<1>3. CASE ~bw.err /\ Leave([next EXCEPT !.phase = "Failed"])
  BY <1>1, <1>3, KeysFailed
<1>4. CASE ~bw.err /\ bucket' = next /\ bw' = [bw EXCEPT !.obj = o, !.pc = "local"]
  <2>1. /\ SameObj(next, bucket) /\ SameSpec(next, bucket) /\ SameClaim(next, bucket) /\ SameMarks(next, bucket)
        /\ next.phase = bucket.phase /\ next.mKeys = bw.man /\ (bw.man = bucket.mKeys => next = bucket)
    BY KeysWritten
  <2> HIDE DEF next
  <2>2. o = next \/ (o = bw.obj /\ next = bucket)
    BY <1>1, <2>1
  <2> HIDE DEF o
  <2>3. bw'.obj = o /\ bw'.pc = "local" /\ bw'.id = bw.id /\ bw'.name = bw.name /\ bw'.seen = bw.seen
    BY <1>4 DEF Base, Typed, BWorkers
  <2> QED BY <1>1, <1>4, <2>1, <2>2, <2>3 DEF Moved
<1> QED BY <1>2, <1>3, <1>4 DEF NarrowKeyGrants

LEMMA ReserveLocalFlat ==
  ASSUME Base, ReserveLocalAliases
  PROVE  /\ bw.pc = "local" /\ UNCHANGED <<cluster, remote>>
         /\ \/ FailEnds /\ bucket'.mKeys = bucket.mKeys
            \/ /\ bw.obj.la = {} \/ key.id # 0
               /\ SameObj(bucket', bucket) /\ SameSpec(bucket', bucket) /\ SameClaim(bucket', bucket)
               /\ bucket'.phase = bucket.phase /\ bucket'.rsv = bucket.rsv /\ bucket'.id = bucket.id
               /\ bucket'.mAlias = bucket.mAlias /\ bucket'.pAlias = bucket.pAlias /\ bucket'.mKeys = bucket.mKeys
               /\ bucket'.mLocal = bw.obj.mLocal \cup LocalDesired
               /\ bw'.pc = "localAdd" /\ bw'.obj = bucket' /\ bw'.id = bw.id /\ bw'.name = bw.name /\ bw'.seen = bw.seen
               /\ bw'.man = LocalDesired /\ bw'.tgt = LocalDesired
<1> DEFINE l == bw.obj.mLocal \cup LocalDesired
           next == [bucket EXCEPT !.mLocal = l]
<1>1. bw.pc = "local" /\ UNCHANGED <<cluster, remote>>
  BY DEF ReserveLocalAliases, B
<1>2. CASE Fail
  BY <1>1, <1>2, FailFlat
<1>3. CASE /\ bw.obj.la = {} \/ key.id # 0
           /\ bucket' = next
           /\ bw' = [bw EXCEPT !.obj = next, !.man = LocalDesired, !.tgt = LocalDesired, !.pc = "localAdd"]
  <2>1. /\ SameObj(next, bucket) /\ SameSpec(next, bucket) /\ SameClaim(next, bucket) /\ next.phase = bucket.phase
        /\ next.rsv = bucket.rsv /\ next.id = bucket.id /\ next.mAlias = bucket.mAlias /\ next.pAlias = bucket.pAlias
        /\ next.mKeys = bucket.mKeys /\ next.mLocal = l
    BY DEF Base, Typed, Buckets, SameObj, SameSpec, SameClaim
  <2> HIDE DEF next
  <2>2. bw'.pc = "localAdd" /\ bw'.obj = next /\ bw'.id = bw.id /\ bw'.name = bw.name /\ bw'.seen = bw.seen
        /\ bw'.man = LocalDesired /\ bw'.tgt = LocalDesired
    BY <1>3 DEF Base, Typed, BWorkers
  <2> QED BY <1>1, <1>3, <2>1, <2>2
<1> QED BY <1>2, <1>3 DEF ReserveLocalAliases

LEMMA AddLocalFlat ==
  ASSUME Base, AddLocalAlias
  PROVE  /\ bw.pc = "localAdd" /\ UNCHANGED cluster
         /\ \/ FailEnds /\ bucket'.mKeys = bucket.mKeys /\ UNCHANGED remote
            \/ \E l \in bw.tgt :
                 /\ remote' = [remote EXCEPT !.local[bw.id] = @ \cup {l}] /\ IsBucket(bw.id) /\ IsKey(l[1])
                 /\ bucket' = bucket
                 /\ bw'.pc = "localAdd" /\ bw'.obj = bw.obj /\ bw'.id = bw.id /\ bw'.name = bw.name
                 /\ bw'.seen = bw.seen /\ bw'.man = bw.man /\ bw'.tgt = bw.tgt \ {l}
<1>1. bw.pc = "localAdd" /\ UNCHANGED cluster
  BY DEF AddLocalAlias, B
<1>2. CASE Fail /\ UNCHANGED remote
  BY <1>1, <1>2, FailFlat
<1>3. ASSUME NEW l \in bw.tgt, IsBucket(bw.id), IsKey(l[1]),
             remote' = [remote EXCEPT !.local[bw.id] = @ \cup {l}],
             bw' = [bw EXCEPT !.tgt = @ \ {l}], UNCHANGED bucket
      PROVE  \E m \in bw.tgt :
                 /\ remote' = [remote EXCEPT !.local[bw.id] = @ \cup {m}] /\ IsBucket(bw.id) /\ IsKey(m[1])
                 /\ bucket' = bucket
                 /\ bw'.pc = "localAdd" /\ bw'.obj = bw.obj /\ bw'.id = bw.id /\ bw'.name = bw.name
                 /\ bw'.seen = bw.seen /\ bw'.man = bw.man /\ bw'.tgt = bw.tgt \ {m}
  <2>1. bw'.pc = "localAdd" /\ bw'.obj = bw.obj /\ bw'.id = bw.id /\ bw'.name = bw.name
        /\ bw'.seen = bw.seen /\ bw'.man = bw.man /\ bw'.tgt = bw.tgt \ {l}
    BY <1>1, <1>3 DEF Base, Typed, BWorkers
  <2> QED BY <1>3, <2>1
<1>4. PICK l \in bw.tgt : \/ Fail /\ UNCHANGED remote
                          \/ /\ IsBucket(bw.id) /\ IsKey(l[1]) /\ remote' = [remote EXCEPT !.local[bw.id] = @ \cup {l}]
                             /\ bw' = [bw EXCEPT !.tgt = @ \ {l}] /\ UNCHANGED bucket
  BY DEF AddLocalAlias
<1> QED BY <1>1, <1>2, <1>3, <1>4

LEMMA RemoveLocalFlat ==
  ASSUME Base, RemoveLocalAliases
  PROVE  /\ bw.pc = "localAdd" /\ bw.tgt = {} /\ Went("localDone") /\ UNCHANGED cluster
         /\ remote' = [remote EXCEPT !.local[bw.id] = @ \ ((bw.obj.mLocal \ bw.man) \cap bw.seen.local)]
  BY GoFlat DEF RemoveLocalAliases, B

LEMMA LifecycleFlat ==
  ASSUME Base, ReconcileLifecycleSafe \/ VerifyLifecycleApplied
  PROVE  /\ bucket' = bucket /\ UNCHANGED cluster
         /\ \/ bw.pc = "life" /\ SkipLifecycle /\ Went("status") /\ UNCHANGED remote
            \/ bw.pc = "life" /\ ~SkipLifecycle /\ Went("verify") /\ remote' = SetLifecycle(remote)
            \/ /\ bw.pc \in {"life", "verify"} /\ UNCHANGED remote
               /\ bw'.pc = "status" /\ SameWork(bw', bw)
               /\ SameObj(bw'.obj, bw.obj) /\ SameSpec(bw'.obj, bw.obj) /\ SameMarks(bw'.obj, bw.obj) /\ bw'.obj.mKeys = bw.obj.mKeys
               /\ bw'.obj.og = bw.obj.og /\ bw'.obj.timeouts = bw.obj.timeouts /\ bw'.obj.decodes = bw.obj.decodes
               /\ \/ Applied(remote) /\ bw'.obj.rules = bw.obj.life /\ bw'.obj.rulesSet = "true"
                  \/ ~Applied(remote) /\ bw.pc = "verify" /\ bw'.obj.rules = bw.obj.rules /\ bw'.obj.rulesSet = "false"
<1>1. \A ok \in BOOLEAN : LET o == WithLifecycle(bw.obj, ok) IN
        /\ SameObj(o, bw.obj) /\ SameSpec(o, bw.obj) /\ SameMarks(o, bw.obj) /\ o.mKeys = bw.obj.mKeys
        /\ o.og = bw.obj.og /\ o.timeouts = bw.obj.timeouts /\ o.decodes = bw.obj.decodes
        /\ (ok => o.rules = bw.obj.life /\ o.rulesSet = "true")
        /\ (~ok => o.rules = bw.obj.rules /\ o.rulesSet = "false")
  BY BucketReads DEF Base, WithLifecycle, Buckets, SameObj, SameSpec, SameMarks
<1>2. ASSUME NEW o, bw' = [bw EXCEPT !.pc = "status", !.obj = o] PROVE bw'.pc = "status" /\ SameWork(bw', bw) /\ bw'.obj = o
  BY <1>2 DEF Base, Typed, BWorkers, SameWork
<1>3. CASE VerifyLifecycleApplied
  <2> DEFINE o == WithLifecycle(bw.obj, Applied(remote))
  <2>1. bw' = [bw EXCEPT !.pc = "status", !.obj = o] /\ bw.pc = "verify" /\ UNCHANGED <<bucket, cluster, remote>>
    BY <1>3 DEF VerifyLifecycleApplied, B
  <2>2. Applied(remote) \in BOOLEAN
    BY DEF Applied
  <2>3. bw'.pc = "status" /\ SameWork(bw', bw) /\ bw'.obj = o
    BY <1>2, <2>1
  <2> QED BY <1>1, <2>1, <2>2, <2>3
<1>4. CASE ReconcileLifecycleSafe
  <2>1. bw.pc = "life" /\ UNCHANGED cluster
    BY <1>4 DEF ReconcileLifecycleSafe, B
  <2>2. CASE SkipLifecycle /\ Go("status") /\ UNCHANGED remote
    BY <2>1, <2>2, GoFlat DEF Went
  <2>3. CASE ~SkipLifecycle /\ remote' = SetLifecycle(remote) /\ Go("verify")
    BY <2>1, <2>3, GoFlat DEF Went
  <2>4. CASE Applied(remote) /\ bw' = [bw EXCEPT !.pc = "status", !.obj = WithLifecycle(@, TRUE)] /\ UNCHANGED <<bucket, remote>>
    <3> DEFINE o == WithLifecycle(bw.obj, TRUE)
    <3>1. bw' = [bw EXCEPT !.pc = "status", !.obj = o]
      BY <2>4
    <3>2. bw'.pc = "status" /\ SameWork(bw', bw) /\ bw'.obj = o
      BY <1>2, <3>1
    <3> QED BY <1>1, <2>1, <2>4, <3>2
  <2> QED BY <1>4, <2>2, <2>3, <2>4 DEF ReconcileLifecycleSafe
<1> QED BY <1>3, <1>4

LEMMA StatusFlat ==
  ASSUME Base, UpdateStatusFromGarage
  PROVE  /\ bw.pc = "status" /\ UNCHANGED <<cluster, remote>> /\ bucket'.mKeys = bucket.mKeys
         /\ \/ FailEnds
            \/ /\ Ended /\ bucket'.phase = "Ready" /\ bucket'.timeouts = 0 /\ bucket'.decodes = 0
               /\ IF bw.obj.timeouts > 0 \/ bw.obj.decodes > 0
                  THEN bucket'.og = bucket.ver /\ bucket'.rules = bucket.rules /\ bucket'.rulesSet = bucket.rulesSet
                  ELSE bucket'.og = bw.obj.ver /\ bucket'.rules = bw.obj.rules /\ bucket'.rulesSet = bw.obj.rulesSet
<1> DEFINE healed == bw.obj.timeouts > 0 \/ bw.obj.decodes > 0
           read == IF healed THEN bucket ELSE [bucket EXCEPT !.rules = bw.obj.rules, !.rulesSet = bw.obj.rulesSet]
           ver == IF healed THEN bucket.ver ELSE bw.obj.ver
           b == [read EXCEPT !.timeouts = 0, !.decodes = 0, !.stuck = FALSE, !.phase = "Ready", !.og = ver]
<1>1. bw.pc = "status" /\ UNCHANGED <<cluster, remote>>
  BY DEF UpdateStatusFromGarage, B
<1>2. CASE Fail
  BY <1>1, <1>2, FailFlat
<1>3. CASE Leave(b)
  <2>1. /\ SameObj(b, bucket) /\ SameSpec(b, bucket) /\ SameMarks(b, bucket) /\ b.mKeys = bucket.mKeys
        /\ b.phase = "Ready" /\ b.timeouts = 0 /\ b.decodes = 0 /\ b.og = ver
        /\ b.rules = (IF healed THEN bucket.rules ELSE bw.obj.rules)
        /\ b.rulesSet = (IF healed THEN bucket.rulesSet ELSE bw.obj.rulesSet)
    <3> HIDE DEF ver
    <3>1. CASE healed
      BY <3>1 DEF Base, Typed, Buckets, SameObj, SameSpec, SameMarks
    <3>2. CASE ~healed
      <4> DEFINE r == [bucket EXCEPT !.rules = bw.obj.rules, !.rulesSet = bw.obj.rulesSet]
      <4>1. /\ SameObj(r, bucket) /\ SameSpec(r, bucket) /\ SameMarks(r, bucket) /\ r.mKeys = bucket.mKeys
            /\ r.rules = bw.obj.rules /\ r.rulesSet = bw.obj.rulesSet /\ r \in Buckets
        BY BucketReads DEF Base, Buckets, SameObj, SameSpec, SameMarks
      <4>2. b = [r EXCEPT !.timeouts = 0, !.decodes = 0, !.stuck = FALSE, !.phase = "Ready", !.og = ver]
        BY <3>2
      <4> HIDE DEF r, b
      <4>3. /\ SameObj(b, r) /\ SameSpec(b, r) /\ SameMarks(b, r) /\ b.mKeys = r.mKeys
            /\ b.phase = "Ready" /\ b.timeouts = 0 /\ b.decodes = 0 /\ b.og = ver /\ b.rules = r.rules /\ b.rulesSet = r.rulesSet
        BY <4>1, <4>2 DEF Buckets, SameObj, SameSpec, SameMarks
      <4> QED BY <3>2, <4>1, <4>3 DEF SameObj, SameSpec, SameMarks
    <3> QED BY <3>1, <3>2
  <2> HIDE DEF b
  <2>2. bucket' = b /\ bw' = Idle(NoBucket)
    BY <1>3 DEF Leave
  <2> QED BY <1>1, <2>1, <2>2 DEF Ended
<1> QED BY <1>2, <1>3 DEF UpdateStatusFromGarage

LEMMA LookupFlat ==
  ASSUME Base, BucketLookupTimeout \/ BucketDecodeError
  PROVE  /\ bw.pc \in {"resolve", "status"} /\ remote.sick # "ok" /\ UNCHANGED remote
         /\ cluster'.state = cluster.state
         /\ Ended /\ bucket'.mKeys = bucket.mKeys /\ bucket'.phase = bucket.phase
         /\ bucket'.og = bucket.og /\ bucket'.rules = bucket.rules /\ bucket'.rulesSet = bucket.rulesSet
<1>1. CASE BucketLookupTimeout
  <2> DEFINE n == Bump(bw.obj.timeouts)
             s == bucket.stuck \/ n >= LookupThreshold
             b == [bucket EXCEPT !.timeouts = n, !.stuck = s]
  <2>1. Leave(b) /\ cluster' = cluster /\ bw.pc \in {"resolve", "status"} /\ remote.sick # "ok" /\ UNCHANGED remote
    BY <1>1 DEF BucketLookupTimeout, LooksUp, B
  <2> HIDE DEF n, s
  <2>2. /\ SameObj(b, bucket) /\ SameSpec(b, bucket) /\ SameMarks(b, bucket) /\ b.mKeys = bucket.mKeys
        /\ b.phase = bucket.phase /\ b.og = bucket.og /\ b.rules = bucket.rules /\ b.rulesSet = bucket.rulesSet
    BY DEF Base, Typed, Buckets, SameObj, SameSpec, SameMarks
  <2> HIDE DEF b
  <2> QED BY <2>1, <2>2 DEF Leave, Ended
<1>2. CASE BucketDecodeError
  <2> DEFINE n == Bump(bw.obj.decodes)
             b == [bucket EXCEPT !.decodes = n]
  <2>1. Leave(b) /\ bw.pc \in {"resolve", "status"} /\ remote.sick # "ok" /\ UNCHANGED remote
    BY <1>2 DEF BucketDecodeError, LooksUp, B
  <2>2. cluster'.state = cluster.state
    BY <1>2 DEF BucketDecodeError, Base, Typed
  <2> HIDE DEF n
  <2>3. /\ SameObj(b, bucket) /\ SameSpec(b, bucket) /\ SameMarks(b, bucket) /\ b.mKeys = bucket.mKeys
        /\ b.phase = bucket.phase /\ b.og = bucket.og /\ b.rules = bucket.rules /\ b.rulesSet = bucket.rulesSet
    BY DEF Base, Typed, Buckets, SameObj, SameSpec, SameMarks
  <2> HIDE DEF b
  <2> QED BY <2>1, <2>2, <2>3 DEF Leave, Ended
<1> QED BY <1>1, <1>2

Recorded(b) == IF b.id # 0 THEN b.id ELSE b.want
Doomed(b) == IF Reserved(b) # 0 THEN Reserved(b) ELSE Recorded(b)
LEMMA FinalizeFlat ==
  ASSUME Base, FinalizeBucket
  PROVE  /\ bw.pc = "finalize" /\ bucket' = bucket /\ UNCHANGED cluster
         /\ \/ Ended /\ UNCHANGED remote
            \/ /\ remote' = (IF Doomed(bw.obj) = 0 THEN remote ELSE DeleteBucket(remote, Doomed(bw.obj)))
               /\ ~(bw.obj.id # 0 /\ bw.obj.want # 0 /\ bw.obj.id # bw.obj.want)
               /\ ~(Reserved(bw.obj) # 0 /\ Recorded(bw.obj) \notin {0, Reserved(bw.obj)})
               /\ bw'.pc = "drop" /\ bw'.obj = bw.obj /\ SameWork(bw', bw)
<1>1. bw.pc = "finalize" /\ bucket' = bucket /\ UNCHANGED cluster
  BY DEF FinalizeBucket, B
<1>2. CASE bw' = Idle(NoBucket) /\ UNCHANGED remote
  BY <1>1, <1>2, LeaveFlat DEF Leave
<1>3. CASE bw' = [bw EXCEPT !.pc = "drop"]
           /\ remote' = (IF Doomed(bw.obj) = 0 THEN remote ELSE DeleteBucket(remote, Doomed(bw.obj)))
           /\ ~(bw.obj.id # 0 /\ bw.obj.want # 0 /\ bw.obj.id # bw.obj.want)
           /\ ~(Reserved(bw.obj) # 0 /\ Recorded(bw.obj) \notin {0, Reserved(bw.obj)})
  <2>1. bw'.pc = "drop" /\ bw'.obj = bw.obj /\ SameWork(bw', bw)
    BY <1>3 DEF Base, Typed, BWorkers, SameWork
  <2> QED BY <1>1, <1>3, <2>1
<1> QED BY <1>2, <1>3 DEF FinalizeBucket, Doomed, Recorded

LEMMA DropFlat ==
  ASSUME DropBucketFinalizer
  PROVE  bw.pc = "drop" /\ bucket' = NoBucket /\ bw' = Idle(NoBucket) /\ UNCHANGED <<cluster, remote>>
  BY DEF DropBucketFinalizer, B, Leave

LEMMA BucketFaultFlat ==
  ASSUME Base, BucketFault
  PROVE  /\ bw.pc # "idle" /\ UNCHANGED <<cluster, remote>> /\ Ended /\ bucket'.mKeys = bucket.mKeys
         /\ SameClaim(bucket', bucket) /\ bucket'.phase \in {bucket.phase, "Failed"}
<1>1. bw.pc # "idle" /\ UNCHANGED <<cluster, remote>>
  BY DEF BucketFault, B
<1>2. CASE Fail
  BY <1>1, <1>2, FailFlat DEF FailEnds
<1>3. CASE Leave(bucket)
  BY <1>1, <1>3, LeaveFlat DEF SameClaim
<1> QED BY <1>2, <1>3 DEF BucketFault, Leave

-----------------------------------------------------------------------------
(* The objects and what the workers know of them.                          *)

\* The worker's copy and the object move together.
LEMMA WentObject == ASSUME BucketObject, bw.pc \notin {"idle", "finalize"}, NEW pc, pc \notin {"idle", "finalize", "drop"}, Went(pc) PROVE BucketObject'
  BY DEF BucketObject, Went, SameStatus, SameSpec

LEMMA WroteObject ==
  ASSUME Base, BucketObject, bw.pc # "idle", bw'.pc \notin {"idle", "finalize", "drop"}, bw'.obj = bucket',
         SameObj(bucket', bucket), SameClaim(bucket', bucket)
  PROVE  BucketObject'
  BY DEF BucketObject, SameObj, SameClaim, SameStatus, SameSpec, Base, Typed, Buckets

LEMMA EndedObject ==
  ASSUME BucketObject, bw.pc # "idle", Ended, bucket'.og <= bucket'.ver
  PROVE  BucketObject'
<1>1. bw'.pc = "idle" /\ bw'.obj = NoBucket
  BY IdleFlat DEF Ended
<1> QED BY <1>1 DEF BucketObject, Ended, SameObj, SameMarks

LEMMA FailEndsObject == ASSUME BucketObject, bw.pc # "idle", FailEnds PROVE BucketObject'
  BY EndedObject DEF FailEnds, Ended, SameObj, SameClaim, BucketObject

LEMMA MovedObject ==
  ASSUME Base, BucketObject, bw.pc # "idle", NEW pc, pc \notin {"idle", "finalize", "drop"}, Moved(pc), bw.pc # "finalize"
  PROVE  BucketObject'
<1>1. CASE bw'.obj = bucket'
  BY <1>1, WroteObject DEF Moved
<1>2. CASE bw'.obj = bw.obj /\ bucket' = bucket
  BY <1>2 DEF Moved, BucketObject, SameStatus, SameSpec
<1> QED BY <1>1, <1>2 DEF Moved

LEMMA NoBucketIs == /\ NoBucket.uid = 0 /\ ~NoBucket.del /\ ~NoBucket.fin /\ NoBucket.ver = 0 /\ NoBucket.og = 0 /\ ~NoBucket.rsv
                    /\ NoBucket.want = 0 /\ NoBucket.alias = "a1" /\ NoBucket.kp = Undeclared /\ NoBucket.la = {}
                    /\ NoBucket.cfg = 0 /\ NoBucket.life = 0 /\ NoBucket.id = 0 /\ NoBucket.mAlias = NoAlias
                    /\ NoBucket.pAlias = NoAlias /\ NoBucket.mKeys = {} /\ NoBucket.mLocal = {} /\ NoBucket.phase = ""
                    /\ NoBucket.rules = 0 /\ NoBucket.rulesSet = "none" /\ NoBucket.timeouts = 0 /\ NoBucket.decodes = 0
  BY DEF NoBucket

LEMMA GoneObject == ASSUME bucket' = NoBucket, bw'.pc = "idle", bw'.obj = NoBucket PROVE BucketObject'
<1>1. bucket'.id = 0 /\ bucket'.og = 0 /\ bucket'.ver = 0 /\ ~bucket'.fin /\ ~bucket'.rsv
  BY Zenon, NoBucketIs
<1>2. bucket'.og <= bucket'.ver
  BY <1>1
<1> QED BY <1>1, <1>2 DEF BucketObject

LEMMA BucketObjectStep == ASSUME Base, BucketObject, BucketNext \/ BucketFault PROVE BucketObject'
<1>1. CASE StartBucket
  <2>1. bw'.pc = "idle" => bw' = bw
    BY <1>1, StartFlat
  <2>2. CASE bucket' = NoBucket /\ bw' = bw /\ bw.pc = "idle"
    <3>1. bw'.pc = "idle" /\ bw'.obj = NoBucket
      BY <2>2 DEF BucketObject
    <3> QED BY <2>2, <3>1, GoneObject
  <2>3. CASE bucket.del /\ bucket.fin /\ bucket' = bucket /\ bw'.pc = "finalize" /\ bw'.obj = bucket /\ bucket.uid # 0
    BY <2>3 DEF BucketObject, SameStatus, SameSpec, Base, Typed, Buckets
  <2>4. CASE bw' = bw /\ bw.pc = "idle" /\ (bucket.fin => bucket'.fin) /\ bucket.uid # 0 /\ bucket'.uid = bucket.uid /\ bucket'.ver = bucket.ver
             /\ SameMarks(bucket', bucket) /\ SameClaim(bucket', bucket)
    BY <2>4 DEF BucketObject, SameMarks, SameClaim
  <2>5. CASE bucket.fin /\ bucket' = bucket /\ bw'.pc \in {"cleanup", "resolve"} /\ bw'.obj = bucket /\ bucket.uid # 0
    BY <2>5 DEF BucketObject, SameStatus, SameSpec, Base, Typed, Buckets
  <2> QED BY <1>1, <2>2, <2>3, <2>4, <2>5, StartFlat
<1>2. CASE CleanupIncompleteUploads
  BY <1>2, CleanupFlat, WentObject
<1>3. CASE RemoveCleanupAnnotation
  <2>1. CASE Wrote("resolve")
    BY <1>3, <2>1, CleanedFlat, WroteObject DEF Wrote
  <2>2. CASE Ended /\ bucket' = bucket
    BY <1>3, <2>2, CleanedFlat, EndedObject DEF BucketObject
  <2> QED BY <1>3, <2>1, <2>2, CleanedFlat
<1>4. CASE GetOrCreateBucket
  <2>1. CASE bucket' = bucket /\ bw'.obj = bw.obj /\ bw'.pc \in {"alias", "bind"}
    BY <1>4, <2>1, ResolveFlat DEF BucketObject, SameStatus, SameSpec
  <2>2. CASE FailEnds
    BY <1>4, <2>2, ResolveFlat, FailEndsObject
  <2>3. CASE Wrote("create")
    BY <1>4, <2>3, ResolveFlat, WroteObject DEF Wrote
  <2> QED BY <1>4, <2>1, <2>2, <2>3, ResolveFlat
<1>5. CASE CreateReservedBucket
  BY <1>5, CreateFlat DEF BucketObject, SameStatus, SameSpec
<1>6. CASE PersistBucketID
  BY <1>6, WriteID, WroteObject DEF PersistBucketID, B, Wrote
<1>7. CASE RemoveAbandonedAlias
  BY <1>7, GoFlat, WentObject DEF RemoveAbandonedAlias, B
<1>8. CASE ClearAbandonedAlias
  BY <1>8, WritePending, WroteObject DEF ClearAbandonedAlias, B, Wrote
<1>9. CASE ReserveGlobalAlias
  <2>1. CASE Go("aliasAdd")
    BY <1>9, <2>1, GoFlat, WentObject DEF ReserveGlobalAlias, B
  <2>2. CASE Persist([bucket EXCEPT !.pAlias = bw.name], "aliasAdd")
    BY <1>9, <2>2, WritePending, WroteObject DEF ReserveGlobalAlias, B, Wrote
  <2> QED BY <1>9, <2>1, <2>2 DEF ReserveGlobalAlias
<1>10. CASE AddGlobalAlias
  <2>1. Fail \/ Go("aliasDrop")
    BY <1>10 DEF AddGlobalAlias
  <2> QED BY <1>10, <2>1, GoFlat, WentObject, FailFlat, FailEndsObject DEF AddGlobalAlias, B
<1>11. CASE RemovePreviousAlias
  BY <1>11, GoFlat, WentObject DEF RemovePreviousAlias, B
<1>12. CASE CompleteAliasHandoff
  BY <1>12, WriteManaged, WroteObject DEF CompleteAliasHandoff, B, Wrote
<1>13. CASE RemoveReservationAlias
  <2>1. Go("settings") \/ Go("unannotate")
    BY <1>13 DEF RemoveReservationAlias
  <2> QED BY <1>13, <2>1, GoFlat, WentObject DEF RemoveReservationAlias, B
<1>14. CASE ClearReservationAnnotation
  <2>1. bw.pc = "unannotate" /\ Persist([bucket EXCEPT !.rsv = FALSE], "settings")
    BY <1>14 DEF ClearReservationAnnotation, B
  <2>2. Wrote("settings")
    BY <2>1, WriteRsv
  <2>3. bw'.pc \notin {"idle", "finalize", "drop"} /\ bw'.obj = bucket' /\ SameObj(bucket', bucket) /\ SameClaim(bucket', bucket)
    BY <2>2 DEF Wrote
  <2> QED BY <2>1, <2>3, WroteObject
<1>15. CASE UpdateBucketSettings
  <2>1. Fail \/ Go("perms")
    BY <1>15 DEF UpdateBucketSettings
  <2> QED BY <1>15, <2>1, GoFlat, WentObject, FailFlat, FailEndsObject DEF UpdateBucketSettings, B
<1>16. CASE ReserveKeyGrants
  BY <1>16, ReserveFlat, FailEndsObject, MovedObject
<1>17. CASE UnionKeyPermissions
  BY <1>17, UnionFlat DEF BucketObject, SameStatus, SameSpec
<1>18. CASE ApplyKeyPermissions
  BY <1>18, ApplyFlat DEF BucketObject, SameStatus, SameSpec
<1>19. CASE NarrowKeyGrants
  BY <1>19, NarrowFlat, FailEndsObject, MovedObject
<1>20. CASE ReserveLocalAliases
  BY <1>20, ReserveLocalFlat, FailEndsObject, WroteObject
<1>21. CASE AddLocalAlias
  BY <1>21, AddLocalFlat, FailEndsObject DEF BucketObject, SameStatus, SameSpec
<1>22. CASE RemoveLocalAliases
  BY <1>22, RemoveLocalFlat, WentObject
<1>23. CASE NarrowLocalAliases
  BY <1>23, WriteLocal, WroteObject DEF NarrowLocalAliases, B, Wrote
<1>24. CASE ReconcileLifecycleSafe \/ VerifyLifecycleApplied
  <2>1. CASE Went("status") \/ Went("verify")
    BY <1>24, <2>1, LifecycleFlat, WentObject
  <2>2. CASE bucket' = bucket /\ bw'.pc = "status" /\ bw.pc \in {"life", "verify"} /\ SameObj(bw'.obj, bw.obj) /\ SameSpec(bw'.obj, bw.obj)
             /\ SameMarks(bw'.obj, bw.obj) /\ bw'.obj.mKeys = bw.obj.mKeys
    BY <2>2 DEF BucketObject, SameStatus, SameSpec, SameObj, SameMarks
  <2> QED BY <1>24, <2>1, <2>2, LifecycleFlat
<1>25. CASE UpdateStatusFromGarage
  <2>1. CASE FailEnds
    BY <1>25, <2>1, StatusFlat, FailEndsObject
  <2>2. CASE Ended /\ bucket'.og \in {bucket.ver, bw.obj.ver}
    <3>1. bucket'.og <= bucket'.ver
      BY <1>25, <2>2, StatusFlat DEF Ended, SameObj, BucketObject, Base, Typed, Buckets
    <3> QED BY <1>25, <2>2, <3>1, StatusFlat, EndedObject
  <2> QED BY <1>25, <2>1, <2>2, StatusFlat
<1>26. CASE BucketLookupTimeout \/ BucketDecodeError
  <2>1. bucket'.og <= bucket'.ver
    BY <1>26, LookupFlat DEF Ended, SameObj, BucketObject
  <2> QED BY <1>26, <2>1, LookupFlat, EndedObject
<1>27. CASE FinalizeBucket
  <2>1. CASE Ended
    BY <1>27, <2>1, FinalizeFlat, EndedObject DEF BucketObject
  <2>2. CASE bw'.pc = "drop" /\ bw'.obj = bw.obj /\ bucket' = bucket /\ bw.pc = "finalize"
    BY <2>2 DEF BucketObject, SameStatus, SameSpec
  <2> QED BY <1>27, <2>1, <2>2, FinalizeFlat
<1>28. CASE DropBucketFinalizer
  <2>1. bucket' = NoBucket /\ bw'.pc = "idle" /\ bw'.obj = NoBucket
    BY ZenonT(60), <1>28, DropFlat, IdleFlat
  <2> QED BY <2>1, GoneObject
<1>29. CASE BucketFault
  <2>1. bucket'.og <= bucket'.ver
    BY <1>29, BucketFaultFlat DEF Ended, SameObj, SameClaim, BucketObject
  <2> QED BY <1>29, <2>1, BucketFaultFlat, EndedObject
<1> QED BY <1>1, <1>2, <1>3, <1>4, <1>5, <1>6, <1>7, <1>8, <1>9, <1>10, <1>11, <1>12, <1>13, <1>14, <1>15, <1>16, <1>17,
   <1>18, <1>19, <1>20, <1>21, <1>22, <1>23, <1>24, <1>25, <1>26, <1>27, <1>28, <1>29 DEF BucketNext

-----------------------------------------------------------------------------
(* The steps of the users, field by field.                                 *)

EditedBucket ==
  /\ bucket.uid # 0 /\ ~bucket.del /\ bucket'.uid = bucket.uid /\ bucket'.del = bucket.del /\ bucket'.fin = bucket.fin
  /\ bucket'.want = bucket.want /\ bucket'.ver = bucket.ver + 1
  /\ SameMarks(bucket', bucket) /\ SameClaim(bucket', bucket)
  /\ bucket'.mKeys = bucket.mKeys /\ bucket'.phase = bucket.phase
  /\ (focus # "perms" => bucket'.kp = bucket.kp) /\ (focus # "alias" => bucket'.alias = bucket.alias)
  /\ (focus # "local" => bucket'.la = bucket.la)
  /\ (focus # "settings" => bucket'.cfg = bucket.cfg /\ bucket'.life = bucket.life)
  /\ focus \in {"perms", "alias", "local", "settings"}

LEMMA EditBucketFlat ==
  ASSUME Base, EditBucket
  PROVE  EditedBucket
<1>1. bucket \in Buckets /\ bucket.uid # 0 /\ ~bucket.del
  BY DEF Base, Typed, EditBucket
<1>2. ASSUME NEW b \in Buckets, bucket' = [b EXCEPT !.ver = @ + 1]
      PROVE  /\ bucket'.uid = b.uid /\ bucket'.del = b.del /\ bucket'.fin = b.fin
             /\ bucket'.want = b.want /\ bucket'.ver = b.ver + 1
             /\ SameMarks(bucket', b) /\ SameClaim(bucket', b)
             /\ bucket'.mKeys = b.mKeys /\ bucket'.phase = b.phase
             /\ bucket'.kp = b.kp /\ bucket'.alias = b.alias /\ bucket'.la = b.la /\ bucket'.cfg = b.cfg /\ bucket'.life = b.life
  BY <1>2 DEF Buckets, SameMarks, SameClaim
<1>3. ASSUME focus = "perms", NEW d \in Decl, Change([bucket EXCEPT !.kp = d]) PROVE EditedBucket
  <2> DEFINE b == [bucket EXCEPT !.kp = d]
  <2>1. /\ b \in Buckets /\ b.uid = bucket.uid /\ b.del = bucket.del /\ b.fin = bucket.fin
        /\ b.want = bucket.want /\ b.ver = bucket.ver /\ SameMarks(b, bucket) /\ SameClaim(b, bucket)
        /\ b.mKeys = bucket.mKeys /\ b.phase = bucket.phase
        /\ b.alias = bucket.alias /\ b.la = bucket.la /\ b.cfg = bucket.cfg /\ b.life = bucket.life
    BY <1>1 DEF Buckets, SameMarks, SameClaim
  <2>2. bucket' = [b EXCEPT !.ver = @ + 1]
    BY <1>3 DEF Change
  <2> HIDE DEF b
  <2> QED BY <1>1, <1>2, <1>3, <2>1, <2>2 DEF EditedBucket, SameMarks, SameClaim
<1>4. ASSUME focus = "alias", NEW a \in {"a1", "a2"}, Change([bucket EXCEPT !.alias = a]) PROVE EditedBucket
  <2> DEFINE b == [bucket EXCEPT !.alias = a]
  <2>1. /\ b \in Buckets /\ b.uid = bucket.uid /\ b.del = bucket.del /\ b.fin = bucket.fin
        /\ b.want = bucket.want /\ b.ver = bucket.ver /\ SameMarks(b, bucket) /\ SameClaim(b, bucket)
        /\ b.mKeys = bucket.mKeys /\ b.phase = bucket.phase
        /\ b.kp = bucket.kp /\ b.la = bucket.la /\ b.cfg = bucket.cfg /\ b.life = bucket.life
    BY <1>1 DEF Buckets, SameMarks, SameClaim
  <2>2. bucket' = [b EXCEPT !.ver = @ + 1]
    BY <1>4 DEF Change
  <2> HIDE DEF b
  <2> QED BY <1>1, <1>2, <1>4, <2>1, <2>2 DEF EditedBucket, SameMarks, SameClaim
<1>5. ASSUME focus = "local", NEW l \in SUBSET LocalAlias, Change([bucket EXCEPT !.la = l]) PROVE EditedBucket
  <2> DEFINE b == [bucket EXCEPT !.la = l]
  <2>1. /\ b \in Buckets /\ b.uid = bucket.uid /\ b.del = bucket.del /\ b.fin = bucket.fin
        /\ b.want = bucket.want /\ b.ver = bucket.ver /\ SameMarks(b, bucket) /\ SameClaim(b, bucket)
        /\ b.mKeys = bucket.mKeys /\ b.phase = bucket.phase
        /\ b.kp = bucket.kp /\ b.alias = bucket.alias /\ b.cfg = bucket.cfg /\ b.life = bucket.life
    BY <1>1 DEF Buckets, SameMarks, SameClaim
  <2>2. bucket' = [b EXCEPT !.ver = @ + 1]
    BY <1>5 DEF Change
  <2> HIDE DEF b
  <2> QED BY <1>1, <1>2, <1>5, <2>1, <2>2 DEF EditedBucket, SameMarks, SameClaim
<1>6. ASSUME focus = "settings", NEW b \in Buckets, bucket' = [b EXCEPT !.ver = @ + 1],
             b.uid = bucket.uid, b.del = bucket.del, b.fin = bucket.fin,
             b.want = bucket.want, b.ver = bucket.ver, SameMarks(b, bucket), SameClaim(b, bucket),
             b.mKeys = bucket.mKeys, b.phase = bucket.phase,
             b.kp = bucket.kp, b.alias = bucket.alias, b.la = bucket.la
      PROVE  EditedBucket
  BY <1>1, <1>2, <1>6 DEF EditedBucket, SameMarks, SameClaim
<1>7. ASSUME focus = "settings", Change([bucket EXCEPT !.cfg = 1 - @]) PROVE EditedBucket
  <2> DEFINE v == 1 - bucket.cfg
             b == [bucket EXCEPT !.cfg = v]
  <2>1. v \in 0..1
    BY <1>1 DEF Buckets
  <2>2. bucket' = [b EXCEPT !.ver = @ + 1]
    BY <1>7 DEF Change
  <2> HIDE DEF v
  <2>3. /\ b \in Buckets /\ b.uid = bucket.uid /\ b.del = bucket.del /\ b.fin = bucket.fin
        /\ b.want = bucket.want /\ b.ver = bucket.ver /\ SameMarks(b, bucket) /\ SameClaim(b, bucket)
        /\ b.mKeys = bucket.mKeys /\ b.phase = bucket.phase
        /\ b.kp = bucket.kp /\ b.alias = bucket.alias /\ b.la = bucket.la
    BY <1>1, <2>1 DEF Buckets, SameMarks, SameClaim
  <2> HIDE DEF b
  <2> QED BY <1>6, <1>7, <2>2, <2>3
<1>8. ASSUME focus = "settings", Change([bucket EXCEPT !.life = 1 - @]) PROVE EditedBucket
  <2> DEFINE v == 1 - bucket.life
             b == [bucket EXCEPT !.life = v]
  <2>1. v \in 0..1
    BY <1>1 DEF Buckets
  <2>2. bucket' = [b EXCEPT !.ver = @ + 1]
    BY <1>8 DEF Change
  <2> HIDE DEF v
  <2>3. /\ b \in Buckets /\ b.uid = bucket.uid /\ b.del = bucket.del /\ b.fin = bucket.fin
        /\ b.want = bucket.want /\ b.ver = bucket.ver /\ SameMarks(b, bucket) /\ SameClaim(b, bucket)
        /\ b.mKeys = bucket.mKeys /\ b.phase = bucket.phase
        /\ b.kp = bucket.kp /\ b.alias = bucket.alias /\ b.la = bucket.la
    BY <1>1, <2>1 DEF Buckets, SameMarks, SameClaim
  <2> HIDE DEF b
  <2> QED BY <1>6, <1>8, <2>2, <2>3
<1>9. ASSUME focus = "settings", Change([bucket EXCEPT !.mpu = TRUE]) PROVE EditedBucket
  <2> DEFINE b == [bucket EXCEPT !.mpu = TRUE]
  <2>2. bucket' = [b EXCEPT !.ver = @ + 1]
    BY <1>9 DEF Change
  <2>3. /\ b \in Buckets /\ b.uid = bucket.uid /\ b.del = bucket.del /\ b.fin = bucket.fin
        /\ b.want = bucket.want /\ b.ver = bucket.ver /\ SameMarks(b, bucket) /\ SameClaim(b, bucket)
        /\ b.mKeys = bucket.mKeys /\ b.phase = bucket.phase
        /\ b.kp = bucket.kp /\ b.alias = bucket.alias /\ b.la = bucket.la
    BY <1>1 DEF Buckets, SameMarks, SameClaim
  <2> HIDE DEF b
  <2> QED BY <1>6, <1>9, <2>2, <2>3
<1> QED BY <1>3, <1>4, <1>5, <1>7, <1>8, <1>9, DeclsTyped DEF EditBucket

EditedKey ==
  /\ key.uid # 0 /\ ~key.del /\ key'.uid = key.uid /\ key'.del = key.del /\ key'.fin = key.fin
  /\ key'.ver = key.ver + 1 /\ key'.nonce = key.nonce /\ key'.imp = key.imp /\ key'.pin = key.pin /\ key'.id = key.id
  /\ key'.mBuckets = key.mBuckets /\ key'.wide = key.wide /\ key'.sref = key.sref
  /\ (focus # "perms" => key'.bp = key.bp)
  /\ (focus \notin {"perms", "secret"} => key'.all = key.all)
  /\ (focus # "key" => key'.renamed = key.renamed)
  /\ focus \in {"perms", "secret", "key"}

LEMMA EditKeyFlat ==
  ASSUME Base, EditKey
  PROVE  EditedKey
<1>1. key \in Keys /\ key.uid # 0 /\ ~key.del
  BY DEF Base, Typed, EditKey
<1>2. ASSUME NEW b \in Keys, key' = [b EXCEPT !.ver = @ + 1],
             b.uid = key.uid, b.del = key.del, b.fin = key.fin, b.ver = key.ver, SameKey(b, key), b.sref = key.sref,
             focus # "perms" => b.bp = key.bp, focus \notin {"perms", "secret"} => b.all = key.all, focus # "key" => b.renamed = key.renamed,
             focus \in {"perms", "secret", "key"}
      PROVE  EditedKey
  <2>1. /\ key'.uid = b.uid /\ key'.del = b.del /\ key'.fin = b.fin /\ key'.ver = b.ver + 1
        /\ SameKey(key', b) /\ key'.sref = b.sref /\ key'.bp = b.bp /\ key'.all = b.all /\ key'.renamed = b.renamed
    BY <1>2 DEF Keys, SameKey
  <2> QED BY <1>1, <1>2, <2>1 DEF EditedKey, SameKey
<1>3. ASSUME focus = "perms", NEW d \in Decl, ChangeKey([key EXCEPT !.bp = d]) PROVE EditedKey
  <2> DEFINE b == [key EXCEPT !.bp = d]
  <2>1. /\ b \in Keys /\ b.uid = key.uid /\ b.del = key.del /\ b.fin = key.fin /\ b.ver = key.ver
        /\ SameKey(b, key) /\ b.sref = key.sref /\ b.renamed = key.renamed
    BY <1>1 DEF Keys, SameKey
  <2>2. key' = [b EXCEPT !.ver = @ + 1]
    BY <1>3 DEF ChangeKey
  <2> HIDE DEF b
  <2> QED BY <1>2, <1>3, <2>1, <2>2
<1>4. ASSUME focus \in {"perms", "secret"}, ChangeKey([key EXCEPT !.all = ~@]) PROVE EditedKey
  <2> DEFINE p == ~key.all
             b == [key EXCEPT !.all = p]
  <2>1. p \in BOOLEAN
    OBVIOUS
  <2>2. key' = [b EXCEPT !.ver = @ + 1]
    BY <1>4 DEF ChangeKey
  <2> HIDE DEF p
  <2>3. /\ b \in Keys /\ b.uid = key.uid /\ b.del = key.del /\ b.fin = key.fin /\ b.ver = key.ver
        /\ SameKey(b, key) /\ b.sref = key.sref /\ b.renamed = key.renamed /\ b.bp = key.bp
    BY <1>1, <2>1 DEF Keys, SameKey
  <2> HIDE DEF b
  <2> QED BY <1>2, <1>4, <2>2, <2>3
<1>5. ASSUME focus = "secret", NEW s \in SecretName, ChangeKey([key EXCEPT !.sec = s]) PROVE EditedKey
  <2> DEFINE b == [key EXCEPT !.sec = s]
  <2>1. /\ b \in Keys /\ b.uid = key.uid /\ b.del = key.del /\ b.fin = key.fin /\ b.ver = key.ver
        /\ SameKey(b, key) /\ b.sref = key.sref /\ b.renamed = key.renamed /\ b.bp = key.bp /\ b.all = key.all
    BY <1>1 DEF Keys, SameKey
  <2>2. key' = [b EXCEPT !.ver = @ + 1]
    BY <1>5 DEF ChangeKey
  <2> HIDE DEF b
  <2> QED BY <1>2, <1>5, <2>1, <2>2
<1>6. ASSUME focus = "key", ChangeKey([key EXCEPT !.renamed = ~@]) PROVE EditedKey
  <2> DEFINE p == ~key.renamed
             b == [key EXCEPT !.renamed = p]
  <2>1. p \in BOOLEAN
    OBVIOUS
  <2>2. key' = [b EXCEPT !.ver = @ + 1]
    BY <1>6 DEF ChangeKey
  <2> HIDE DEF p
  <2>3. /\ b \in Keys /\ b.uid = key.uid /\ b.del = key.del /\ b.fin = key.fin /\ b.ver = key.ver
        /\ SameKey(b, key) /\ b.sref = key.sref /\ b.bp = key.bp /\ b.all = key.all
    BY <1>1, <2>1 DEF Keys, SameKey
  <2> HIDE DEF b
  <2> QED BY <1>2, <1>6, <2>2, <2>3
<1> QED BY <1>3, <1>4, <1>5, <1>6, DeclsTyped DEF EditKey

LEMMA NoKeyIs == /\ NoKey.uid = 0 /\ ~NoKey.del /\ ~NoKey.fin /\ NoKey.ver = 0 /\ NoKey.nonce = 0 /\ ~NoKey.renamed
                 /\ NoKey.imp = "none" /\ NoKey.pin = 0 /\ NoKey.bp = Undeclared /\ ~NoKey.all /\ NoKey.id = 0
                 /\ NoKey.mBuckets = {} /\ ~NoKey.wide /\ NoKey.sref = NoAlias
  BY DEF NoKey

CreatedBucket(u, w) ==
  /\ bucket'.uid = u /\ ~bucket'.del /\ ~bucket'.fin /\ bucket'.ver = 0 /\ bucket'.og = 0 /\ ~bucket'.rsv
  /\ bucket'.want = w /\ bucket'.alias = "a1" /\ bucket'.kp = Undeclared /\ bucket'.la = {}
  /\ bucket'.cfg = 0 /\ bucket'.life = 0 /\ bucket'.id = 0 /\ bucket'.mAlias = NoAlias
  /\ bucket'.pAlias = NoAlias /\ bucket'.mKeys = {} /\ bucket'.mLocal = {} /\ bucket'.phase = ""
  /\ bucket'.rules = 0 /\ bucket'.rulesSet = "none" /\ bucket'.timeouts = 0 /\ bucket'.decodes = 0

LEMMA NewBucketIs == ASSUME NEW u, NEW w, bucket' = NewBucket(u, w) PROVE CreatedBucket(u, w)
  BY DEF NewBucket, NoBucket, CreatedBucket

CreatedKey(u, i, r) ==
  /\ key'.uid = u /\ ~key'.del /\ ~key'.fin /\ key'.ver = 0 /\ key'.nonce = 0 /\ key'.renamed = r
  /\ key'.imp = i /\ key'.pin = 0 /\ key'.bp = Undeclared /\ ~key'.all /\ key'.id = 0
  /\ key'.mBuckets = {} /\ ~key'.wide /\ key'.sref = NoAlias

LEMMA NewKeyIs == ASSUME NEW u, NEW i, NEW r, key' = NewKey(u, i, r) PROVE CreatedKey(u, i, r)
  BY DEF NewKey, NoKey, CreatedKey

\* Only the deletion timestamp is set.
MarkedBucket ==
  /\ bucket.uid # 0 /\ ~bucket.del /\ bucket.fin
  /\ bucket'.uid = bucket.uid /\ bucket'.del /\ bucket'.fin /\ bucket'.ver = bucket.ver /\ bucket'.want = bucket.want
  /\ SameSpec(bucket', bucket) /\ SameMarks(bucket', bucket) /\ SameClaim(bucket', bucket)
  /\ bucket'.mKeys = bucket.mKeys /\ bucket'.phase = bucket.phase
MarkedKey ==
  /\ key.uid # 0 /\ ~key.del /\ key.fin
  /\ key'.uid = key.uid /\ key'.del /\ key'.fin /\ key'.ver = key.ver /\ key'.renamed = key.renamed
  /\ SameKey(key', key) /\ key'.bp = key.bp /\ key'.all = key.all /\ key'.sref = key.sref

LEMMA MarkBucket ==
  ASSUME Base, BucketObject, bucket.fin, ~bucket.del, bucket' = [bucket EXCEPT !.del = TRUE]
  PROVE  MarkedBucket
<1>1. bucket.uid # 0
  BY NoBucketIs DEF BucketObject
<1>2. bucket \in Buckets
  BY DEF Base, Typed
<1> DEFINE b == [bucket EXCEPT !.del = TRUE]
<1>3. /\ b.uid = bucket.uid /\ b.del /\ b.fin = bucket.fin /\ b.ver = bucket.ver /\ b.want = bucket.want
      /\ SameSpec(b, bucket) /\ SameMarks(b, bucket) /\ SameClaim(b, bucket)
      /\ b.mKeys = bucket.mKeys /\ b.phase = bucket.phase
  BY <1>2 DEF Buckets, SameSpec, SameMarks, SameClaim
<1>4. bucket' = b
  OBVIOUS
<1> HIDE DEF b
<1> QED BY <1>1, <1>3, <1>4 DEF MarkedBucket

LEMMA MarkKey ==
  ASSUME Base, key.uid # 0, key.fin, ~key.del, key' = [key EXCEPT !.del = TRUE]
  PROVE  MarkedKey
<1>2. key \in Keys
  BY DEF Base, Typed
<1> DEFINE b == [key EXCEPT !.del = TRUE]
<1>3. /\ b.uid = key.uid /\ b.del /\ b.fin = key.fin /\ b.ver = key.ver /\ b.renamed = key.renamed
      /\ SameKey(b, key) /\ b.bp = key.bp /\ b.all = key.all /\ b.sref = key.sref
  BY <1>2 DEF Keys, SameKey
<1>4. key' = b
  OBVIOUS
<1> HIDE DEF b
<1> QED BY <1>3, <1>4 DEF MarkedKey

DropFocus == {"bucket", "alias", "local", "lostBucket"}
KeyDropFocus == {"key", "legacy", "import", "secret", "local", "perms", "lostKey"}
UserBucket ==
  \/ bucket' = bucket
  \/ EditedBucket /\ UNCHANGED <<cluster, key, remote>>
  \/ /\ focus = "bucket" /\ bucket.uid = 0 /\ UNCHANGED <<cluster, key, remote>>
     /\ \E w \in {0, Foreign} : CreatedBucket(NextUID(remote.by), w) /\ NextUID(remote.by) <= MaxUID
  \/ MarkedBucket /\ (focus \in DropFocus \/ cluster.state = "gone") /\ UNCHANGED <<cluster, key, remote>>
  \/ ~bucket.fin /\ ~bucket.del /\ bucket.uid # 0 /\ focus \in DropFocus /\ bucket' = NoBucket /\ UNCHANGED <<cluster, key, remote>>

LEMMA UserBucketFlat == ASSUME Base, BucketObject, UserNext PROVE UserBucket
<1>1. CASE EditBucket
  BY <1>1, EditBucketFlat DEF UserBucket, EditBucket, Change
<1>2. CASE CreateOrDelete
  <2>1. UNCHANGED <<cluster, remote>>
    BY <1>2 DEF CreateOrDelete
  <2>2. CASE /\ focus = "bucket" /\ bucket.uid = 0
             /\ \E want \in {0, Foreign}, uid \in {NextUID(remote.by)} : uid <= MaxUID /\ bucket' = NewBucket(uid, want)
             /\ UNCHANGED key
    BY <2>1, <2>2, NewBucketIs DEF UserBucket
  <2>3. CASE /\ focus \in DropFocus /\ bucket.uid # 0 /\ ~bucket.del
             /\ bucket' = IF bucket.fin THEN [bucket EXCEPT !.del = TRUE] ELSE NoBucket
             /\ UNCHANGED key
    BY <2>1, <2>3, MarkBucket DEF UserBucket
  <2> QED BY <1>2, <2>2, <2>3 DEF CreateOrDelete, UserBucket, DropFocus
<1>3. CASE CollectBucket
  BY SMTT(60), <1>3, MarkBucket DEF UserBucket, CollectBucket
<1> QED BY <1>1, <1>2, <1>3 DEF UserNext, UserBucket, EditKey, ChangeKey, EditGrant, EditToken, DeleteCluster, Outside, RunRepair

UserKey ==
  \/ key' = key
  \/ EditedKey /\ UNCHANGED <<cluster, bucket, remote>>
  \/ /\ focus \in {"key", "import", "legacy"} /\ key.uid = 0 /\ UNCHANGED <<cluster, bucket, remote>>
     /\ \E r \in BOOLEAN : CreatedKey(NextUID(remote.keyBy), IF focus = "import" THEN "ref" ELSE "none", r)
     /\ NextUID(remote.keyBy) <= MaxUID
  \/ MarkedKey /\ focus \in KeyDropFocus /\ UNCHANGED <<cluster, bucket, remote>>
  \/ ~key.fin /\ ~key.del /\ key.uid # 0 /\ focus \in KeyDropFocus /\ key' = NoKey /\ UNCHANGED <<cluster, bucket, remote>>

LEMMA UserKeyFlat == ASSUME Base, UserNext PROVE UserKey
<1>1. CASE EditKey
  BY <1>1, EditKeyFlat DEF UserKey, EditKey, ChangeKey
<1>2. CASE CreateOrDelete
  <2>1. UNCHANGED <<cluster, remote>>
    BY <1>2 DEF CreateOrDelete
  <2>2. CASE /\ focus \in {"key", "import", "legacy"} /\ key.uid = 0
             /\ \E renamed \in BOOLEAN, uid \in {NextUID(remote.keyBy)} :
                  /\ uid <= MaxUID
                  /\ key' = NewKey(uid, IF focus = "import" THEN "ref" ELSE "none", renamed)
             /\ UNCHANGED bucket
    BY <2>1, <2>2, NewKeyIs DEF UserKey
  <2>3. CASE /\ focus \in KeyDropFocus /\ key.uid # 0 /\ ~key.del
             /\ key' = IF key.fin THEN [key EXCEPT !.del = TRUE] ELSE NoKey
             /\ UNCHANGED bucket
    BY <2>1, <2>3, MarkKey DEF UserKey
  <2> QED BY <1>2, <2>2, <2>3 DEF CreateOrDelete, UserKey, KeyDropFocus
<1> QED BY <1>1, <1>2 DEF UserNext, UserKey, EditBucket, Change, CollectBucket, EditGrant, EditToken, DeleteCluster, Outside, RunRepair

LEMMA BucketObjectUser == ASSUME Base, BucketObject, UserNext PROVE BucketObject'
<1>1. bw' = bw /\ UserBucket
  BY UserFrame, UserBucketFlat
<1>2. CASE bucket' = bucket
  BY <1>1, <1>2 DEF BucketObject
<1>3. bucket.ver \in Nat /\ bucket.og \in Nat /\ bw.obj.ver \in Nat
  BY BucketReads DEF Base, Buckets
<1>4. CASE EditedBucket
  BY <1>1, <1>3, <1>4 DEF EditedBucket, BucketObject, SameMarks, SameClaim, SameStatus
<1>5. CASE bucket.uid = 0 /\ \E w \in {0, Foreign} : CreatedBucket(NextUID(remote.by), w)
  <2>1. bw'.pc = "idle" /\ bw'.obj = NoBucket
    BY <1>1, <1>5 DEF BucketObject
  <2> DEFINE u == NextUID(remote.by)
  <2>4. u # 0
    <3>1. u \in Nat /\ u >= 1
      BY NextUIDTyped
    <3> HIDE DEF u
    <3> QED BY <3>1
  <2>5. \E w \in {0, Foreign} : CreatedBucket(u, w)
    BY <1>5
  <2>2. bucket'.uid # 0
    <3> HIDE DEF u
    <3> QED BY <2>5, <2>4 DEF CreatedBucket
  <2>3. bucket'.id = 0 /\ ~bucket'.rsv /\ bucket'.og = 0 /\ bucket'.ver = 0
    BY <1>5 DEF CreatedBucket
  <2> QED BY <2>1, <2>2, <2>3 DEF BucketObject
<1>6. CASE MarkedBucket
  BY ZenonT(60), <1>1, <1>3, <1>6 DEF MarkedBucket, BucketObject, SameMarks, SameClaim, SameStatus, SameSpec
<1>7. CASE ~bucket.fin /\ ~bucket.del /\ bucket' = NoBucket
  <2>1. bw'.pc = "idle" /\ bw'.obj = NoBucket
    BY <1>1, <1>7 DEF BucketObject
  <2> QED BY <1>7, <2>1, GoneObject
<1> QED BY <1>1, <1>2, <1>4, <1>5, <1>6, <1>7 DEF UserBucket

LEMMA BucketObjectNext == ASSUME Base, BucketObject, Next PROVE BucketObject'
<1>1. CASE KeyNext \/ KeyFault
  BY <1>1, KeyFrame DEF BucketObject
<1>2. CASE TokenNext \/ TokenFault
  BY <1>2, TokenFrame DEF BucketObject
<1>3. CASE ReconcileGrant
  BY <1>3 DEF BucketObject, ReconcileGrant
<1> QED BY <1>1, <1>2, <1>3, NextCases, BucketObjectStep, BucketObjectUser

-----------------------------------------------------------------------------
(* The steps of a key's worker, field by field.                            *)

KSpec(k, l) ==
  /\ k.uid = l.uid /\ k.del = l.del /\ k.fin = l.fin /\ k.ver = l.ver /\ k.renamed = l.renamed /\ k.imp = l.imp
  /\ k.bp = l.bp /\ k.all = l.all /\ k.sec = l.sec
KIds(k, l) == k.nonce = l.nonce /\ k.pin = l.pin /\ k.id = l.id
KClaims(k, l) == k.mBuckets = l.mBuckets /\ k.wide = l.wide
KSame(k, l) == KSpec(k, l) /\ KIds(k, l) /\ KClaims(k, l) /\ k.sref = l.sref
KSameWork(w, v) ==
  /\ w.id = v.id /\ w.full = v.full /\ w.cur = v.cur /\ w.des = v.des /\ w.man = v.man /\ w.tgt = v.tgt /\ w.err = v.err

KWent(pc) == key' = key /\ kw'.pc = pc /\ kw'.obj = kw.obj /\ KSameWork(kw', kw)
LEMMA KGoFlat == ASSUME Base, NEW pc, KGo(pc) PROVE KWent(pc)
  BY DEF Base, Typed, KWorkers, KGo, KWent, KSameWork

LEMMA KeyIdleFlat == ASSUME NEW k PROVE KeyIdle(k).pc = "idle" /\ KeyIdle(k).obj = k /\ KeyIdle(k).id = 0 /\ KeyIdle(k).tgt = {}
                                        /\ KeyIdle(k).man = {} /\ KeyIdle(k).err = FALSE
  BY DEF KeyIdle

KEnded == kw' = KeyIdle(NoKey) /\ kw'.pc = "idle" /\ kw'.obj = NoKey
LEMMA KFailFlat == ASSUME Base, KFail PROVE KEnded /\ KSame(key', key)
  BY KeyIdleFlat DEF Base, Typed, Keys, KFail, KLeave, KEnded, KSame, KSpec, KIds, KClaims

\* The error is held back until the Secret was reconciled, when the key has an identity.
KErred ==
  \/ key'.id = 0 /\ KEnded
  \/ key'.id # 0 /\ kw'.pc = "mark" /\ kw'.obj = key' /\ kw'.err = TRUE /\ kw'.id = kw.id
LEMMA KErrorFlat == ASSUME Base, NEW k \in Keys, KError(k) PROVE KErred /\ KSame(key', k)
<1>1. CASE k.id = 0 /\ KLeave([k EXCEPT !.phase = "Failed"])
  <2> DEFINE l == [k EXCEPT !.phase = "Failed"]
  <2>1. KSame(l, k)
    BY DEF Keys, KSame, KSpec, KIds, KClaims
  <2> HIDE DEF l
  <2>2. key' = l /\ kw' = KeyIdle(NoKey)
    BY <1>1 DEF KLeave, l
  <2> QED BY <1>1, <2>1, <2>2, KeyIdleFlat DEF KErred, KEnded, KSame, KIds
<1>2. CASE k.id # 0 /\ key' = k /\ kw' = [kw EXCEPT !.obj = k, !.pc = "mark", !.err = TRUE]
  <2>1. kw'.pc = "mark" /\ kw'.obj = k /\ kw'.err = TRUE /\ kw'.id = kw.id
    BY <1>2 DEF Base, Typed, KWorkers
  <2> QED BY <1>2, <2>1 DEF KErred, KSame, KSpec, KIds, KClaims
<1> QED BY <1>1, <1>2 DEF KError

Learned(id) ==
  /\ kw'.id = id /\ kw'.full = TRUE /\ kw'.pc = (IF kw.obj.id = id THEN "perms" ELSE "bind") /\ kw'.obj = kw.obj
  /\ \A b \in BucketId : kw'.cur[b] = remote.perm[b][id]
LEMMA LearnFlat == ASSUME Base, NEW id, LearnKey(id) PROVE Learned(id)
<1> DEFINE p == IF kw.obj.id = id THEN "perms" ELSE "bind"
           c == [b \in BucketId |-> remote.perm[b][id]]
<1>1. kw' = [kw EXCEPT !.id = id, !.full = TRUE, !.cur = c, !.pc = p]
  BY DEF LearnKey
<1>2. \A b \in BucketId : c[b] = remote.perm[b][id]
  OBVIOUS
<1> HIDE DEF p, c
<1>3. kw'.id = id /\ kw'.full = TRUE /\ kw'.cur = c /\ kw'.pc = p /\ kw'.obj = kw.obj
  BY <1>1 DEF Base, Typed, KWorkers
<1> QED BY <1>2, <1>3 DEF Learned, p

LEMMA StartKeyFlat ==
  ASSUME Base, StartKey
  PROVE  /\ kw.pc = "idle" /\ key.uid # 0 /\ UNCHANGED <<secrets, snapshot, remote>>
         /\ \/ key.del /\ key.fin /\ cluster.state = "gone" /\ key' = NoKey /\ kw' = kw
            \/ key.del /\ key.fin /\ cluster.state # "gone" /\ key' = key /\ kw'.pc = "finalize" /\ kw'.obj = key
            \/ /\ ~key.del /\ kw' = kw /\ (key.fin => key'.fin) /\ (cluster.state # "Running" => key'.fin = key.fin)
               /\ key'.uid = key.uid /\ key'.del = key.del /\ key'.ver = key.ver /\ key'.renamed = key.renamed
               /\ key'.imp = key.imp /\ key'.bp = key.bp /\ key'.all = key.all
               /\ KIds(key', key) /\ KClaims(key', key) /\ key'.sref = key.sref
            \/ ~key.del /\ key.fin /\ cluster.state = "Running" /\ key' = key /\ kw'.pc = "resolve" /\ kw'.obj = key
<1>1. key \in Keys /\ kw.pc = "idle" /\ key.uid # 0 /\ UNCHANGED <<secrets, snapshot, remote>>
  BY DEF Base, Typed, StartKey, K
<1>2. ASSUME NEW p, NEW f, key' = [key EXCEPT !.phase = p] \/ key' = [key EXCEPT !.fin = TRUE]
      PROVE  /\ (key.fin => key'.fin) /\ key'.uid = key.uid /\ key'.del = key.del /\ key'.ver = key.ver /\ key'.renamed = key.renamed
             /\ key'.imp = key.imp /\ key'.bp = key.bp /\ key'.all = key.all
             /\ KIds(key', key) /\ KClaims(key', key) /\ key'.sref = key.sref
  BY <1>1, <1>2 DEF Keys, KIds, KClaims
<1>3. ASSUME NEW p, key' = [key EXCEPT !.phase = p] PROVE key'.fin = key.fin
  BY <1>1, <1>3 DEF Keys
<1>4. CASE key.del /\ key.fin /\ cluster.state = "gone" /\ key' = NoKey /\ UNCHANGED kw
  BY <1>1, <1>4
<1>5. CASE key.del /\ key.fin /\ cluster.state # "gone" /\ kw' = [KeyIdle(key) EXCEPT !.pc = "finalize"] /\ UNCHANGED key
  <2>1. kw'.pc = "finalize" /\ kw'.obj = key
    BY <1>5 DEF KeyIdle
  <2> QED BY <1>1, <1>5, <2>1
<1>6. CASE ~key.del /\ (\E p \in {"Failed", "Pending"} : key' = [key EXCEPT !.phase = p]) /\ UNCHANGED kw
  <2>1. PICK p \in {"Failed", "Pending"} : key' = [key EXCEPT !.phase = p]
    BY <1>6
  <2> QED BY <1>1, <1>2, <1>3, <1>6, <2>1
<1>7. CASE ~key.del /\ cluster.state = "Running" /\ key' = [key EXCEPT !.fin = TRUE] /\ UNCHANGED kw
  BY <1>1, <1>2, <1>7
<1>8. CASE ~key.del /\ key.fin /\ cluster.state = "Running" /\ kw' = [KeyIdle(key) EXCEPT !.pc = "resolve"] /\ UNCHANGED key
  <2>1. kw'.pc = "resolve" /\ kw'.obj = key
    BY <1>8 DEF KeyIdle
  <2> QED BY <1>1, <1>8, <2>1
<1> QED BY <1>4, <1>5, <1>6, <1>7, <1>8 DEF StartKey

LEMMA TrackedFlat ==
  ASSUME Base, GetTrackedKey
  PROVE  /\ kw.pc = "resolve" /\ IsKey(kw.obj.id) /\ key' = key /\ UNCHANGED <<secrets, snapshot>>
         /\ remote' = [remote EXCEPT !.name[kw.obj.id] = kw.obj.renamed] /\ Learned(kw.obj.id)
<1>1. LearnKey(kw.obj.id)
  BY DEF GetTrackedKey
<1>2. Learned(kw.obj.id)
  BY <1>1, LearnFlat
<1> QED BY <1>2 DEF GetTrackedKey, K

LEMMA SnapshotFlat ==
  ASSUME Base, EnsureImportKeySnapshot
  PROVE  /\ kw.pc = "resolve" /\ ~IsKey(kw.obj.id) /\ kw.obj.imp = "ref" /\ UNCHANGED <<secrets, remote>>
         /\ \/ snapshot.by = kw.obj.uid /\ KWent("pin") /\ snapshot' = snapshot
            \/ snapshot.by \notin {0, kw.obj.uid} /\ KErred /\ KSame(key', key) /\ snapshot' = snapshot
            \/ snapshot.by = 0 /\ KWent("pin") /\ snapshot' = [by |-> kw.obj.uid, id |-> source]
<1>1. kw.pc = "resolve" /\ ~IsKey(kw.obj.id) /\ kw.obj.imp = "ref" /\ UNCHANGED <<secrets, remote>>
  BY DEF EnsureImportKeySnapshot, K
<1>2. key \in Keys
  BY DEF Base, Typed
<1>3. KGo("pin") => KWent("pin")
  BY KGoFlat
<1>4. KError(key) => KErred /\ KSame(key', key)
  BY <1>2, KErrorFlat
<1> QED BY <1>1, <1>3, <1>4 DEF EnsureImportKeySnapshot

LEMMA KPersistFlat == ASSUME Base, NEW k, NEW pc, KPersist(k, pc) PROVE key' = k /\ kw'.pc = pc /\ kw'.obj = k /\ KSameWork(kw', kw)
  BY DEF Base, Typed, KWorkers, KPersist, KSameWork

LEMMA PinFlat ==
  ASSUME Base, PinImport
  PROVE  /\ kw.pc = "pin" /\ UNCHANGED <<secrets, snapshot, remote>>
         /\ \/ KErred /\ KSame(key', key)
            \/ IsKey(snapshot.id) /\ Learned(snapshot.id) /\ key' = key
            \/ /\ ~IsKey(snapshot.id) /\ kw.obj.pin \in {0, snapshot.id}
               /\ KSpec(key', key) /\ KClaims(key', key) /\ key'.sref = key.sref /\ key'.nonce = key.nonce /\ key'.id = key.id
               /\ key'.pin = snapshot.id
               /\ kw'.pc = "import" /\ kw'.obj = key' /\ KSameWork(kw', kw)
<1>1. kw.pc = "pin" /\ UNCHANGED <<secrets, snapshot, remote>> /\ key \in Keys
  BY DEF PinImport, K, Base, Typed
<1>2. CASE KError(key)
  BY <1>1, <1>2, KErrorFlat
<1>3. CASE IsKey(snapshot.id) /\ LearnKey(snapshot.id) /\ UNCHANGED key
  <2>1. Learned(snapshot.id)
    BY <1>3, LearnFlat
  <2> QED BY <1>1, <1>3, <2>1
<1>4. CASE kw.obj.pin \in {0, snapshot.id} /\ ~IsKey(snapshot.id) /\ KPersist([key EXCEPT !.pin = snapshot.id], "import")
  <2> DEFINE k == [key EXCEPT !.pin = snapshot.id]
  <2>1. KSpec(k, key) /\ KClaims(k, key) /\ k.sref = key.sref /\ k.nonce = key.nonce /\ k.id = key.id /\ k.pin = snapshot.id
    BY <1>1 DEF Keys, KSpec, KClaims
  <2>2. key' = k /\ kw'.pc = "import" /\ kw'.obj = k /\ KSameWork(kw', kw)
    BY <1>4, KPersistFlat
  <2> HIDE DEF k
  <2> QED BY <1>1, <1>4, <2>1, <2>2
<1> QED BY <1>2, <1>3, <1>4 DEF PinImport

LEMMA ImportFlat ==
  ASSUME Base, ImportPinnedKey
  PROVE  /\ kw.pc = "import" /\ UNCHANGED <<secrets, snapshot>>
         /\ \/ /\ remote.key[snapshot.id] = "free" /\ key' = key /\ Learned(snapshot.id)
               /\ remote' = ImportKey(remote, snapshot.id, kw.obj.uid, kw.obj.renamed)
            \/ remote.key[snapshot.id] # "free" /\ KErred /\ KSame(key', key) /\ remote' = remote
<1>1. kw.pc = "import" /\ UNCHANGED <<secrets, snapshot>> /\ key \in Keys
  BY DEF ImportPinnedKey, K, Base, Typed
<1>2. KError(key) => KErred /\ KSame(key', key)
  BY <1>1, KErrorFlat
<1>3. LearnKey(snapshot.id) => Learned(snapshot.id)
  BY LearnFlat
<1> QED BY <1>1, <1>2, <1>3 DEF ImportPinnedKey

LEMMA NonceFlat == ASSUME Base, KError([key EXCEPT !.nonce = @ + 1]), key.nonce < MaxNonce
                   PROVE  /\ KErred /\ KSpec(key', key) /\ KClaims(key', key) /\ key'.sref = key.sref /\ key'.pin = key.pin
                          /\ key'.id = key.id /\ key'.nonce = key.nonce + 1
<1> DEFINE n == key.nonce + 1
           k == [key EXCEPT !.nonce = n]
<1>1. key \in Keys /\ n \in 0..MaxNonce
  BY Constants DEF Base, Typed, Keys
<1>2. KError(k)
  OBVIOUS
<1> HIDE DEF n
<1>3. k \in Keys /\ KSpec(k, key) /\ KClaims(k, key) /\ k.sref = key.sref /\ k.pin = key.pin /\ k.id = key.id /\ k.nonce = n
  BY <1>1 DEF Keys, KSpec, KClaims
<1> HIDE DEF k
<1>4. KErred /\ KSame(key', k)
  BY <1>2, <1>3, KErrorFlat
<1> QED BY <1>3, <1>4 DEF KSame, KSpec, KClaims, KIds, n

AdoptsLegacy == kw.obj.id = 0 /\ kw.obj.renamed /\ kw.obj.nonce = 0 /\ IsKey(Legacy)
LEMMA AdoptFlat ==
  ASSUME Base, KeyObject, CreateOrAdoptDeterministic
  PROVE  LET id == Derived(key.nonce) IN
         /\ kw.pc = "resolve" /\ ~IsKey(kw.obj.id) /\ kw.obj.imp = "none" /\ UNCHANGED <<secrets, snapshot>>
         /\ \/ AdoptsLegacy /\ remote' = [remote EXCEPT !.name[Legacy] = TRUE] /\ Learned(Legacy) /\ key' = key
            \/ /\ ~AdoptsLegacy /\ remote.key[id] = "free" /\ Learned(id) /\ key' = key
               /\ remote' = ImportKey(remote, id, kw.obj.uid, kw.obj.renamed)
            \/ /\ ~AdoptsLegacy /\ remote.key[id] = "live" /\ Learned(id) /\ key' = key
               /\ remote' = [remote EXCEPT !.name[id] = kw.obj.renamed]
            \/ /\ ~AdoptsLegacy /\ remote.key[id] = "tombstone" /\ key.nonce < MaxNonce /\ UNCHANGED remote
               /\ KErred /\ KSpec(key', key) /\ KClaims(key', key) /\ key'.sref = key.sref /\ key'.pin = key.pin
               /\ key'.id = key.id /\ key'.nonce = key.nonce + 1
<1> DEFINE id == Derived(key.nonce)
<1>1. kw.pc = "resolve" /\ ~IsKey(kw.obj.id) /\ kw.obj.imp = "none" /\ UNCHANGED <<secrets, snapshot>> /\ kw.obj.nonce = key.nonce
  BY DEF CreateOrAdoptDeterministic, K, KeyObject, SameKey
<1>2. \A i \in {id, Legacy} : LearnKey(i) => Learned(i)
  BY LearnFlat
<1>3. KError([key EXCEPT !.nonce = @ + 1]) /\ key.nonce < MaxNonce =>
         /\ KErred /\ KSpec(key', key) /\ KClaims(key', key) /\ key'.sref = key.sref /\ key'.pin = key.pin
         /\ key'.id = key.id /\ key'.nonce = key.nonce + 1
  BY NonceFlat
<1> QED BY <1>1, <1>2, <1>3 DEF CreateOrAdoptDeterministic, AdoptsLegacy

LEMMA PersistKeyFlat ==
  ASSUME Base, PersistAccessKeyID
  PROVE  /\ kw.pc = "bind" /\ UNCHANGED <<secrets, snapshot, remote>>
         /\ KSpec(key', key) /\ KClaims(key', key) /\ key'.sref = key.sref /\ key'.nonce = key.nonce /\ key'.pin = key.pin
         /\ key'.id = kw.id /\ kw'.pc = "perms" /\ kw'.obj = key' /\ KSameWork(kw', kw)
<1> DEFINE k == [key EXCEPT !.id = kw.id]
<1>1. KSpec(k, key) /\ KClaims(k, key) /\ k.sref = key.sref /\ k.nonce = key.nonce /\ k.pin = key.pin /\ k.id = kw.id
  BY DEF Base, Typed, Keys, KSpec, KClaims
<1>2. kw.pc = "bind" /\ UNCHANGED <<secrets, snapshot, remote>> /\ KPersist(k, "perms")
  BY DEF PersistAccessKeyID, K
<1>3. key' = k /\ kw'.pc = "perms" /\ kw'.obj = k /\ KSameWork(kw', kw)
  BY <1>2, KPersistFlat
<1> HIDE DEF k
<1> QED BY <1>1, <1>2, <1>3

\* A step that writes the object if there is anything to write.
KMoved(pc) ==
  /\ KSpec(key', key) /\ KIds(key', key) /\ key'.sref = key.sref
  /\ kw'.pc = pc /\ (kw'.obj = key' \/ (kw'.obj = kw.obj /\ KSame(key', key)))
  /\ kw'.id = kw.id /\ kw'.full = kw.full /\ kw'.cur = kw.cur

LEMMA ClaimsWritten ==
  ASSUME Base, NEW m \in SUBSET BucketId, NEW w \in BOOLEAN
  PROVE  LET k == [key EXCEPT !.mBuckets = m, !.wide = w] IN
         k \in Keys /\ KSpec(k, key) /\ KIds(k, key) /\ k.sref = key.sref /\ k.mBuckets = m /\ k.wide = w
  BY DEF Base, Typed, Keys, KSpec, KIds

KTargets(w) ==
  key'.mBuckets \cup KeyManaged \cup ListedBuckets \cup KeyUnauthorized
  \cup (IF w THEN {b \in BucketId : kw.cur[b] # {}} ELSE {})

LEMMA ReserveKeyFlat ==
  ASSUME Base, KeyObject, ReserveBucketGrants
  PROVE  /\ kw.pc = "perms" /\ UNCHANGED <<secrets, snapshot, remote>>
         /\ \/ KErred /\ KSame(key', key)
            \/ /\ ~KeyPending /\ KErred /\ KSpec(key', key) /\ KIds(key', key) /\ key'.sref = key.sref
               /\ key'.mBuckets = kw.obj.mBuckets \cup KeyManaged /\ key'.wide = (kw.obj.wide \/ kw.obj.all)
            \/ /\ ~KeyPending /\ KMoved("union")
               /\ key'.mBuckets = kw.obj.mBuckets \cup KeyManaged /\ key'.wide = (kw.obj.wide \/ kw.obj.all)
               /\ kw'.des = KeyDesired /\ kw'.man = KeyManaged
               /\ kw'.tgt = KTargets(kw.obj.wide \/ kw.obj.all)
<1> DEFINE mb == kw.obj.mBuckets \cup KeyManaged
           w == kw.obj.wide \/ kw.obj.all
           next == [key EXCEPT !.mBuckets = mb, !.wide = w]
           same == next.mBuckets = kw.obj.mBuckets /\ next.wide = kw.obj.wide
           o == IF same THEN kw.obj ELSE next
           e == kw.obj.bp.on /\ ~KeyRefers
           t == next.mBuckets \cup KeyManaged \cup ListedBuckets \cup KeyUnauthorized
                  \cup (IF next.wide THEN {b \in BucketId : kw.cur[b] # {}} ELSE {})
<1>1. /\ kw.pc = "perms" /\ UNCHANGED <<secrets, snapshot, remote>> /\ key \in Keys
      /\ kw.obj.mBuckets = key.mBuckets /\ kw.obj.wide = key.wide
  BY DEF ReserveBucketGrants, K, Base, Typed, KeyObject, SameKey
<1>2. CASE KError(key)
  BY <1>1, <1>2, KErrorFlat
<1>3. ASSUME ~KeyPending
      PROVE  next \in Keys /\ KSpec(next, key) /\ KIds(next, key) /\ next.sref = key.sref /\ next.mBuckets = mb /\ next.wide = w
  <2>1. mb \in SUBSET BucketId /\ w \in BOOLEAN
    BY <1>3, KeyReads DEF Base, KeyPending, KeyManaged, Keys, Ids
  <2> HIDE DEF mb, w
  <2> QED BY <2>1, ClaimsWritten
<1>4. CASE ~KeyPending /\ KError(next)
  <2>1. next \in Keys /\ KSpec(next, key) /\ KIds(next, key) /\ next.sref = key.sref /\ next.mBuckets = mb /\ next.wide = w
    BY <1>3, <1>4
  <2> HIDE DEF next, mb, w
  <2>2. KErred /\ KSame(key', next)
    BY <1>4, <2>1, KErrorFlat
  <2>3. KErred /\ KSpec(key', key) /\ KIds(key', key) /\ key'.sref = key.sref /\ key'.mBuckets = mb /\ key'.wide = w
    BY <2>1, <2>2 DEF KSame, KSpec, KIds, KClaims
  <2> QED BY <1>1, <1>4, <2>3 DEF mb, w
<1>5. CASE /\ ~KeyPending /\ key' = next
           /\ kw' = [kw EXCEPT !.obj = o, !.pc = "union", !.des = KeyDesired, !.man = KeyManaged, !.err = e, !.tgt = t]
  <2>1. next \in Keys /\ KSpec(next, key) /\ KIds(next, key) /\ next.sref = key.sref /\ next.mBuckets = mb /\ next.wide = w
    BY <1>3, <1>5
  <2>2. t = KTargets(w)
    <3>1. key'.mBuckets = next.mBuckets
      BY <1>5
    <3> HIDE DEF mb, w
    <3>2. next.wide = w
      BY <2>1
    <3> HIDE DEF next
    <3> QED BY <3>1, <3>2 DEF KTargets
  <2> HIDE DEF next, mb, w
  <2>3. o = next \/ (o = kw.obj /\ KSame(next, key))
    BY <1>1, <2>1 DEF KSame, KClaims
  <2> HIDE DEF o, t, e
  <2>4. kw'.obj = o /\ kw'.pc = "union" /\ kw'.des = KeyDesired /\ kw'.man = KeyManaged /\ kw'.tgt = t
        /\ kw'.id = kw.id /\ kw'.full = kw.full /\ kw'.cur = kw.cur
    BY <1>5 DEF Base, Typed, KWorkers
  <2>5. KMoved("union")
    BY <1>5, <2>1, <2>3, <2>4 DEF KMoved
  <2>6. key'.mBuckets = mb /\ key'.wide = w /\ kw'.tgt = KTargets(w)
    BY <1>5, <2>1, <2>2, <2>4
  <2> QED BY <1>1, <1>5, <2>4, <2>5, <2>6 DEF mb, w
<1> QED BY <1>2, <1>4, <1>5 DEF ReserveBucketGrants

LEMMA UnionKeyFlat ==
  ASSUME Base, UnionBucketPermissions
  PROVE  /\ kw.pc = "union" /\ key' = key /\ UNCHANGED <<secrets, snapshot, remote>>
         /\ kw'.pc = "apply" /\ kw'.obj = kw.obj /\ kw'.id = kw.id /\ kw'.full = kw.full /\ kw'.cur = kw.cur /\ kw'.man = kw.man
         /\ kw'.tgt = (IF BucketReserves /\ BucketIdentity # 0 THEN kw.tgt \cup {BucketIdentity} ELSE kw.tgt)
         /\ \A b \in BucketId :
              kw'.des[b] = IF b = BucketIdentity /\ bucket.kp.on /\ Permitted("bucket-key") /\ BucketReserves
                           THEN kw.des[b] \cup bucket.kp.p ELSE kw.des[b]
<1> DEFINE i == BucketIdentity
<1>1. i \in Ids /\ kw.des \in [BucketId -> SUBSET Perm] /\ kw.pc = "union" /\ key' = key /\ UNCHANGED <<secrets, snapshot, remote>>
  BY Constants DEF Base, Typed, Buckets, KWorkers, BucketIdentity, Ids, UnionBucketPermissions, K
<1>2. CASE i = 0
  BY <1>1, <1>2, Constants DEF UnionBucketPermissions, K, Base, Typed, KWorkers
<1>3. CASE i # 0
  <2> DEFINE f == IF bucket.kp.on /\ Permitted("bucket-key") /\ BucketReserves THEN kw.des[i] \cup bucket.kp.p ELSE kw.des[i]
             d == [kw.des EXCEPT ![i] = f]
             t == IF BucketReserves THEN kw.tgt \cup {i} ELSE kw.tgt
             e == kw.err \/ (bucket.kp.on /\ ~Permitted("bucket-key"))
  <2>1. kw' = [kw EXCEPT !.pc = "apply", !.tgt = t, !.err = e, !.des = d]
    BY <1>3 DEF UnionBucketPermissions, Base, Typed, KWorkers
  <2>2. i \in BucketId
    BY <1>1, <1>3 DEF Ids
  <2>3. \A b \in BucketId : d[b] = IF b = i THEN f ELSE kw.des[b]
    BY <1>1, <2>2
  <2> HIDE DEF d, t, e
  <2>4. kw'.pc = "apply" /\ kw'.tgt = t /\ kw'.des = d /\ kw'.obj = kw.obj /\ kw'.id = kw.id /\ kw'.full = kw.full
        /\ kw'.cur = kw.cur /\ kw'.man = kw.man
    BY <2>1 DEF Base, Typed, KWorkers
  <2>5. kw'.tgt = (IF BucketReserves /\ BucketIdentity # 0 THEN kw.tgt \cup {BucketIdentity} ELSE kw.tgt)
    BY <1>3, <2>4 DEF t
  <2> QED BY <1>1, <2>3, <2>4, <2>5
<1> QED BY <1>2, <1>3

LEMMA ApplyKeyFlat ==
  ASSUME Base, ApplyBucketPermissions
  PROVE  \E b \in kw.tgt :
           /\ kw.pc = "apply" /\ key' = key /\ UNCHANGED <<secrets, snapshot>>
           /\ remote' = Exact(remote, b, kw.id, kw.cur[b], kw.des[b])
           /\ kw'.pc = "apply" /\ kw'.obj = kw.obj /\ kw'.id = kw.id /\ kw'.full = kw.full /\ kw'.cur = kw.cur
           /\ kw'.man = kw.man /\ kw'.des = kw.des /\ kw'.tgt = kw.tgt \ {b}
           /\ kw'.err = (kw.err \/ ExactFails(b, kw.id, kw.cur[b], kw.des[b]))
<1>1. PICK b \in kw.tgt :
        /\ remote' = Exact(remote, b, kw.id, kw.cur[b], kw.des[b])
        /\ kw' = [kw EXCEPT !.tgt = @ \ {b}, !.err = @ \/ ExactFails(b, kw.id, kw.cur[b], kw.des[b])]
  BY DEF ApplyBucketPermissions
<1>2. kw.pc = "apply" /\ key' = key /\ UNCHANGED <<secrets, snapshot>>
  BY DEF ApplyBucketPermissions, K
<1> DEFINE e == kw.err \/ ExactFails(b, kw.id, kw.cur[b], kw.des[b])
           t == kw.tgt \ {b}
<1>3. kw' = [kw EXCEPT !.tgt = t, !.err = e]
  BY <1>1
<1> HIDE DEF e, t
<1>4. kw'.pc = kw.pc /\ kw'.obj = kw.obj /\ kw'.id = kw.id /\ kw'.full = kw.full /\ kw'.cur = kw.cur
      /\ kw'.man = kw.man /\ kw'.des = kw.des /\ kw'.tgt = t /\ kw'.err = e
  BY <1>3 DEF Base, Typed, KWorkers
<1> QED BY <1>1, <1>2, <1>4 DEF e, t

LEMMA NarrowKeyFlat ==
  ASSUME Base, KeyObject, NarrowBucketGrants
  PROVE  /\ kw.pc = "apply" /\ kw.tgt = {} /\ UNCHANGED <<secrets, snapshot, remote>>
         /\ \/ KErred /\ KSame(key', key)
            \/ /\ ~kw.err /\ KErred /\ KSpec(key', key) /\ KIds(key', key) /\ key'.sref = key.sref
               /\ key'.mBuckets = kw.man /\ key'.wide = kw.obj.all
            \/ ~kw.err /\ KMoved("mark") /\ key'.mBuckets = kw.man /\ key'.wide = kw.obj.all
<1> DEFINE next == [key EXCEPT !.mBuckets = kw.man, !.wide = kw.obj.all]
           same == kw.man = kw.obj.mBuckets /\ kw.obj.wide = kw.obj.all
           o == IF same THEN kw.obj ELSE next
<1>1. /\ kw.pc = "apply" /\ kw.tgt = {} /\ UNCHANGED <<secrets, snapshot, remote>> /\ key \in Keys
      /\ kw.obj.mBuckets = key.mBuckets /\ kw.obj.wide = key.wide
  BY DEF NarrowBucketGrants, K, Base, Typed, KeyObject, SameKey
<1>2. CASE KError(key)
  BY <1>1, <1>2, KErrorFlat
<1>3. next \in Keys /\ KSpec(next, key) /\ KIds(next, key) /\ next.sref = key.sref /\ next.mBuckets = kw.man /\ next.wide = kw.obj.all
  <2>1. kw.man \in SUBSET BucketId /\ kw.obj.all \in BOOLEAN
    BY DEF Base, Typed, KWorkers, Keys
  <2> QED BY <2>1, ClaimsWritten
<1>4. CASE ~kw.err /\ KError(next)
  <2> HIDE DEF next
  <2>2. KErred /\ KSame(key', next)
    BY <1>3, <1>4, KErrorFlat
  <2>3. KErred /\ KSpec(key', key) /\ KIds(key', key) /\ key'.sref = key.sref /\ key'.mBuckets = kw.man /\ key'.wide = kw.obj.all
    BY <1>3, <2>2 DEF KSame, KSpec, KIds, KClaims
  <2> QED BY <1>1, <1>4, <2>3
<1>5. CASE ~kw.err /\ key' = next /\ kw' = [kw EXCEPT !.obj = o, !.pc = "mark"]
  <2> HIDE DEF next
  <2>1. o = next \/ (o = kw.obj /\ KSame(next, key))
    BY <1>1, <1>3 DEF KSame, KClaims
  <2> HIDE DEF o
  <2>2. kw'.obj = o /\ kw'.pc = "mark" /\ kw'.id = kw.id /\ kw'.full = kw.full /\ kw'.cur = kw.cur
    BY <1>5 DEF Base, Typed, KWorkers
  <2> QED BY <1>1, <1>3, <1>5, <2>1, <2>2 DEF KMoved
<1> QED BY <1>2, <1>4, <1>5 DEF NarrowBucketGrants

LEMMA MarkFlat ==
  ASSUME Base, MarkPreviousGeneratedSecret
  PROVE  /\ kw.pc = "mark" /\ UNCHANGED <<snapshot, remote>>
         /\ \/ KEnded /\ KSame(key', key) /\ secrets' = secrets
            \/ /\ KWent("publish")
               /\ secrets' = IF kw.obj.sref # NoAlias /\ secrets[kw.obj.sref].by = kw.obj.uid
                             THEN [secrets EXCEPT ![kw.obj.sref].label = kw.obj.uid] ELSE secrets
               /\ kw.obj.sref = NoAlias \/ secrets[kw.obj.sref].by \in {0, kw.obj.uid}
  BY KFailFlat, KGoFlat DEF MarkPreviousGeneratedSecret, K

LEMMA PublishFlat ==
  ASSUME Base, PublishSecret
  PROVE  /\ kw.pc = "publish" /\ UNCHANGED <<snapshot, remote>>
         /\ \/ KEnded /\ KSame(key', key) /\ secrets' = secrets
            \/ /\ key' = key /\ kw'.pc = "handoff" /\ KSameWork(kw', kw)
               /\ KSpec(kw'.obj, kw.obj) /\ KIds(kw'.obj, kw.obj) /\ KClaims(kw'.obj, kw.obj)
               /\ kw'.obj.sref = kw.obj.sec /\ kw.obj.sec \in SecretName
               /\ secrets[kw.obj.sec].by \in {0, kw.obj.uid}
               /\ \A s \in SecretName : s # kw.obj.sec => secrets'[s] = secrets[s]
               /\ secrets'[kw.obj.sec].by = kw.obj.uid /\ secrets'[kw.obj.sec].label = kw.obj.uid
<1>1. kw.pc = "publish" /\ UNCHANGED <<snapshot, remote>> /\ kw.obj \in Keys /\ secrets \in Secrets /\ kw.obj.sec \in SecretName
  BY DEF PublishSecret, K, Base, Typed, KWorkers, Keys
<1>2. CASE KFail /\ UNCHANGED secrets
  BY <1>1, <1>2, KFailFlat
<1>3. CASE /\ secrets[kw.obj.sec].by \in {0, kw.obj.uid}
           /\ secrets' = [secrets EXCEPT ![kw.obj.sec] =
                           [by |-> kw.obj.uid, label |-> kw.obj.uid, full |-> kw.full \/ @.full]]
           /\ kw' = [kw EXCEPT !.obj.sref = kw.obj.sec, !.pc = "handoff"] /\ UNCHANGED key
  <2> DEFINE o == [kw.obj EXCEPT !.sref = kw.obj.sec]
             v == [by |-> kw.obj.uid, label |-> kw.obj.uid, full |-> kw.full \/ secrets[kw.obj.sec].full]
  <2>1. KSpec(o, kw.obj) /\ KIds(o, kw.obj) /\ KClaims(o, kw.obj) /\ o.sref = kw.obj.sec
    BY <1>1 DEF Keys, KSpec, KIds, KClaims
  <2>2. v.by = kw.obj.uid /\ v.label = kw.obj.uid
    OBVIOUS
  <2>3. kw' = [kw EXCEPT !.obj = o, !.pc = "handoff"] /\ secrets' = [secrets EXCEPT ![kw.obj.sec] = v]
    BY <1>3
  <2> HIDE DEF o, v
  <2>4. kw'.obj = o /\ kw'.pc = "handoff" /\ KSameWork(kw', kw)
    BY <2>3 DEF Base, Typed, KWorkers, KSameWork
  <2>5. secrets'[kw.obj.sec] = v /\ \A s \in SecretName : s # kw.obj.sec => secrets'[s] = secrets[s]
    BY <1>1, <2>3 DEF Secrets
  <2> QED BY <1>1, <1>3, <2>1, <2>2, <2>4, <2>5
<1> QED BY <1>2, <1>3 DEF PublishSecret

LEMMA HandoffFlat ==
  ASSUME Base, PersistSecretRef
  PROVE  /\ kw.pc = "handoff" /\ UNCHANGED <<secrets, snapshot, remote>>
         /\ KSpec(key', key) /\ KIds(key', key) /\ KClaims(key', key) /\ key'.sref = kw.obj.sref
         /\ kw'.pc = "sweep" /\ KSameWork(kw', kw)
         /\ kw'.obj = key' \/ (kw'.obj = kw.obj /\ key' = key)
<1>1. kw.pc = "handoff" /\ UNCHANGED <<secrets, snapshot, remote>>
  BY DEF PersistSecretRef, K
<1>2. CASE kw.obj.sref = key.sref /\ KGo("sweep")
  BY <1>1, <1>2, KGoFlat DEF KWent, KSpec, KIds, KClaims
<1> DEFINE next == [key EXCEPT !.sref = kw.obj.sref]
<1>3. CASE key' = next /\ kw' = [kw EXCEPT !.obj = next, !.pc = "sweep"]
  <2>1. KSpec(next, key) /\ KIds(next, key) /\ KClaims(next, key) /\ next.sref = kw.obj.sref
    BY DEF Base, Typed, Keys, KSpec, KIds, KClaims
  <2> HIDE DEF next
  <2>2. kw'.obj = next /\ kw'.pc = "sweep" /\ KSameWork(kw', kw)
    BY <1>3 DEF Base, Typed, KWorkers, KSameWork
  <2> QED BY <1>1, <1>3, <2>1, <2>2
<1> QED BY <1>2, <1>3 DEF PersistSecretRef

LEMMA SweepFlat ==
  ASSUME Base, CleanupStaleGeneratedSecrets
  PROVE  /\ kw.pc = "sweep" /\ UNCHANGED <<snapshot, remote>>
         /\ (KEnded /\ KSame(key', key)) \/ KWent("status")
         /\ \A s \in SecretName : secrets'[s] = IF s # kw.obj.sref /\ secrets[s].label = kw.obj.uid /\ secrets[s].by = kw.obj.uid
                                                THEN NoSecret ELSE secrets[s]
<1>1. kw.pc = "sweep" /\ UNCHANGED <<snapshot, remote>> /\ (KFail \/ KGo("status"))
  BY DEF CleanupStaleGeneratedSecrets, K
<1>2. \A s \in SecretName : secrets'[s] = IF s # kw.obj.sref /\ secrets[s].label = kw.obj.uid /\ secrets[s].by = kw.obj.uid
                                          THEN NoSecret ELSE secrets[s]
  BY DEF CleanupStaleGeneratedSecrets
<1> QED BY <1>1, <1>2, KFailFlat, KGoFlat

LEMMA KeyStatusFlat ==
  ASSUME Base, UpdateKeyStatus
  PROVE  /\ kw.pc = "status" /\ UNCHANGED <<secrets, snapshot, remote>> /\ KEnded
         /\ KSpec(key', key) /\ key'.mBuckets = key.mBuckets /\ key'.sref = key.sref
         /\ key'.nonce = key.nonce /\ key'.pin = key.pin
         /\ \/ IsKey(kw.obj.id) /\ key'.id = key.id
            \/ ~IsKey(kw.obj.id) /\ key'.id = 0
<1>1. kw.pc = "status" /\ UNCHANGED <<secrets, snapshot, remote>> /\ key \in Keys
  BY DEF UpdateKeyStatus, K, Base, Typed
<1> DEFINE w == kw.obj.all
           l == key.lost \/ (key.wide /\ ~kw.obj.all)
<1>2. CASE IsKey(kw.obj.id) /\ KLeave([key EXCEPT !.phase = "Ready", !.wide = w, !.lost = l])
  <2> HIDE DEF w, l
  <2> QED BY <1>1, <1>2, KeyIdleFlat DEF KLeave, KEnded, KSpec, Keys
<1>3. CASE ~IsKey(kw.obj.id) /\ KLeave([key EXCEPT !.id = 0])
  BY <1>1, <1>3, KeyIdleFlat DEF KLeave, KEnded, KSpec, Keys
<1>4. \/ IsKey(kw.obj.id) /\ KLeave([key EXCEPT !.phase = "Ready", !.wide = w, !.lost = l])
      \/ ~IsKey(kw.obj.id) /\ KLeave([key EXCEPT !.id = 0])
  BY <1>1 DEF UpdateKeyStatus, Keys
<1> QED BY <1>2, <1>3, <1>4

LEMMA FinalizeKeyFlat ==
  ASSUME Base, FinalizeKey
  PROVE  /\ kw.pc = "finalize" /\ key' = key /\ UNCHANGED <<secrets, snapshot, remote>>
         /\ \/ KEnded /\ ~(kw.obj.imp = "none" /\ kw.obj.id = 0 /\ kw.obj.pin = 0) /\ Refuses
            \/ /\ kw'.pc = "revoke" /\ kw'.obj = kw.obj /\ kw'.id = kw.id
               /\ \/ kw.obj.imp = "none" /\ kw.obj.id = 0 /\ kw.obj.pin = 0 /\ kw'.tgt = DeterministicIDs
                  \/ ~(kw.obj.imp = "none" /\ kw.obj.id = 0 /\ kw.obj.pin = 0) /\ ~Refuses /\ kw'.tgt = RecordedIDs
<1>1. kw.pc = "finalize" /\ key' = key /\ UNCHANGED <<secrets, snapshot, remote>>
  BY DEF FinalizeKey, K
<1>2. ASSUME NEW t, kw' = [kw EXCEPT !.tgt = t, !.pc = "revoke"] PROVE kw'.pc = "revoke" /\ kw'.obj = kw.obj /\ kw'.id = kw.id /\ kw'.tgt = t
  BY <1>2 DEF Base, Typed, KWorkers
<1>3. CASE kw.obj.imp = "none" /\ kw.obj.id = 0 /\ kw.obj.pin = 0 /\ kw' = [kw EXCEPT !.tgt = DeterministicIDs, !.pc = "revoke"]
  BY <1>1, <1>2, <1>3
<1>4. CASE ~(kw.obj.imp = "none" /\ kw.obj.id = 0 /\ kw.obj.pin = 0) /\ ~Refuses /\ kw' = [kw EXCEPT !.tgt = RecordedIDs, !.pc = "revoke"]
  BY <1>1, <1>2, <1>4
<1>5. CASE ~(kw.obj.imp = "none" /\ kw.obj.id = 0 /\ kw.obj.pin = 0) /\ Refuses /\ kw' = KeyIdle(NoKey)
  BY <1>1, <1>5, KeyIdleFlat DEF KEnded
<1> QED BY <1>3, <1>4, <1>5 DEF FinalizeKey

LEMMA RevokeFlat ==
  ASSUME Base, RevokeAndDeleteKey
  PROVE  /\ kw.pc = "revoke" /\ key' = key /\ UNCHANGED <<secrets, snapshot>>
         /\ \E id \in kw.tgt : /\ remote' = DeleteKey(remote, id)
                               /\ kw'.pc = "revoke" /\ kw'.obj = kw.obj /\ kw'.id = kw.id /\ kw'.tgt = kw.tgt \ {id}
  BY DEF RevokeAndDeleteKey, K, Base, Typed, KWorkers

LEMMA DropKeyFlat ==
  ASSUME DropKeyFinalizer
  PROVE  kw.pc = "revoke" /\ kw.tgt = {} /\ key' = NoKey /\ KEnded /\ UNCHANGED <<secrets, snapshot, remote>>
  BY KeyIdleFlat DEF DropKeyFinalizer, K, KLeave, KEnded

LEMMA KeyFaultFlat ==
  ASSUME Base, KeyFault
  PROVE  /\ kw.pc # "idle" /\ UNCHANGED <<secrets, snapshot, remote>> /\ KSame(key', key)
         /\ \/ KEnded
            \/ KErred /\ kw.pc \in {"resolve", "pin", "import", "bind", "perms", "union", "apply"}
<1>1. kw.pc # "idle" /\ UNCHANGED <<secrets, snapshot, remote>> /\ key \in Keys
  BY DEF KeyFault, K, Base, Typed
<1>2. CASE kw' = KeyIdle(NoKey) /\ UNCHANGED key
  BY <1>1, <1>2, KeyIdleFlat DEF KEnded, KSame, KSpec, KIds, KClaims
<1>3. CASE InKeyPart /\ KError(key)
  BY <1>1, <1>3, KErrorFlat DEF InKeyPart
<1>4. CASE KFail
  BY <1>1, <1>4, KFailFlat
<1> QED BY <1>2, <1>3, <1>4 DEF KeyFault

LEMMA CollectFlat ==
  ASSUME Base, CollectKeySecrets
  PROVE  /\ UNCHANGED <<key, kw, remote>>
         /\ \/ snapshot.by \notin {0, key.uid} /\ snapshot'.by = 0 /\ snapshot'.id = 0 /\ secrets' = secrets
            \/ /\ snapshot' = snapshot
               /\ \E s \in SecretName : secrets[s].by \notin {0, key.uid}
                    /\ \A t \in SecretName : secrets'[t] = IF t = s THEN NoSecret ELSE secrets[t]
<1>1. CASE snapshot.by \notin {0, key.uid} /\ snapshot' = [by |-> 0, id |-> 0] /\ UNCHANGED secrets
  BY <1>1 DEF CollectKeySecrets
<1>2. ASSUME NEW s \in SecretName, secrets[s].by \notin {0, key.uid}, secrets' = [secrets EXCEPT ![s] = NoSecret]
      PROVE  \A t \in SecretName : secrets'[t] = IF t = s THEN NoSecret ELSE secrets[t]
  BY <1>2 DEF Base, Typed, Secrets
<1> QED BY <1>1, <1>2 DEF CollectKeySecrets

-----------------------------------------------------------------------------
(* The GarageKey and what its worker knows of it.                          *)

LEMMA KWentObject ==
  ASSUME KeyObject, focus' = focus, kw.pc \notin {"idle", "finalize", "handoff"}, NEW pc, pc \notin {"idle", "finalize", "revoke"}, KWent(pc)
  PROVE  KeyObject'
  BY DEF KeyObject, KWent, SameKey

LEMMA KEndedObject ==
  ASSUME KeyObject, focus' = focus, kw.pc # "idle", KEnded, KSpec(key', key), key'.imp = "none" => key'.pin = 0
  PROVE  KeyObject'
  BY DEF KeyObject, KEnded, KSpec

LEMMA KWroteObject ==
  ASSUME Base, KeyObject, focus' = focus, kw.pc # "idle", kw'.pc \notin {"idle", "finalize", "revoke"}, kw'.obj = key', KSpec(key', key),
         key'.imp = "none" => key'.pin = 0
  PROVE  KeyObject'
<1>1. key'.ver <= key'.ver
  BY DEF KSpec, Base, Typed, Keys
<1> QED BY <1>1 DEF KeyObject, KSpec, SameKey

LEMMA KErredObject ==
  ASSUME Base, KeyObject, focus' = focus, kw.pc # "idle", KErred, KSpec(key', key), key'.imp = "none" => key'.pin = 0
  PROVE  KeyObject'
  BY KEndedObject, KWroteObject DEF KErred

LEMMA KSameObject ==
  ASSUME Base, KeyObject, focus' = focus, kw.pc # "idle", KErred, KSame(key', key)
  PROVE  KeyObject'
  BY KErredObject DEF KSame, KSpec, KIds, KeyObject

LEMMA KUnpinned == ASSUME KeyObject, KSpec(key', key), key'.pin = key.pin PROVE key'.imp = "none" => key'.pin = 0
  BY DEF KeyObject, KSpec

LEMMA LearnedObject ==
  ASSUME KeyObject, focus' = focus, NEW id, kw.pc \in {"resolve", "pin", "import"}, Learned(id), key' = key
  PROVE  KeyObject'
<1>1. kw'.pc \in {"perms", "bind"} /\ kw'.obj = kw.obj
  BY DEF Learned
<1> QED BY <1>1 DEF KeyObject, SameKey

LEMMA KeyGoneObject == ASSUME key' = NoKey, kw'.pc = "idle", kw'.obj = NoKey PROVE KeyObject'
<1>1. key'.uid = 0 /\ key'.id = 0 /\ key'.nonce = 0 /\ key'.pin = 0 /\ key'.imp = "none"
  BY NoKeyIs
<1> QED BY <1>1 DEF KeyObject

LEMMA KMovedObject ==
  ASSUME Base, KeyObject, focus' = focus, kw.pc \notin {"idle", "finalize", "handoff"}, NEW pc, pc \notin {"idle", "finalize", "revoke"}, KMoved(pc)
  PROVE  KeyObject'
<1>1. CASE kw'.obj = key'
  BY <1>1, KWroteObject, KUnpinned DEF KMoved, KIds
<1>2. CASE kw'.obj = kw.obj /\ KSame(key', key)
  BY <1>2 DEF KMoved, KSame, KSpec, KIds, KClaims, KeyObject, SameKey
<1> QED BY <1>1, <1>2 DEF KMoved

LEMMA KeyObjectStep == ASSUME Base, KeyObject, SnapshotKnown, KeyNext \/ KeyFault PROVE KeyObject'
<1>0. focus' = focus
  BY KeyFrame
<1>1. CASE StartKey
  <2>1. CASE key' = NoKey /\ kw' = kw /\ kw.pc = "idle"
    <3>1. kw'.pc = "idle" /\ kw'.obj = NoKey
      BY <1>0, <2>1 DEF KeyObject
    <3> QED BY <1>0, <2>1, <3>1, KeyGoneObject
  <2>2. CASE key.del /\ key.fin /\ key' = key /\ kw'.pc = "finalize" /\ kw'.obj = key /\ key.uid # 0 /\ kw.pc = "idle"
    <3>1. key.ver <= key.ver
      BY DEF Base, Typed, Keys
    <3> QED BY <1>0, <2>2, <3>1 DEF KeyObject, SameKey
  <2>3. CASE /\ ~key.del /\ kw' = kw /\ (key.fin => key'.fin) /\ kw.pc = "idle" /\ key.uid # 0
             /\ key'.uid = key.uid /\ key'.imp = key.imp /\ KIds(key', key)
    BY <1>0, <2>3 DEF KeyObject, KIds
  <2>4. CASE key.fin /\ key' = key /\ kw'.pc = "resolve" /\ kw'.obj = key /\ key.uid # 0 /\ kw.pc = "idle"
    <3>1. key.ver <= key.ver
      BY DEF Base, Typed, Keys
    <3> QED BY <1>0, <2>4, <3>1 DEF KeyObject, SameKey
  <2> QED BY <1>0, <1>1, <2>1, <2>2, <2>3, <2>4, StartKeyFlat
<1>2. CASE GetTrackedKey
  BY <1>0, <1>2, TrackedFlat, LearnedObject
<1>3. CASE EnsureImportKeySnapshot
  BY <1>0, <1>3, SnapshotFlat, KWentObject, KSameObject
<1>4. CASE PinImport
  <2>1. CASE KErred /\ KSame(key', key)
    BY <1>0, <1>4, <2>1, PinFlat, KSameObject
  <2>2. CASE Learned(snapshot.id) /\ key' = key
    BY <1>0, <1>4, <2>2, PinFlat, LearnedObject
  <2>3. CASE /\ KSpec(key', key) /\ KClaims(key', key) /\ key'.sref = key.sref /\ key'.nonce = key.nonce /\ key'.id = key.id
             /\ kw'.pc = "import" /\ kw'.obj = key' /\ kw.pc = "pin"
    <3>1. key.imp = "ref"
      BY <1>0, <2>3 DEF KeyObject, SnapshotKnown
    <3> QED BY <1>0, <2>3, <3>1, KWroteObject DEF KSpec
  <2> QED BY <1>0, <1>4, <2>1, <2>2, <2>3, PinFlat
<1>5. CASE ImportPinnedKey
  BY <1>0, <1>5, ImportFlat, LearnedObject, KSameObject
<1>6. CASE CreateOrAdoptDeterministic
  <2>1. kw.pc = "resolve"
    BY <1>0, <1>6, AdoptFlat
  <2>2. CASE \E i \in {Legacy, Derived(key.nonce)} : Learned(i) /\ key' = key
    BY <1>0, <2>1, <2>2, LearnedObject
  <2>3. CASE KErred /\ KSpec(key', key) /\ key'.pin = key.pin
    BY <1>0, <2>1, <2>3, KErredObject, KUnpinned
  <2> QED BY <1>0, <1>6, <2>2, <2>3, AdoptFlat
<1>7. CASE PersistAccessKeyID
  BY <1>0, <1>7, PersistKeyFlat, KWroteObject, KUnpinned
<1>8. CASE ReserveBucketGrants
  <2>1. kw.pc = "perms"
    BY <1>0, <1>8, ReserveKeyFlat
  <2>2. CASE KErred /\ KSpec(key', key) /\ KIds(key', key)
    BY <1>0, <2>1, <2>2, KErredObject, KUnpinned DEF KIds
  <2>3. CASE KMoved("union")
    BY <1>0, <2>1, <2>3, KMovedObject
  <2> QED BY <1>0, <1>8, <2>2, <2>3, ReserveKeyFlat DEF KSame
<1>9. CASE UnionBucketPermissions
  BY <1>0, <1>9, UnionKeyFlat DEF KeyObject, SameKey
<1>10. CASE ApplyBucketPermissions
  BY <1>0, <1>10, ApplyKeyFlat DEF KeyObject, SameKey
<1>11. CASE NarrowBucketGrants
  <2>1. kw.pc = "apply"
    BY <1>0, <1>11, NarrowKeyFlat
  <2>2. CASE KErred /\ KSpec(key', key) /\ KIds(key', key)
    BY <1>0, <2>1, <2>2, KErredObject, KUnpinned DEF KIds
  <2>3. CASE KMoved("mark")
    BY <1>0, <2>1, <2>3, KMovedObject
  <2> QED BY <1>0, <1>11, <2>2, <2>3, NarrowKeyFlat DEF KSame
<1>12. ASSUME kw.pc # "idle", KEnded, KSame(key', key) PROVE KeyObject'
  BY <1>0, <1>12, KEndedObject, KUnpinned DEF KSame, KIds
<1>13. CASE MarkPreviousGeneratedSecret
  BY <1>0, <1>12, <1>13, MarkFlat, KWentObject
<1>14. CASE PublishSecret
  <2>1. CASE KEnded /\ KSame(key', key)
    BY <1>0, <1>12, <1>14, <2>1, PublishFlat
  <2>2. CASE key' = key /\ kw'.pc = "handoff" /\ KSpec(kw'.obj, kw.obj) /\ KIds(kw'.obj, kw.obj) /\ KClaims(kw'.obj, kw.obj)
             /\ kw.pc = "publish"
    BY <1>0, <2>2 DEF KeyObject, SameKey, KSpec, KIds, KClaims
  <2> QED BY <1>0, <1>14, <2>1, <2>2, PublishFlat
<1>15. CASE PersistSecretRef
  <2>1. CASE kw'.obj = key'
    BY <1>0, <1>15, <2>1, HandoffFlat, KWroteObject, KUnpinned DEF KIds
  <2>2. CASE kw'.obj = kw.obj /\ key' = key
    BY <1>0, <1>15, <2>2, HandoffFlat DEF KeyObject, SameKey
  <2> QED BY <1>0, <1>15, <2>1, <2>2, HandoffFlat
<1>16. CASE CleanupStaleGeneratedSecrets
  BY <1>0, <1>12, <1>16, SweepFlat, KWentObject
<1>17. CASE UpdateKeyStatus
  BY <1>0, <1>17, KeyStatusFlat, KEndedObject, KUnpinned
<1>18. CASE FinalizeKey
  <2>1. CASE KEnded
    BY <1>0, <1>18, <2>1, FinalizeKeyFlat DEF KEnded, KeyObject
  <2>2. CASE kw'.pc = "revoke" /\ kw'.obj = kw.obj
    BY <1>0, <1>18, <2>2, FinalizeKeyFlat DEF KeyObject, SameKey
  <2> QED BY <1>0, <1>18, <2>1, <2>2, FinalizeKeyFlat
<1>19. CASE RevokeAndDeleteKey
  BY <1>0, <1>19, RevokeFlat DEF KeyObject, SameKey
<1>20. CASE DropKeyFinalizer
  BY <1>0, <1>20, DropKeyFlat, KeyGoneObject DEF KEnded
<1>21. CASE CollectKeySecrets
  BY <1>0, <1>21, CollectFlat DEF KeyObject
<1>22. CASE KeyFault
  BY <1>0, <1>12, <1>22, KeyFaultFlat, KSameObject
<1> QED BY <1>1, <1>2, <1>3, <1>4, <1>5, <1>6, <1>7, <1>8, <1>9, <1>10, <1>11, <1>13, <1>14, <1>15, <1>16, <1>17,
   <1>18, <1>19, <1>20, <1>21, <1>22 DEF KeyNext

LEMMA KeyObjectUser == ASSUME Base, KeyObject, UserNext PROVE KeyObject'
<1>1. kw' = kw /\ focus' = focus /\ UserKey
  BY UserFrame, UserKeyFlat
<1>2. CASE key' = key
  BY <1>1, <1>2 DEF KeyObject
<1>3. key.ver \in Nat /\ kw.obj.ver \in Nat
  BY KeyReads DEF Base, Keys
<1>4. CASE EditedKey
  BY <1>1, <1>3, <1>4 DEF EditedKey, KeyObject, SameKey
<1>5. CASE key.uid = 0 /\ \E r \in BOOLEAN : CreatedKey(NextUID(remote.keyBy), IF focus = "import" THEN "ref" ELSE "none", r)
  <2>1. kw'.pc = "idle" /\ kw'.obj = NoKey
    BY <1>1, <1>5 DEF KeyObject
  <2> DEFINE u == NextUID(remote.keyBy)
  <2>2. u # 0
    <3>1. u \in Nat /\ u >= 1
      BY NextUIDTyped
    <3> HIDE DEF u
    <3> QED BY <3>1
  <2>3. \E i, r : CreatedKey(u, i, r)
    BY <1>5
  <2>4. key'.uid # 0 /\ key'.id = 0 /\ key'.nonce = 0 /\ key'.pin = 0
    <3> HIDE DEF u
    <3> QED BY <2>2, <2>3 DEF CreatedKey
  <2> QED BY <2>1, <2>4 DEF KeyObject
<1>6. CASE MarkedKey
  BY <1>1, <1>3, <1>6 DEF MarkedKey, KeyObject, SameKey
<1>7. CASE ~key.fin /\ ~key.del /\ key' = NoKey
  <2>1. kw'.pc = "idle" /\ kw'.obj = NoKey
    BY <1>1, <1>7 DEF KeyObject
  <2> QED BY <1>7, <2>1, KeyGoneObject
<1> QED BY <1>1, <1>2, <1>4, <1>5, <1>6, <1>7 DEF UserKey

LEMMA KeyObjectNext == ASSUME Base, KeyObject, SnapshotKnown, Next PROVE KeyObject'
<1>1. CASE BucketNext \/ BucketFault
  BY <1>1, BucketFrame DEF KeyObject
<1>2. CASE TokenNext \/ TokenFault
  BY <1>2, TokenFrame DEF KeyObject
<1>3. CASE ReconcileGrant
  BY <1>3 DEF KeyObject, ReconcileGrant
<1> QED BY <1>1, <1>2, <1>3, NextCases, KeyObjectStep, KeyObjectUser

LEMMA SnapshotStep == ASSUME Base, KeyObject, SnapshotKnown, KeyNext \/ KeyFault PROVE SnapshotKnown'
<1>1. ASSUME UNCHANGED snapshot, kw'.pc \notin {"pin", "import"} PROVE SnapshotKnown'
  BY <1>1 DEF SnapshotKnown
<1>2. KErred \/ KEnded => kw'.pc \notin {"pin", "import"}
  BY DEF KErred, KEnded
<1>3. CASE StartKey
  BY <1>1, <1>3, StartKeyFlat DEF SnapshotKnown
<1>4. CASE GetTrackedKey \/ CreateOrAdoptDeterministic
  <2>1. UNCHANGED snapshot /\ (KErred \/ \E i : Learned(i))
    BY <1>4, TrackedFlat, AdoptFlat
  <2>2. kw'.pc \notin {"pin", "import"}
    BY <1>2, <2>1 DEF Learned
  <2> QED BY <1>1, <2>1, <2>2
<1>5. CASE EnsureImportKeySnapshot
  <2>1. kw.pc = "resolve" /\ kw.obj.imp = "ref" /\ kw.obj.uid = key.uid /\ key.uid # 0 /\ key.imp = "ref"
    BY <1>5, SnapshotFlat DEF KeyObject, SameKey
  <2>2. CASE KErred /\ snapshot' = snapshot
    BY <1>1, <1>2, <2>2
  <2>3. CASE snapshot.by = kw.obj.uid /\ KWent("pin") /\ snapshot' = snapshot
    BY <2>1, <2>3 DEF KWent, SnapshotKnown
  <2>4. CASE KWent("pin") /\ snapshot' = [by |-> kw.obj.uid, id |-> source]
    <3>1. source # 0
      BY Constants DEF Base, Typed
    <3> QED BY <2>1, <2>4, <3>1 DEF KWent, SnapshotKnown
  <2> QED BY <1>5, <2>2, <2>3, <2>4, SnapshotFlat
<1>6. CASE PinImport
  <2>1. CASE KErred \/ Learned(snapshot.id)
    BY <1>1, <1>2, <1>6, <2>1, PinFlat DEF Learned
  <2>2. CASE KSpec(key', key) /\ kw'.pc = "import"
    BY <1>6, <2>2, PinFlat DEF SnapshotKnown, KSpec
  <2> QED BY <1>6, <2>1, <2>2, PinFlat
<1>7. CASE ImportPinnedKey
  BY <1>1, <1>2, <1>7, ImportFlat DEF Learned
<1>8. CASE PersistAccessKeyID
  BY <1>1, <1>8, PersistKeyFlat
<1>9. CASE ReserveBucketGrants
  BY <1>1, <1>2, <1>9, ReserveKeyFlat DEF KMoved
<1>10. CASE UnionBucketPermissions
  BY <1>1, <1>10, UnionKeyFlat
<1>11. CASE ApplyBucketPermissions
  BY <1>1, <1>11, ApplyKeyFlat
<1>12. CASE NarrowBucketGrants
  BY <1>1, <1>2, <1>12, NarrowKeyFlat DEF KMoved
<1>13. CASE MarkPreviousGeneratedSecret
  BY <1>1, <1>2, <1>13, MarkFlat DEF KWent
<1>14. CASE PublishSecret
  BY <1>1, <1>2, <1>14, PublishFlat
<1>15. CASE PersistSecretRef
  BY <1>1, <1>15, HandoffFlat
<1>16. CASE CleanupStaleGeneratedSecrets
  BY <1>1, <1>2, <1>16, SweepFlat DEF KWent
<1>17. CASE UpdateKeyStatus
  BY <1>1, <1>2, <1>17, KeyStatusFlat
<1>18. CASE FinalizeKey
  BY <1>1, <1>2, <1>18, FinalizeKeyFlat
<1>19. CASE RevokeAndDeleteKey
  BY <1>1, <1>19, RevokeFlat
<1>20. CASE DropKeyFinalizer
  BY <1>1, <1>2, <1>20, DropKeyFlat
<1>21. CASE CollectKeySecrets
  BY <1>21, CollectFlat DEF SnapshotKnown
<1>22. CASE KeyFault
  BY <1>1, <1>2, <1>22, KeyFaultFlat
<1> QED BY <1>3, <1>4, <1>5, <1>6, <1>7, <1>8, <1>9, <1>10, <1>11, <1>12, <1>13, <1>14, <1>15, <1>16, <1>17,
   <1>18, <1>19, <1>20, <1>21, <1>22 DEF KeyNext

LEMMA SnapshotUser == ASSUME Base, KeyObject, SnapshotKnown, UserNext PROVE SnapshotKnown'
<1>1. UNCHANGED <<kw, snapshot>> /\ UserKey
  BY UserFrame, UserKeyFlat
<1>2. CASE kw.pc \in {"pin", "import"}
  <2>1. key.uid # 0 /\ key.fin
    BY <1>2 DEF KeyObject
  <2>2. key' = key \/ EditedKey \/ MarkedKey
    BY <1>1, <2>1 DEF UserKey
  <2> QED BY <1>1, <2>2 DEF SnapshotKnown, EditedKey, MarkedKey, SameKey
<1> QED BY <1>1, <1>2 DEF SnapshotKnown

(* What every other part rests on: types, and objects in step with their   *)
(* workers.                                                                *)
Objects == Base /\ BucketObject /\ KeyObject /\ SnapshotKnown
LEMMA ObjectsNext == ASSUME Objects, Next PROVE Objects'
<1>1. SnapshotKnown'
  <2>1. CASE BucketNext \/ BucketFault
    BY <2>1, BucketFrame DEF SnapshotKnown, Objects
  <2>2. CASE TokenNext \/ TokenFault
    BY <2>2, TokenFrame DEF SnapshotKnown, Objects
  <2>3. CASE ReconcileGrant
    BY <2>3 DEF SnapshotKnown, ReconcileGrant, Objects
  <2> QED BY <2>1, <2>2, <2>3, NextCases, SnapshotStep, SnapshotUser DEF Objects
<1> QED BY <1>1, BaseStep, BucketObjectNext, KeyObjectNext DEF Objects

-----------------------------------------------------------------------------
(* What the steps of a bucket's worker leave alone, point by point.        *)

Kept ==
  /\ bw.pc \notin {"idle", "drop"} => SameObj(bucket', bucket) /\ SameSpec(bucket', bucket)
  /\ bw.pc \notin {"idle", "drop", "bind"} => bucket'.id = bucket.id
  /\ bw.pc \notin {"idle", "drop", "resolve", "unannotate"} => bucket'.rsv = bucket.rsv
  /\ bw.pc \notin {"idle", "drop", "aliasDone"} => bucket'.mAlias = bucket.mAlias
  /\ bw.pc \notin {"idle", "drop", "aliasDone", "abandoned", "alias"} => bucket'.pAlias = bucket.pAlias
  /\ bw.pc \notin {"idle", "drop", "perms", "apply"} => bucket'.mKeys = bucket.mKeys
  /\ bw.pc \notin {"idle", "drop", "local", "localDone"} => bucket'.mLocal = bucket.mLocal
  /\ bw.pc \notin {"idle", "drop", "status"} =>
       bucket'.og = bucket.og /\ bucket'.rules = bucket.rules /\ bucket'.rulesSet = bucket.rulesSet
  /\ bw.pc \notin {"idle", "drop", "status"} => bucket'.phase \in {bucket.phase, "Failed"}
  /\ bw.pc \notin {"idle", "drop", "status", "resolve"} => bucket'.timeouts = bucket.timeouts /\ bucket'.decodes = bucket.decodes
  /\ bw.pc # "idle" /\ bw'.pc # "idle" => bw'.name = bw.name
  /\ bw.pc \notin {"idle", "resolve", "create"} /\ bw'.pc # "idle" => bw'.id = bw.id /\ bw'.seen = bw.seen
  /\ bw.pc \notin {"idle", "life", "verify"} /\ bw'.pc # "idle" => bw'.obj = bucket' \/ (bw'.obj = bw.obj /\ SameClaim(bucket', bucket))
  /\ bw'.pc = "idle" => bw' = bw \/ bw' = Idle(NoBucket)

LEMMA WentKept == ASSUME NEW pc, pc # "idle", Went(pc) PROVE Kept
  BY DEF Kept, Went, SameWork, SameObj, SameSpec, SameClaim

LEMMA EndedKept == ASSUME Ended, SameClaim(bucket', bucket), bucket'.mKeys = bucket.mKeys, bucket'.phase \in {bucket.phase, "Failed"} PROVE Kept
<1>1. bw'.pc = "idle"
  BY IdleFlat DEF Ended
<1> QED BY <1>1 DEF Kept, Ended, SameMarks, SameClaim

LEMMA FailKept == ASSUME FailEnds, bucket'.mKeys = bucket.mKeys PROVE Kept
  BY EndedKept DEF FailEnds

LEMMA KeptStep ==
  ASSUME Base, BucketObject, BucketNext \/ BucketFault
  PROVE  Kept
<1>1. CASE StartBucket
  <2>1. bw.pc = "idle" /\ (bw'.pc = "idle" => bw' = bw)
    BY <1>1, StartFlat
  <2> QED BY <2>1 DEF Kept
<1>2. CASE CleanupIncompleteUploads
  BY <1>2, CleanupFlat, WentKept
<1>3. CASE RemoveCleanupAnnotation
  <2>1. CASE Wrote("resolve") /\ SameMarks(bucket', bucket) /\ bucket'.mKeys = bucket.mKeys /\ bw.pc = "cleaned"
    BY <2>1 DEF Wrote, Kept, SameMarks, SameClaim, SameWork
  <2>2. CASE Ended /\ bucket' = bucket
    BY <2>2, EndedKept DEF SameClaim
  <2> QED BY <1>3, <2>1, <2>2, CleanedFlat
<1>4. CASE GetOrCreateBucket
  <2>1. CASE bucket' = bucket /\ bw'.obj = bw.obj /\ bw'.pc \in {"alias", "bind"} /\ bw.pc = "resolve" /\ bw'.name = bw.name
    BY <2>1 DEF Kept, SameObj, SameSpec, SameClaim
  <2>2. CASE FailEnds /\ bucket'.mKeys = bucket.mKeys
    BY <2>2, FailKept
  <2>3. CASE /\ Wrote("create") /\ bw.pc = "resolve" /\ bucket'.id = bucket.id /\ bucket'.mAlias = bucket.mAlias
             /\ bucket'.pAlias = bucket.pAlias /\ bucket'.mLocal = bucket.mLocal /\ bucket'.mKeys = bucket.mKeys
    BY <2>3 DEF Wrote, Kept, SameClaim, SameWork
  <2>4. bw.pc = "resolve"
    BY <1>4, ResolveFlat
  <2> QED BY <1>4, <2>1, <2>2, <2>3, <2>4, ResolveFlat
<1>5. CASE CreateReservedBucket
  BY <1>5, CreateFlat DEF Kept, SameObj, SameSpec, SameClaim
<1>6. CASE PersistBucketID
  BY <1>6, WriteID DEF PersistBucketID, B, Wrote, Kept, SameClaim, SameWork
<1>7. CASE RemoveAbandonedAlias
  BY <1>7, GoFlat, WentKept DEF RemoveAbandonedAlias
<1>8. CASE ClearAbandonedAlias
  BY <1>8, WritePending DEF ClearAbandonedAlias, B, Wrote, Kept, SameClaim, SameWork
<1>9. CASE ReserveGlobalAlias
  <2>1. CASE Go("aliasAdd")
    BY <2>1, GoFlat, WentKept
  <2>2. CASE Persist([bucket EXCEPT !.pAlias = bw.name], "aliasAdd")
    BY <1>9, <2>2, WritePending DEF ReserveGlobalAlias, B, Wrote, Kept, SameClaim, SameWork
  <2> QED BY <1>9, <2>1, <2>2 DEF ReserveGlobalAlias
<1>10. CASE AddGlobalAlias
  <2>1. Fail \/ Go("aliasDrop")
    BY <1>10 DEF AddGlobalAlias
  <2> QED BY <2>1, GoFlat, WentKept, FailFlat, FailKept
<1>11. CASE RemovePreviousAlias
  BY <1>11, GoFlat, WentKept DEF RemovePreviousAlias
<1>12. CASE CompleteAliasHandoff
  BY <1>12, WriteManaged DEF CompleteAliasHandoff, B, Wrote, Kept, SameClaim, SameWork
<1>13. CASE RemoveReservationAlias
  <2>1. Go("settings") \/ Go("unannotate")
    BY <1>13 DEF RemoveReservationAlias
  <2> QED BY <2>1, GoFlat, WentKept
<1>14. CASE ClearReservationAnnotation
  <2>1. bw.pc = "unannotate" /\ Persist([bucket EXCEPT !.rsv = FALSE], "settings")
    BY <1>14 DEF ClearReservationAnnotation, B
  <2>2. bw.pc = "unannotate" /\ Wrote("settings") /\ bucket'.id = bucket.id /\ bucket'.mAlias = bucket.mAlias
        /\ bucket'.pAlias = bucket.pAlias /\ bucket'.mLocal = bucket.mLocal /\ bucket'.mKeys = bucket.mKeys
    BY <2>1, WriteRsv
  <2> QED BY <2>2 DEF Wrote, Kept, SameClaim, SameWork
<1>15. CASE UpdateBucketSettings
  <2>1. Fail \/ Go("perms")
    BY <1>15 DEF UpdateBucketSettings
  <2> QED BY <2>1, GoFlat, WentKept, FailFlat, FailKept
<1>16. CASE ReserveKeyGrants
  <2>1. bw.pc = "perms"
    BY <1>16, ReserveFlat
  <2>2. CASE FailEnds
    <3>1. bw'.pc = "idle"
      BY <2>2, IdleFlat DEF FailEnds, Ended
    <3> QED BY <2>1, <2>2, <3>1 DEF FailEnds, Ended, Kept, SameMarks, SameClaim
  <2>3. CASE Moved("union")
    BY <2>1, <2>3 DEF Moved, Kept, SameMarks, SameClaim
  <2> QED BY <1>16, <2>2, <2>3, ReserveFlat
<1>17. CASE UnionKeyPermissions
  BY <1>17, UnionFlat DEF Kept, SameObj, SameSpec, SameClaim
<1>18. CASE ApplyKeyPermissions
  BY <1>18, ApplyFlat DEF Kept, SameObj, SameSpec, SameClaim
<1>19. CASE NarrowKeyGrants
  <2>1. bw.pc = "apply"
    BY <1>19, NarrowFlat
  <2>2. CASE FailEnds
    <3>1. bw'.pc = "idle"
      BY <2>2, IdleFlat DEF FailEnds, Ended
    <3> QED BY <2>1, <2>2, <3>1 DEF FailEnds, Ended, Kept, SameMarks, SameClaim
  <2>3. CASE Moved("local")
    BY <2>1, <2>3 DEF Moved, Kept, SameMarks, SameClaim
  <2> QED BY <1>19, <2>2, <2>3, NarrowFlat
<1>20. CASE ReserveLocalAliases
  <2>1. CASE FailEnds /\ bucket'.mKeys = bucket.mKeys
    BY <2>1, FailKept
  <2>2. CASE ~(FailEnds /\ bucket'.mKeys = bucket.mKeys)
    BY <1>20, <2>2, ReserveLocalFlat DEF Kept, SameClaim
  <2> QED BY <2>1, <2>2
<1>21. CASE AddLocalAlias
  <2>1. CASE FailEnds /\ bucket'.mKeys = bucket.mKeys
    BY <2>1, FailKept
  <2>2. CASE ~(FailEnds /\ bucket'.mKeys = bucket.mKeys)
    BY <1>21, <2>2, AddLocalFlat DEF Kept, SameObj, SameSpec, SameClaim
  <2> QED BY <2>1, <2>2
<1>22. CASE RemoveLocalAliases
  BY <1>22, RemoveLocalFlat, WentKept
<1>23. CASE NarrowLocalAliases
  <2>1. bw.pc = "localDone" /\ Persist([bucket EXCEPT !.mLocal = bw.man], "life")
    BY <1>23 DEF NarrowLocalAliases, B
  <2> QED BY <2>1, WriteLocal DEF Wrote, Kept, SameClaim, SameWork
<1>24. CASE ReconcileLifecycleSafe \/ VerifyLifecycleApplied
  <2>1. CASE Went("status") \/ Went("verify")
    BY <2>1, WentKept
  <2>2. CASE bucket' = bucket /\ bw'.pc = "status" /\ bw.pc \in {"life", "verify"} /\ SameWork(bw', bw)
    BY <2>2 DEF Kept, SameObj, SameSpec, SameWork
  <2> QED BY <1>24, <2>1, <2>2, LifecycleFlat
<1>25. CASE UpdateStatusFromGarage
  <2>1. CASE FailEnds
    BY <1>25, <2>1, StatusFlat, FailKept
  <2>2. CASE Ended /\ bw.pc = "status" /\ bucket'.mKeys = bucket.mKeys
    <3>1. bw'.pc = "idle"
      BY <2>2, IdleFlat DEF Ended
    <3> QED BY <2>2, <3>1 DEF Kept, Ended, SameMarks
  <2> QED BY <1>25, <2>1, <2>2, StatusFlat
<1>26. CASE BucketLookupTimeout \/ BucketDecodeError
  <2>3. Ended
    BY <1>26, LookupFlat
  <2>1. bw'.pc = "idle" /\ Ended
    BY <2>3, IdleFlat DEF Ended
  <2>2. /\ bw.pc \in {"resolve", "status"} /\ bucket'.mKeys = bucket.mKeys /\ bucket'.phase = bucket.phase
        /\ bucket'.og = bucket.og /\ bucket'.rules = bucket.rules /\ bucket'.rulesSet = bucket.rulesSet
    BY <1>26, LookupFlat
  <2> QED BY <2>1, <2>2 DEF Kept, Ended, SameMarks
<1>27. CASE FinalizeBucket
  <2>1. CASE Ended /\ bucket' = bucket
    BY <2>1, EndedKept DEF SameClaim
  <2>2. CASE bw'.pc = "drop" /\ bw'.obj = bw.obj /\ bucket' = bucket /\ bw.pc = "finalize" /\ SameWork(bw', bw)
    BY <2>2 DEF Kept, SameObj, SameSpec, SameClaim, SameWork
  <2>3. bucket' = bucket /\ bw.pc = "finalize"
    BY <1>27, FinalizeFlat
  <2> QED BY <1>27, <2>1, <2>2, <2>3, FinalizeFlat
<1>28. CASE DropBucketFinalizer
  <2>1. bw.pc = "drop" /\ bw' = Idle(NoBucket)
    BY <1>28, DropFlat
  <2>2. bw'.pc = "idle"
    BY <2>1, IdleFlat
  <2> QED BY <2>1, <2>2 DEF Kept
<1>29. CASE BucketFault
  BY <1>29, BucketFaultFlat, EndedKept
<1> QED BY <1>1, <1>2, <1>3, <1>4, <1>5, <1>6, <1>7, <1>8, <1>9, <1>10, <1>11, <1>12, <1>13, <1>14, <1>15, <1>16, <1>17,
   <1>18, <1>19, <1>20, <1>21, <1>22, <1>23, <1>24, <1>25, <1>26, <1>27, <1>28, <1>29 DEF BucketNext

(* From which points a bucket's worker comes to a point.                   *)
BMoves ==
  \/ bw'.pc = "idle"
  \/ bw.pc = "idle" /\ bw'.pc \in {"finalize", "cleanup", "resolve"}
  \/ bw.pc = "cleanup" /\ bw'.pc = "cleaned"
  \/ bw.pc = "cleaned" /\ bw'.pc = "resolve"
  \/ bw.pc = "resolve" /\ bw'.pc \in {"alias", "bind", "create"}
  \/ bw.pc = "create" /\ bw'.pc = "bind"
  \/ bw.pc = "bind" /\ bw'.pc = "alias"
  \/ bw.pc = "alias" /\ bw'.pc \in {"abandoned", "aliasAdd"}
  \/ bw.pc = "abandoned" /\ bw'.pc = "alias"
  \/ bw.pc = "aliasAdd" /\ bw'.pc = "aliasDrop"
  \/ bw.pc = "aliasDrop" /\ bw'.pc = "aliasDone"
  \/ bw.pc = "aliasDone" /\ bw'.pc = "unreserve"
  \/ bw.pc = "unreserve" /\ bw'.pc \in {"settings", "unannotate"}
  \/ bw.pc = "unannotate" /\ bw'.pc = "settings"
  \/ bw.pc = "settings" /\ bw'.pc = "perms"
  \/ bw.pc = "perms" /\ bw'.pc = "union"
  \/ bw.pc = "union" /\ bw'.pc = "apply"
  \/ bw.pc = "apply" /\ bw'.pc \in {"apply", "local"}
  \/ bw.pc = "local" /\ bw'.pc = "localAdd"
  \/ bw.pc = "localAdd" /\ bw'.pc \in {"localAdd", "localDone"}
  \/ bw.pc = "localDone" /\ bw'.pc = "life"
  \/ bw.pc = "life" /\ bw'.pc \in {"verify", "status"}
  \/ bw.pc = "verify" /\ bw'.pc = "status"
  \/ bw.pc = "finalize" /\ bw'.pc = "drop"

\* What a step of a bucket's worker leaves alone in Garage and in the cluster.
BRemote ==
  /\ cluster'.state = cluster.state
  /\ remote'.key = remote.key /\ remote'.keyBy = remote.keyBy /\ remote'.old = remote.old /\ remote'.sick = remote.sick
  /\ bw.pc \notin {"create", "finalize"} => remote'.bucket = remote.bucket /\ remote'.by = remote.by
  /\ bw.pc \notin {"create", "finalize", "alias", "aliasAdd", "aliasDrop", "unreserve"} => remote'.alias = remote.alias
  /\ bw.pc \notin {"finalize", "apply"} => remote'.perm = remote.perm
  /\ bw.pc \notin {"finalize", "localAdd"} => remote'.local = remote.local
  /\ bw.pc # "life" => remote'.rules = remote.rules

LEMMA EndedStops == ASSUME Ended PROVE bw'.pc = "idle" /\ bw'.obj = NoBucket
  BY IdleFlat DEF Ended

LEMMA BMovesStep == ASSUME Base, BucketObject, BucketNext \/ BucketFault PROVE BMoves
<1>0. (Ended \/ FailEnds) => bw'.pc = "idle"
  BY EndedStops DEF FailEnds
<1>1. CASE StartBucket
  BY <1>1, StartFlat DEF BMoves
<1>2. CASE CleanupIncompleteUploads
  BY <1>2, CleanupFlat DEF BMoves, Went
<1>3. CASE RemoveCleanupAnnotation
  BY <1>0, <1>3, CleanedFlat DEF BMoves, Wrote
<1>4. CASE GetOrCreateBucket
  BY <1>0, <1>4, ResolveFlat DEF BMoves, Wrote
<1>5. CASE CreateReservedBucket
  BY <1>5, CreateFlat DEF BMoves
<1>6. CASE PersistBucketID
  BY <1>6, WriteID DEF PersistBucketID, B, Wrote, BMoves
<1>7. CASE RemoveAbandonedAlias
  BY <1>7, GoFlat DEF RemoveAbandonedAlias, B, Went, BMoves
<1>8. CASE ClearAbandonedAlias
  BY <1>8, WritePending DEF ClearAbandonedAlias, B, Wrote, BMoves
<1>9. CASE ReserveGlobalAlias
  <2>1. CASE Go("aliasAdd")
    BY <1>9, <2>1, GoFlat DEF ReserveGlobalAlias, B, Went, BMoves
  <2>2. CASE Persist([bucket EXCEPT !.pAlias = bw.name], "aliasAdd")
    BY <1>9, <2>2, WritePending DEF ReserveGlobalAlias, B, Wrote, BMoves
  <2> QED BY <1>9, <2>1, <2>2 DEF ReserveGlobalAlias
<1>10. CASE AddGlobalAlias
  <2>1. bw.pc = "aliasAdd" /\ (Fail \/ Go("aliasDrop"))
    BY <1>10 DEF AddGlobalAlias, B
  <2> QED BY <1>0, <2>1, GoFlat, FailFlat DEF Went, BMoves
<1>11. CASE RemovePreviousAlias
  BY <1>11, GoFlat DEF RemovePreviousAlias, B, Went, BMoves
<1>12. CASE CompleteAliasHandoff
  BY <1>12, WriteManaged DEF CompleteAliasHandoff, B, Wrote, BMoves
<1>13. CASE RemoveReservationAlias
  <2>1. bw.pc = "unreserve" /\ (Go("settings") \/ Go("unannotate"))
    BY <1>13 DEF RemoveReservationAlias, B
  <2> QED BY <2>1, GoFlat DEF Went, BMoves
<1>14. CASE ClearReservationAnnotation
  <2>1. bw.pc = "unannotate" /\ Persist([bucket EXCEPT !.rsv = FALSE], "settings")
    BY <1>14 DEF ClearReservationAnnotation, B
  <2>2. bw.pc = "unannotate" /\ Wrote("settings")
    BY <2>1, WriteRsv
  <2> QED BY <2>2 DEF Wrote, BMoves
<1>15. CASE UpdateBucketSettings
  <2>1. bw.pc = "settings" /\ (Fail \/ Go("perms"))
    BY <1>15 DEF UpdateBucketSettings, B
  <2> QED BY <1>0, <2>1, GoFlat, FailFlat DEF Went, BMoves
<1>16. CASE ReserveKeyGrants
  BY <1>0, <1>16, ReserveFlat DEF BMoves, Moved
<1>17. CASE UnionKeyPermissions
  BY <1>17, UnionFlat DEF BMoves
<1>18. CASE ApplyKeyPermissions
  BY <1>18, ApplyFlat DEF BMoves
<1>19. CASE NarrowKeyGrants
  BY <1>0, <1>19, NarrowFlat DEF BMoves, Moved
<1>20. CASE ReserveLocalAliases
  BY <1>0, <1>20, ReserveLocalFlat DEF BMoves
<1>21. CASE AddLocalAlias
  BY <1>0, <1>21, AddLocalFlat DEF BMoves
<1>22. CASE RemoveLocalAliases
  BY <1>22, RemoveLocalFlat DEF BMoves, Went
<1>23. CASE NarrowLocalAliases
  <2>1. bw.pc = "localDone" /\ Persist([bucket EXCEPT !.mLocal = bw.man], "life")
    BY <1>23 DEF NarrowLocalAliases, B
  <2> QED BY <2>1, WriteLocal DEF Wrote, BMoves
<1>24. CASE ReconcileLifecycleSafe \/ VerifyLifecycleApplied
  BY <1>24, LifecycleFlat DEF BMoves, Went
<1>25. CASE UpdateStatusFromGarage
  BY <1>0, <1>25, StatusFlat DEF BMoves
<1>26. CASE BucketLookupTimeout \/ BucketDecodeError
  <2>1. Ended
    BY <1>26, LookupFlat
  <2> QED BY <1>0, <2>1 DEF BMoves
<1>27. CASE FinalizeBucket
  BY <1>0, <1>27, FinalizeFlat DEF BMoves
<1>28. CASE DropBucketFinalizer
  <2>1. bw' = Idle(NoBucket)
    BY <1>28, DropFlat
  <2> QED BY <2>1, IdleFlat DEF BMoves
<1>29. CASE BucketFault
  <2>1. Ended
    BY <1>29, BucketFaultFlat
  <2> QED BY <1>0, <2>1 DEF BMoves
<1> QED BY <1>1, <1>2, <1>3, <1>4, <1>5, <1>6, <1>7, <1>8, <1>9, <1>10, <1>11, <1>12, <1>13, <1>14, <1>15, <1>16, <1>17,
   <1>18, <1>19, <1>20, <1>21, <1>22, <1>23, <1>24, <1>25, <1>26, <1>27, <1>28, <1>29 DEF BucketNext

\* The calls of Garage, field by field.
LEMMA CreateBucketIs ==
  ASSUME NEW r \in Garages, NEW id \in BucketId, NEW a \in Alias, NEW uid
  PROVE  LET s == CreateBucket(r, id, a, uid) IN
         /\ \A b \in BucketId : s.bucket[b] = (IF b = id THEN "live" ELSE r.bucket[b])
         /\ \A b \in BucketId : s.by[b] = (IF b = id THEN uid ELSE r.by[b])
         /\ \A c \in Alias : s.alias[c] = (IF c = a THEN id ELSE r.alias[c])
         /\ s.key = r.key /\ s.keyBy = r.keyBy /\ s.perm = r.perm /\ s.local = r.local /\ s.rules = r.rules
         /\ s.old = r.old /\ s.sick = r.sick
  BY DEF Garages, CreateBucket

LEMMA DeleteBucketIs ==
  ASSUME NEW r \in Garages, NEW id \in BucketId
  PROVE  LET s == DeleteBucket(r, id) IN
         /\ \A b \in BucketId : s.bucket[b] = (IF b = id /\ r.bucket[b] = "live" THEN "deleted" ELSE r.bucket[b])
         /\ s.by = r.by
         /\ \A c \in Alias : s.alias[c] = (IF r.alias[c] = id THEN 0 ELSE r.alias[c])
         /\ \A b \in BucketId, k \in KeyId : s.perm[b][k] = (IF b = id THEN {} ELSE r.perm[b][k])
         /\ \A b \in BucketId : s.local[b] = (IF b = id THEN {} ELSE r.local[b])
         /\ s.key = r.key /\ s.keyBy = r.keyBy /\ s.rules = r.rules /\ s.old = r.old /\ s.sick = r.sick
  BY DEF Garages, DeleteBucket, Perms

LEMMA UnaliasIs ==
  ASSUME NEW r \in Garages, NEW a \in Alias
  PROVE  LET s == Unalias(r, a) IN
         /\ \A c \in Alias : s.alias[c] = (IF c = a /\ r.alias[c] = bw.id THEN 0 ELSE r.alias[c])
         /\ s.bucket = r.bucket /\ s.by = r.by /\ s.key = r.key /\ s.keyBy = r.keyBy /\ s.perm = r.perm
         /\ s.local = r.local /\ s.rules = r.rules /\ s.old = r.old /\ s.sick = r.sick
  BY DEF Garages, Unalias

LEMMA ExactIs ==
  ASSUME NEW r \in Garages, NEW id \in BucketId, NEW k \in KeyId, NEW c, NEW d
  PROVE  LET s == Exact(r, id, k, c, d) IN
         /\ \A b \in BucketId, l \in KeyId :
              s.perm[b][l] = (IF b = id /\ l = k /\ r.bucket[id] = "live" /\ r.key[k] = "live"
                              THEN (r.perm[b][l] \ (c \ d)) \cup (d \ c) ELSE r.perm[b][l])
         /\ s.bucket = r.bucket /\ s.by = r.by /\ s.alias = r.alias /\ s.key = r.key /\ s.keyBy = r.keyBy
         /\ s.local = r.local /\ s.rules = r.rules /\ s.old = r.old /\ s.sick = r.sick
  BY DEF Garages, Exact, Perms

LEMMA ImportKeyIs ==
  ASSUME NEW r \in Garages, NEW id \in KeyId, NEW uid, NEW name
  PROVE  LET s == ImportKey(r, id, uid, name) IN
         /\ \A k \in KeyId : s.key[k] = (IF k = id THEN "live" ELSE r.key[k])
         /\ \A k \in KeyId : s.keyBy[k] = (IF k = id THEN uid ELSE r.keyBy[k])
         /\ s.bucket = r.bucket /\ s.by = r.by /\ s.alias = r.alias /\ s.perm = r.perm /\ s.local = r.local
         /\ s.rules = r.rules /\ s.old = r.old /\ s.sick = r.sick
  BY DEF Garages, ImportKey

LEMMA DeleteKeyIs ==
  ASSUME NEW r \in Garages, NEW id \in KeyId
  PROVE  LET s == DeleteKey(r, id) IN
         /\ \A k \in KeyId : s.key[k] = (IF k = id /\ r.key[k] = "live" THEN "tombstone" ELSE r.key[k])
         /\ \A b \in BucketId, k \in KeyId : s.perm[b][k] = (IF k = id THEN {} ELSE r.perm[b][k])
         /\ \A b \in BucketId : s.local[b] = {l \in r.local[b] : l[1] # id}
         /\ s.keyBy = r.keyBy /\ s.bucket = r.bucket /\ s.by = r.by /\ s.alias = r.alias
         /\ s.rules = r.rules /\ s.old = r.old /\ s.sick = r.sick
  BY DEF Garages, DeleteKey, Perms

LEMMA DoomedTyped == ASSUME Base PROVE Doomed(bw.obj) \in Ids
<1>1. bw.obj.id \in Ids /\ bw.obj.want \in Ids /\ remote \in Garages
  BY BucketReads, Constants DEF Base, Buckets, Ids
<1>2. Reserved(bw.obj) \in Ids
  BY <1>1, RsvTyped DEF Reserved, Garages, Ids
<1> QED BY <1>1, <1>2 DEF Doomed, Recorded

LEMMA BRemoteStep == ASSUME Base, BucketObject, BucketNext \/ BucketFault PROVE BRemote
<1>0. remote \in Garages
  BY DEF Base, Typed
<1>a. (UNCHANGED <<cluster, remote>>) => BRemote
  BY DEF BRemote
<1>1. CASE StartBucket \/ RemoveCleanupAnnotation \/ GetOrCreateBucket
  BY <1>1, <1>a, StartFlat, CleanedFlat, ResolveFlat
<1>2. CASE CleanupIncompleteUploads
  BY <1>0, <1>2, CleanupFlat DEF BRemote, Garages
<1>5. CASE CreateReservedBucket
  BY <1>0, <1>5, CreateFlat, CreateBucketIs, RsvTyped DEF BRemote
<1>6. CASE PersistBucketID \/ ClearAbandonedAlias \/ ReserveGlobalAlias \/ CompleteAliasHandoff
           \/ ClearReservationAnnotation \/ NarrowLocalAliases
  BY <1>6, <1>a DEF PersistBucketID, ClearAbandonedAlias, ReserveGlobalAlias, CompleteAliasHandoff,
     ClearReservationAnnotation, NarrowLocalAliases
<1>7. CASE RemoveAbandonedAlias
  <2>1. bw.pc = "alias" /\ UNCHANGED cluster /\ (remote' = remote \/ (remote' = Unalias(remote, bw.obj.pAlias) /\ bw.obj.pAlias \in bw.seen.alias))
    BY <1>7 DEF RemoveAbandonedAlias, B
  <2>2. bw.seen.alias \subseteq Alias
    <3>1. bw.seen \in Seens
      BY BucketReads DEF Base
    <3> QED BY <3>1 DEF Seens
  <2> QED BY <1>0, <2>1, <2>2, UnaliasIs DEF BRemote
<1>10. CASE AddGlobalAlias
  BY <1>0, <1>10 DEF AddGlobalAlias, B, BRemote, Garages
<1>11. CASE RemovePreviousAlias
  <2>1. bw.pc = "aliasDrop" /\ UNCHANGED cluster /\ (remote' = remote \/ (remote' = Unalias(remote, bw.obj.mAlias) /\ bw.obj.mAlias \in bw.seen.alias))
    BY <1>11 DEF RemovePreviousAlias, B
  <2>2. bw.seen.alias \subseteq Alias
    <3>1. bw.seen \in Seens
      BY BucketReads DEF Base
    <3> QED BY <3>1 DEF Seens
  <2> QED BY <1>0, <2>1, <2>2, UnaliasIs DEF BRemote
<1>13. CASE RemoveReservationAlias
  <2>1. bw.pc = "unreserve" /\ UNCHANGED cluster /\ (remote' = remote \/ (remote' = Unalias(remote, Reservation(bw.obj.uid))))
    BY <1>13 DEF RemoveReservationAlias, B
  <2> QED BY <1>0, <2>1, RsvTyped, UnaliasIs DEF BRemote
<1>15. CASE UpdateBucketSettings
  BY <1>0, <1>15 DEF UpdateBucketSettings, B, BRemote, Garages
<1>16. CASE ReserveKeyGrants \/ UnionKeyPermissions \/ NarrowKeyGrants \/ ReserveLocalAliases
  BY <1>16, <1>a, ReserveFlat, UnionFlat, NarrowFlat, ReserveLocalFlat
<1>18. CASE ApplyKeyPermissions
  <2>1. PICK k \in bw.tgt : bw.pc = "apply" /\ UNCHANGED cluster /\ remote' = Exact(remote, bw.id, k, bw.seen.perm[k], bw.des[k])
    BY <1>18, ApplyFlat
  <2>2. bw.id \in BucketId /\ k \in KeyId
    BY <2>1 DEF Base, Typed, BWorkers, BucketWorker, Holding, Ids
  <2> QED BY <1>0, <2>1, <2>2, ExactIs DEF BRemote
<1>21. CASE AddLocalAlias
  BY <1>0, <1>21, AddLocalFlat DEF BRemote, Garages
<1>22. CASE RemoveLocalAliases
  BY <1>0, <1>22, RemoveLocalFlat DEF BRemote, Garages
<1>24. CASE ReconcileLifecycleSafe \/ VerifyLifecycleApplied
  BY <1>0, <1>24, LifecycleFlat DEF BRemote, SetLifecycle, Garages
<1>25. CASE UpdateStatusFromGarage
  BY <1>25, <1>a, StatusFlat
<1>26. CASE BucketLookupTimeout \/ BucketDecodeError
  BY <1>26, LookupFlat DEF BRemote
<1>27. CASE FinalizeBucket
  <2>1. bw.pc = "finalize" /\ UNCHANGED cluster /\ (remote' = remote \/ (remote' = DeleteBucket(remote, Doomed(bw.obj)) /\ Doomed(bw.obj) # 0))
    BY <1>27, FinalizeFlat
  <2>2. Doomed(bw.obj) \in Ids
    BY DoomedTyped
  <2> QED BY <1>0, <2>1, <2>2, DeleteBucketIs DEF BRemote, Ids
<1>28. CASE DropBucketFinalizer
  BY <1>28, <1>a, DropFlat
<1>29. CASE BucketFault
  BY <1>29, <1>a, BucketFaultFlat
<1> QED BY <1>1, <1>2, <1>5, <1>6, <1>7, <1>10, <1>11, <1>13, <1>15, <1>16,
   <1>18, <1>21, <1>22, <1>24, <1>25, <1>26, <1>27, <1>28, <1>29 DEF BucketNext

-----------------------------------------------------------------------------
(* The same for the steps of a key's worker.                               *)

Early == {"resolve", "pin", "import", "bind", "perms", "union", "apply"}
KMoves ==
  \/ kw'.pc = "idle"
  \/ UNCHANGED <<key, kw>>
  \/ kw.pc = "idle" /\ kw'.pc \in {"finalize", "resolve"}
  \/ kw.pc \in Early /\ kw'.pc = "mark"
  \/ kw.pc = "resolve" /\ kw'.pc \in {"perms", "bind", "pin"}
  \/ kw.pc = "pin" /\ kw'.pc \in {"perms", "bind", "import"}
  \/ kw.pc = "import" /\ kw'.pc \in {"perms", "bind"}
  \/ kw.pc = "bind" /\ kw'.pc = "perms"
  \/ kw.pc = "perms" /\ kw'.pc = "union"
  \/ kw.pc = "union" /\ kw'.pc = "apply"
  \/ kw.pc = "apply" /\ kw'.pc = "apply"
  \/ kw.pc = "mark" /\ kw'.pc = "publish"
  \/ kw.pc = "publish" /\ kw'.pc = "handoff"
  \/ kw.pc = "handoff" /\ kw'.pc = "sweep"
  \/ kw.pc = "sweep" /\ kw'.pc = "status"
  \/ kw.pc \in {"finalize", "revoke"} /\ kw'.pc = "revoke"

KRemote ==
  /\ remote'.bucket = remote.bucket /\ remote'.by = remote.by /\ remote'.alias = remote.alias
  /\ remote'.rules = remote.rules /\ remote'.old = remote.old /\ remote'.sick = remote.sick
  /\ kw.pc \notin {"resolve", "import", "revoke"} => remote'.key = remote.key /\ remote'.keyBy = remote.keyBy
  /\ kw.pc \notin {"apply", "revoke"} => remote'.perm = remote.perm
  /\ kw.pc # "revoke" => remote'.local = remote.local

KKept ==
  /\ kw.pc \notin {"idle", "revoke"} => KSpec(key', key)
  /\ kw.pc \notin {"idle", "revoke", "bind", "status"} => key'.id = key.id
  /\ kw.pc \notin {"idle", "revoke", "resolve"} => key'.nonce = key.nonce
  /\ kw.pc \notin {"idle", "revoke", "pin"} => key'.pin = key.pin
  /\ kw.pc \notin {"idle", "revoke", "perms", "apply", "status"} => KClaims(key', key)
  /\ kw.pc \notin {"idle", "revoke", "handoff"} => key'.sref = key.sref
  /\ kw.pc \notin {"idle", "resolve", "pin", "import"} /\ kw'.pc # "idle" => kw'.id = kw.id
  /\ kw.pc \notin {"idle", "publish"} /\ kw'.pc # "idle" => kw'.obj = key' \/ (kw'.obj = kw.obj /\ KSame(key', key))

LEMMA KErredStops == ASSUME KErred PROVE kw'.pc \in {"idle", "mark"}
  BY DEF KErred, KEnded

LEMMA KMovesStep == ASSUME Base, KeyObject, KeyNext \/ KeyFault PROVE KMoves
<1> USE DEF KMoves, Early
<1>1. CASE StartKey
  BY <1>1, StartKeyFlat
<1>2. CASE GetTrackedKey
  BY <1>2, TrackedFlat DEF Learned
<1>3. CASE EnsureImportKeySnapshot
  BY <1>3, SnapshotFlat, KErredStops DEF KWent
<1>4. CASE PinImport
  BY <1>4, PinFlat, KErredStops DEF Learned
<1>5. CASE ImportPinnedKey
  BY <1>5, ImportFlat, KErredStops DEF Learned
<1>6. CASE CreateOrAdoptDeterministic
  BY <1>6, AdoptFlat, KErredStops DEF Learned
<1>7. CASE PersistAccessKeyID
  BY <1>7, PersistKeyFlat
<1>8. CASE ReserveBucketGrants
  BY <1>8, ReserveKeyFlat, KErredStops DEF KMoved
<1>9. CASE UnionBucketPermissions
  BY <1>9, UnionKeyFlat
<1>10. CASE ApplyBucketPermissions
  BY <1>10, ApplyKeyFlat
<1>11. CASE NarrowBucketGrants
  BY <1>11, NarrowKeyFlat, KErredStops DEF KMoved
<1>12. CASE MarkPreviousGeneratedSecret
  BY <1>12, MarkFlat DEF KWent, KEnded
<1>13. CASE PublishSecret
  BY <1>13, PublishFlat DEF KEnded
<1>14. CASE PersistSecretRef
  BY <1>14, HandoffFlat
<1>15. CASE CleanupStaleGeneratedSecrets
  BY <1>15, SweepFlat DEF KWent, KEnded
<1>16. CASE UpdateKeyStatus
  BY <1>16, KeyStatusFlat DEF KEnded
<1>17. CASE FinalizeKey
  BY <1>17, FinalizeKeyFlat DEF KEnded
<1>18. CASE RevokeAndDeleteKey
  BY <1>18, RevokeFlat
<1>19. CASE DropKeyFinalizer
  BY <1>19, DropKeyFlat DEF KEnded
<1>20. CASE KeyFault
  BY <1>20, KeyFaultFlat, KErredStops DEF KEnded
<1>21. CASE CollectKeySecrets
  BY <1>21, CollectFlat
<1> QED BY <1>1, <1>2, <1>3, <1>4, <1>5, <1>6, <1>7, <1>8, <1>9, <1>10, <1>11, <1>12, <1>13, <1>14, <1>15, <1>16, <1>17,
   <1>18, <1>19, <1>20, <1>21 DEF KeyNext

LEMMA KRemoteStep == ASSUME Base, KeyObject, SnapshotKnown, KeyNext \/ KeyFault PROVE KRemote
<1>0. remote \in Garages /\ kw.obj \in Keys
  BY KeyReads DEF Base, Typed
<1>a. remote' = remote => KRemote
  BY DEF KRemote
<1>b. kw.pc = "import" => snapshot.id \in KeyId
  BY DEF SnapshotKnown, Base, Typed, KeyIds
<1>1. CASE StartKey \/ EnsureImportKeySnapshot \/ PinImport \/ PersistAccessKeyID \/ ReserveBucketGrants
           \/ UnionBucketPermissions \/ NarrowBucketGrants \/ MarkPreviousGeneratedSecret \/ PublishSecret
  BY <1>1, <1>a, StartKeyFlat, SnapshotFlat, PinFlat, PersistKeyFlat, ReserveKeyFlat, UnionKeyFlat, NarrowKeyFlat,
     MarkFlat, PublishFlat
<1>2. CASE PersistSecretRef \/ CleanupStaleGeneratedSecrets \/ UpdateKeyStatus \/ FinalizeKey \/ DropKeyFinalizer
           \/ KeyFault \/ CollectKeySecrets
  BY <1>2, <1>a, HandoffFlat, SweepFlat, KeyStatusFlat, FinalizeKeyFlat, DropKeyFlat, KeyFaultFlat, CollectFlat
<1>3. CASE GetTrackedKey
  BY <1>0, <1>3, TrackedFlat DEF KRemote, Garages
<1>4. CASE ImportPinnedKey
  BY <1>0, <1>4, <1>a, <1>b, ImportFlat, ImportKeyIs DEF KRemote
<1>5. CASE CreateOrAdoptDeterministic
  <2>1. Derived(key.nonce) \in KeyId
    BY Constants, KeyReads DEF Base, Typed, Keys
  <2>2. CASE remote' = [remote EXCEPT !.name[Legacy] = TRUE] /\ kw.pc = "resolve"
    BY <1>0, <2>2 DEF KRemote, Garages
  <2>3. CASE remote' = ImportKey(remote, Derived(key.nonce), kw.obj.uid, kw.obj.renamed) /\ kw.pc = "resolve"
    BY <1>0, <2>1, <2>3, ImportKeyIs DEF KRemote
  <2>4. CASE remote' = [remote EXCEPT !.name[Derived(key.nonce)] = kw.obj.renamed] /\ kw.pc = "resolve"
    BY <1>0, <2>4 DEF KRemote, Garages
  <2> QED BY <1>5, <1>a, <2>2, <2>3, <2>4, AdoptFlat
<1>6. CASE ApplyBucketPermissions
  <2>1. PICK b \in kw.tgt : kw.pc = "apply" /\ remote' = Exact(remote, b, kw.id, kw.cur[b], kw.des[b])
    BY <1>6, ApplyKeyFlat
  <2>2. b \in BucketId /\ kw.id \in KeyId
    BY <2>1 DEF Base, Typed, KWorkers, KeyWorker, KHolding, KEarly, KeyIds
  <2> QED BY <1>0, <2>1, <2>2, ExactIs DEF KRemote
<1>7. CASE RevokeAndDeleteKey
  <2>1. PICK id \in kw.tgt : kw.pc = "revoke" /\ remote' = DeleteKey(remote, id)
    BY <1>7, RevokeFlat
  <2>2. id \in KeyId
    BY <2>1 DEF Base, KeyWorker
  <2> QED BY <1>0, <2>1, <2>2, DeleteKeyIs DEF KRemote
<1> QED BY <1>1, <1>2, <1>3, <1>4, <1>5, <1>6, <1>7 DEF KeyNext

LEMMA KKeptStep == ASSUME Base, KeyObject, KeyNext \/ KeyFault PROVE KKept
<1> USE DEF KSpec, KIds, KClaims, KSame
<1>a. KErred => kw'.pc = "idle" \/ (kw'.pc = "mark" /\ kw'.obj = key' /\ kw'.id = kw.id)
  BY DEF KErred, KEnded
<1>b. KSame(key', key) => key'.uid = key.uid
  OBVIOUS
<1>1. CASE StartKey
  BY <1>1, StartKeyFlat DEF KKept
<1>2. CASE GetTrackedKey
  BY <1>2, TrackedFlat DEF Learned, KKept
<1>3. CASE EnsureImportKeySnapshot
  BY <1>3, <1>a, SnapshotFlat DEF KWent, KKept
<1>4. CASE PinImport
  BY <1>4, <1>a, PinFlat DEF Learned, KKept
<1>5. CASE ImportPinnedKey
  BY <1>5, <1>a, ImportFlat DEF Learned, KKept
<1>6. CASE CreateOrAdoptDeterministic
  BY <1>6, <1>a, AdoptFlat DEF Learned, KKept
<1>7. CASE PersistAccessKeyID
  BY <1>7, PersistKeyFlat DEF KKept, KSameWork
<1>8. CASE ReserveBucketGrants
  BY <1>8, <1>a, ReserveKeyFlat DEF KMoved, KKept
<1>9. CASE UnionBucketPermissions
  BY <1>9, UnionKeyFlat DEF KKept
<1>10. CASE ApplyBucketPermissions
  BY <1>10, ApplyKeyFlat DEF KKept
<1>11. CASE NarrowBucketGrants
  BY <1>11, <1>a, NarrowKeyFlat DEF KMoved, KKept
<1>12. CASE MarkPreviousGeneratedSecret
  BY <1>12, MarkFlat DEF KWent, KEnded, KKept, KSameWork
<1>13. CASE PublishSecret
  BY <1>13, PublishFlat DEF KEnded, KKept, KSameWork
<1>14. CASE PersistSecretRef
  BY <1>14, HandoffFlat DEF KKept, KSameWork
<1>15. CASE CleanupStaleGeneratedSecrets
  BY <1>15, SweepFlat DEF KWent, KEnded, KKept, KSameWork
<1>16. CASE UpdateKeyStatus
  BY <1>16, KeyStatusFlat DEF KEnded, KKept
<1>17. CASE FinalizeKey
  BY <1>17, FinalizeKeyFlat DEF KEnded, KKept
<1>18. CASE RevokeAndDeleteKey
  BY <1>18, RevokeFlat DEF KKept
<1>19. CASE DropKeyFinalizer
  BY <1>19, DropKeyFlat DEF KEnded, KKept
<1>20. CASE KeyFault
  BY <1>20, <1>a, KeyFaultFlat DEF KEnded, KKept
<1>21. CASE CollectKeySecrets
  BY <1>21, CollectFlat DEF KKept
<1> QED BY <1>1, <1>2, <1>3, <1>4, <1>5, <1>6, <1>7, <1>8, <1>9, <1>10, <1>11, <1>12, <1>13, <1>14, <1>15, <1>16, <1>17,
   <1>18, <1>19, <1>20, <1>21 DEF KeyNext

-----------------------------------------------------------------------------
(* The aspects.                                                            *)

\* What a worker does at each point.
LEMMA BucketActs ==
  ASSUME BucketNext
  PROVE  /\ bw.pc = "idle" => StartBucket
         /\ bw.pc = "cleanup" => CleanupIncompleteUploads
         /\ bw.pc = "cleaned" => RemoveCleanupAnnotation
         /\ bw.pc = "resolve" => GetOrCreateBucket \/ BucketLookupTimeout \/ BucketDecodeError
         /\ bw.pc = "create" => CreateReservedBucket
         /\ bw.pc = "bind" => PersistBucketID
         /\ bw.pc = "alias" => RemoveAbandonedAlias \/ ReserveGlobalAlias
         /\ bw.pc = "abandoned" => ClearAbandonedAlias
         /\ bw.pc = "aliasAdd" => AddGlobalAlias
         /\ bw.pc = "aliasDrop" => RemovePreviousAlias
         /\ bw.pc = "aliasDone" => CompleteAliasHandoff
         /\ bw.pc = "unreserve" => RemoveReservationAlias
         /\ bw.pc = "unannotate" => ClearReservationAnnotation
         /\ bw.pc = "settings" => UpdateBucketSettings
         /\ bw.pc = "perms" => ReserveKeyGrants
         /\ bw.pc = "union" => UnionKeyPermissions
         /\ bw.pc = "apply" => ApplyKeyPermissions \/ NarrowKeyGrants
         /\ bw.pc = "local" => ReserveLocalAliases
         /\ bw.pc = "localAdd" => AddLocalAlias \/ RemoveLocalAliases
         /\ bw.pc = "localDone" => NarrowLocalAliases
         /\ bw.pc \in {"life", "verify"} => ReconcileLifecycleSafe \/ VerifyLifecycleApplied
         /\ bw.pc = "status" => UpdateStatusFromGarage \/ BucketLookupTimeout \/ BucketDecodeError
         /\ bw.pc = "finalize" => FinalizeBucket
         /\ bw.pc = "drop" => DropBucketFinalizer
<1>1. /\ StartBucket => bw.pc = "idle"
      /\ CleanupIncompleteUploads => bw.pc = "cleanup"
      /\ RemoveCleanupAnnotation => bw.pc = "cleaned"
      /\ GetOrCreateBucket => bw.pc = "resolve"
      /\ CreateReservedBucket => bw.pc = "create"
      /\ PersistBucketID => bw.pc = "bind"
  BY DEF StartBucket, CleanupIncompleteUploads, RemoveCleanupAnnotation, GetOrCreateBucket, CreateReservedBucket,
     PersistBucketID, B
<1>2. /\ RemoveAbandonedAlias \/ ReserveGlobalAlias => bw.pc = "alias"
      /\ ClearAbandonedAlias => bw.pc = "abandoned"
      /\ AddGlobalAlias => bw.pc = "aliasAdd"
      /\ RemovePreviousAlias => bw.pc = "aliasDrop"
      /\ CompleteAliasHandoff => bw.pc = "aliasDone"
      /\ RemoveReservationAlias => bw.pc = "unreserve"
      /\ ClearReservationAnnotation => bw.pc = "unannotate"
      /\ UpdateBucketSettings => bw.pc = "settings"
  BY DEF RemoveAbandonedAlias, ReserveGlobalAlias, ClearAbandonedAlias, AddGlobalAlias, RemovePreviousAlias,
     CompleteAliasHandoff, RemoveReservationAlias, ClearReservationAnnotation, UpdateBucketSettings, B
<1>3. /\ ReserveKeyGrants => bw.pc = "perms"
      /\ UnionKeyPermissions => bw.pc = "union"
      /\ ApplyKeyPermissions \/ NarrowKeyGrants => bw.pc = "apply"
      /\ ReserveLocalAliases => bw.pc = "local"
      /\ AddLocalAlias \/ RemoveLocalAliases => bw.pc = "localAdd"
      /\ NarrowLocalAliases => bw.pc = "localDone"
  BY DEF ReserveKeyGrants, UnionKeyPermissions, ApplyKeyPermissions, NarrowKeyGrants, ReserveLocalAliases,
     AddLocalAlias, RemoveLocalAliases, NarrowLocalAliases, B
<1>4. /\ ReconcileLifecycleSafe => bw.pc = "life"
      /\ VerifyLifecycleApplied => bw.pc = "verify"
      /\ UpdateStatusFromGarage => bw.pc = "status"
      /\ BucketLookupTimeout \/ BucketDecodeError => bw.pc \in {"resolve", "status"}
      /\ FinalizeBucket => bw.pc = "finalize"
      /\ DropBucketFinalizer => bw.pc = "drop"
  BY DEF ReconcileLifecycleSafe, VerifyLifecycleApplied, UpdateStatusFromGarage, LooksUp, BucketLookupTimeout,
     BucketDecodeError, FinalizeBucket, DropBucketFinalizer, B
<1> QED BY <1>1, <1>2, <1>3, <1>4 DEF BucketNext

LEMMA KeyActs ==
  ASSUME KeyNext
  PROVE  \/ CollectKeySecrets
         \/ /\ kw.pc = "idle" => StartKey
            /\ kw.pc = "resolve" => GetTrackedKey \/ EnsureImportKeySnapshot \/ CreateOrAdoptDeterministic
            /\ kw.pc = "pin" => PinImport
            /\ kw.pc = "import" => ImportPinnedKey
            /\ kw.pc = "bind" => PersistAccessKeyID
            /\ kw.pc = "perms" => ReserveBucketGrants
            /\ kw.pc = "union" => UnionBucketPermissions
            /\ kw.pc = "apply" => ApplyBucketPermissions \/ NarrowBucketGrants
            /\ kw.pc = "mark" => MarkPreviousGeneratedSecret
            /\ kw.pc = "publish" => PublishSecret
            /\ kw.pc = "handoff" => PersistSecretRef
            /\ kw.pc = "sweep" => CleanupStaleGeneratedSecrets
            /\ kw.pc = "status" => UpdateKeyStatus
            /\ kw.pc = "finalize" => FinalizeKey
            /\ kw.pc = "revoke" => RevokeAndDeleteKey \/ DropKeyFinalizer
<1>1. /\ StartKey => kw.pc = "idle"
      /\ GetTrackedKey \/ EnsureImportKeySnapshot \/ CreateOrAdoptDeterministic => kw.pc = "resolve"
      /\ PinImport => kw.pc = "pin"
      /\ ImportPinnedKey => kw.pc = "import"
      /\ PersistAccessKeyID => kw.pc = "bind"
      /\ ReserveBucketGrants => kw.pc = "perms"
      /\ UnionBucketPermissions => kw.pc = "union"
      /\ ApplyBucketPermissions \/ NarrowBucketGrants => kw.pc = "apply"
  BY DEF StartKey, GetTrackedKey, EnsureImportKeySnapshot, CreateOrAdoptDeterministic, PinImport, ImportPinnedKey,
     PersistAccessKeyID, ReserveBucketGrants, UnionBucketPermissions, ApplyBucketPermissions, NarrowBucketGrants, K
<1>2. /\ MarkPreviousGeneratedSecret => kw.pc = "mark"
      /\ PublishSecret => kw.pc = "publish"
      /\ PersistSecretRef => kw.pc = "handoff"
      /\ CleanupStaleGeneratedSecrets => kw.pc = "sweep"
      /\ UpdateKeyStatus => kw.pc = "status"
      /\ FinalizeKey => kw.pc = "finalize"
      /\ RevokeAndDeleteKey \/ DropKeyFinalizer => kw.pc = "revoke"
  BY DEF MarkPreviousGeneratedSecret, PublishSecret, PersistSecretRef, CleanupStaleGeneratedSecrets, UpdateKeyStatus,
     FinalizeKey, RevokeAndDeleteKey, DropKeyFinalizer, K
<1> QED BY SMTT(60), <1>1, <1>2 DEF KeyNext

LEMMA BucketThere == ASSUME BucketObject, BucketNext \/ BucketFault PROVE bucket.uid # 0
<1>1. CASE bw.pc # "idle"
  BY <1>1 DEF BucketObject
<1>2. CASE bw.pc = "idle"
  BY <1>2, BucketActs DEF StartBucket, BucketFault, B
<1> QED BY <1>1, <1>2

LEMMA KeyThere == ASSUME KeyObject, KeyNext \/ KeyFault PROVE key.uid # 0 \/ UNCHANGED <<key, kw, remote>>
<1>1. CASE kw.pc # "idle"
  BY <1>1 DEF KeyObject
<1>2. CASE kw.pc = "idle"
  BY <1>2, KeyActs DEF StartKey, CollectKeySecrets, KeyFault, K
<1> QED BY <1>1, <1>2

\* What users and the outside do to the cluster and to Garage.
LEMMA UserCluster ==
  ASSUME Base, UserNext
  PROVE  \/ cluster'.state = cluster.state
         \/ /\ focus \in {"bucket", "key", "token"} /\ UNCHANGED <<bucket, key, remote>>
            /\ \/ cluster.state = "Running" /\ cluster'.state = "deleting"
               \/ cluster.state = "deleting" /\ cluster'.state = "gone"
<1>1. ClusterTyped
  BY DEF Base, Typed, ClusterTyped
<1>2. CASE DeleteCluster
  BY <1>1, <1>2 DEF DeleteCluster, ClusterTyped
<1>3. CASE RunRepair
  BY <1>1, <1>3 DEF RunRepair, ClusterTyped
<1>4. CASE EditBucket \/ EditKey \/ CreateOrDelete \/ EditGrant \/ EditToken \/ CollectBucket \/ Outside
  BY <1>4 DEF EditBucket, EditKey, CreateOrDelete, EditGrant, EditToken, CollectBucket, Outside
<1> QED BY <1>2, <1>3, <1>4 DEF UserNext

SickOnly ==
  /\ remote'.bucket = remote.bucket /\ remote'.by = remote.by /\ remote'.alias = remote.alias /\ remote'.key = remote.key
  /\ remote'.keyBy = remote.keyBy /\ remote'.perm = remote.perm /\ remote'.local = remote.local /\ remote'.rules = remote.rules
  /\ (focus = "lookup" \/ (remote.sick = "ok" => remote'.sick = "ok"))
UserRemote ==
  \/ remote' = remote
  \/ SickOnly /\ UNCHANGED <<bucket, key>>
  \/ /\ focus = "alias" /\ remote.alias["a2"] = Foreign /\ remote' = [remote EXCEPT !.alias["a2"] = 0]
     /\ UNCHANGED <<bucket, key>>
  \/ focus = "lostKey" /\ IsKey(key.id) /\ key.nonce < MaxNonce /\ remote' = DeleteKey(remote, key.id) /\ UNCHANGED <<bucket, key>>
  \/ focus = "lostBucket" /\ IsBucket(bucket.id) /\ MayCreate /\ remote' = DeleteBucket(remote, bucket.id) /\ UNCHANGED <<bucket, key>>
LEMMA UserRemoteFlat == ASSUME Base, UserNext PROVE UserRemote
<1>0. remote \in Garages
  BY DEF Base, Typed
<1>1. CASE RunRepair
  BY <1>0, <1>1 DEF RunRepair, UserRemote, SickOnly, Garages
<1>2. CASE Outside
  <2>1. UNCHANGED <<bucket, key>>
    BY <1>2 DEF Outside
  <2>2. CASE focus = "lookup" /\ \E s \in {"ok", "hang", "decode"} \ {remote.sick} :
                                   remote' = [remote EXCEPT !.sick = s]
    BY <1>0, <2>1, <2>2 DEF UserRemote, SickOnly, Garages
  <2>3. ASSUME NEW full, remote' = [remote EXCEPT !.full = full] PROVE UserRemote
    BY <1>0, <2>1, <2>3 DEF UserRemote, SickOnly, Garages
  <2>4. \/ focus = "lookup" /\ \E s \in {"ok", "hang", "decode"} \ {remote.sick} : remote' = [remote EXCEPT !.sick = s]
        \/ focus = "alias" /\ remote.alias["a2"] = Foreign /\ remote' = [remote EXCEPT !.alias["a2"] = 0]
        \/ \E full \in SUBSET {bucket.id} \ {remote.full} : remote' = [remote EXCEPT !.full = full]
        \/ remote' = remote
        \/ focus = "lostKey" /\ IsKey(key.id) /\ key.nonce < MaxNonce /\ remote' = DeleteKey(remote, key.id)
        \/ focus = "lostBucket" /\ IsBucket(bucket.id) /\ MayCreate /\ remote' = DeleteBucket(remote, bucket.id)
    BY <1>2 DEF Outside
  <2> QED BY <2>1, <2>2, <2>3, <2>4 DEF UserRemote
<1>3. CASE EditBucket \/ EditKey \/ CreateOrDelete \/ EditGrant \/ EditToken \/ CollectBucket \/ DeleteCluster
  BY <1>3 DEF UserRemote, EditBucket, EditKey, CreateOrDelete, EditGrant, EditToken, CollectBucket, DeleteCluster
<1> QED BY <1>1, <1>2, <1>3 DEF UserNext

LEMMA AbsentNext == ASSUME Objects, Absent, Next PROVE Absent'
<1> USE DEF Objects
<1>1. CASE BucketNext \/ BucketFault
  <2>1. bucket.uid # 0 /\ UNCHANGED <<focus, key, kw>> /\ cluster'.state = cluster.state
    BY <1>1, BucketThere, BucketFrame, BRemoteStep DEF BRemote
  <2>2. focus \notin KeyOnly \cup {"token"}
    BY <2>1, NoBucketIs DEF Absent
  <2> QED BY <2>1, <2>2 DEF Absent
<1>2. CASE KeyNext \/ KeyFault
  <2>1. (key.uid # 0 \/ UNCHANGED <<key, kw>>) /\ UNCHANGED <<focus, bucket, bw, cluster>>
    BY <1>2, KeyThere, KeyFrame
  <2>2. focus \notin BucketOnly \cup {"token"} \/ UNCHANGED <<key, kw>>
    BY <2>1, NoKeyIs DEF Absent
  <2> QED BY <2>1, <2>2 DEF Absent
<1>3. CASE TokenNext \/ TokenFault
  BY <1>3, TokenFrame DEF Absent
<1>4. CASE ReconcileGrant
  BY <1>4 DEF ReconcileGrant, Absent
<1>5. CASE UserNext
  <2>1. UNCHANGED <<focus, bw, kw>>
    BY <1>5, UserFrame
  <2>2. focus \in KeyOnly \cup {"token"} => bucket' = bucket
    BY <1>5, UserBucketFlat, NoBucketIs DEF Absent, UserBucket, EditedBucket, MarkedBucket, KeyOnly
  <2>3. focus \in BucketOnly \cup {"token"} => key' = key
    BY <1>5, UserKeyFlat, NoKeyIs DEF Absent, UserKey, EditedKey, MarkedKey, BucketOnly
  <2>4. cluster'.state # "Running" => focus \in {"bucket", "key", "token"}
    BY <1>5, UserCluster DEF Absent
  <2> QED BY <2>1, <2>2, <2>3, <2>4 DEF Absent
<1> QED BY <1>1, <1>2, <1>3, <1>4, <1>5, NextCases



\* With the aspects that keep the bucket, it resolves to itself.
LEMMA SteadyResolve ==
  ASSUME Objects, Steady, focus \in SteadyFocus, bw.pc = "resolve", BucketNext \/ BucketFault
  PROVE  \/ bucket' = bucket /\ bw'.pc = "alias" /\ bw'.id = Mine /\ bw'.obj = bw.obj
         \/ bw'.pc = "idle" /\ bucket'.rsv = bucket.rsv
<1>1. bw.obj.rsv = FALSE /\ bw.obj.want = 0 /\ bw.obj.id = Mine /\ bucket.uid # 0
  BY DEF Objects, BucketObject, SameStatus, Steady
<1>2. remote.bucket[Mine] = "live" /\ Mine # 0
  BY <1>1 DEF Steady, Working, Mine
<1>3. Resolved(bw.obj) = Mine /\ Reserved(bw.obj) = 0
  BY <1>1, <1>2 DEF Resolved, Reserved, IsBucket
<1>4. CASE Ended
  BY <1>4, EndedStops DEF Ended, SameMarks
<1>5. CASE ~Ended
  <2>1. GetOrCreateBucket
    BY <1>5, BucketActs, LookupFlat, BucketFaultFlat DEF Objects
  <2> QED BY <2>1, <1>1, <1>2, <1>3, <1>5, ResolveFlat DEF FailEnds, Objects
<1> QED BY <1>4, <1>5

LEMMA SteadyStep == ASSUME Objects, Steady, Absent, BucketNext \/ BucketFault PROVE Steady'
<1> SUFFICES ASSUME focus \in SteadyFocus PROVE Steady'
  BY BucketFrame DEF Steady
<1>0. Base /\ BucketObject /\ focus' = focus /\ bucket.uid # 0
  BY BucketFrame, BucketThere DEF Objects
<1>1. Kept /\ BMoves /\ BRemote
  BY <1>0, KeptStep, BMovesStep, BRemoteStep
<1>2. bucket.id = Mine /\ bucket.want = 0 /\ ~bucket.rsv /\ (focus # "local" => bucket.uid = 1 /\ ~bucket.del)
  BY <1>0 DEF Steady
<1>a. CASE bw.pc = "idle"
  <2>1. StartBucket
    BY <1>a, BucketActs DEF BucketFault, B
  <2>2. UNCHANGED remote
    BY <2>1, <1>0, StartFlat
  <2>3. bucket' = NoBucket => bucket'.uid = 0
    BY NoBucketIs
  <2> QED BY <2>1, <2>2, <2>3, <1>0, <1>2, <1>a, StartFlat DEF Steady, SameMarks, Working, Holding
<1>b. CASE bw.pc = "drop"
  <2>1. bucket.del
    BY <1>0, <1>b DEF BucketObject
  <2>2. /\ bw'.pc = "idle" /\ remote' = remote
        /\ \/ bucket'.uid = 0 /\ focus = "local"
           \/ /\ bucket'.uid = bucket.uid /\ SameMarks(bucket', bucket) /\ bucket'.want = bucket.want
              /\ bucket'.del = bucket.del
    <3>1. CASE DropBucketFinalizer
      <4>1. bucket' = NoBucket /\ bw' = Idle(NoBucket) /\ remote' = remote
        BY <3>1, DropFlat
      <4>2. bw'.pc = "idle"
        BY <4>1, IdleFlat
      <4> QED BY <4>1, <4>2, <2>1, <1>2, NoBucketIs
    <3>2. CASE BucketFault
      BY <3>2, <1>0, BucketFaultFlat, EndedStops DEF Ended, SameObj
    <3> QED BY <3>1, <3>2, <1>b, BucketActs
  <2> QED BY <2>1, <2>2, <1>0, <1>2 DEF Steady, SameMarks, Working, Holding
<1>c. CASE bw.pc \notin {"idle", "drop"}
  <2>1. bucket'.uid = bucket.uid /\ bucket'.want = bucket.want /\ bucket'.del = bucket.del
    BY <1>1, <1>c DEF Kept, SameObj
  <2>2. bw.pc \notin {"create", "bind", "unannotate"}
    BY DEF Steady
  <2>3. bucket'.id = bucket.id
    BY <1>1, <1>c, <2>2 DEF Kept
  <2>4. bucket'.rsv = bucket.rsv
    BY <1>1, <1>c, <2>2, SteadyResolve DEF Kept
  <2>5. bw'.pc \notin {"create", "bind", "unannotate"}
    <3>1. bw.pc = "unreserve" => bw'.pc # "unannotate"
      <4> SUFFICES ASSUME bw.pc = "unreserve", bw'.pc = "unannotate" PROVE FALSE
        OBVIOUS
      <4>1. ~bw.obj.rsv
        BY <1>0, <1>2 DEF BucketObject, SameStatus
      <4>2. bw'.pc # "unannotate" \/ ~RemoveReservationAlias
        BY <4>1, <1>0, GoFlat DEF RemoveReservationAlias, Went
      <4> QED BY <4>2, <1>0, BucketActs, BucketFaultFlat, EndedStops
    <3> QED BY <3>1, <1>1, <2>2, SteadyResolve DEF BMoves
  <2>6. bw'.pc \in Holding => bw'.id = Mine
    <3>1. CASE bw.pc = "resolve"
      BY <3>1, SteadyResolve DEF Holding
    <3>2. CASE bw.pc # "resolve"
      BY <3>2, <1>1, <1>c, <2>2 DEF Steady, Kept, BMoves, Holding
    <3> QED BY <3>1, <3>2
  <2>7. remote'.bucket[Mine] # "live" => bucket'.del /\ bw'.pc \notin Working
    <3>1. CASE bw.pc # "finalize"
      BY <3>1, <1>0, <1>1, <1>c, <2>1, <2>2 DEF Steady, BRemote, BMoves, Working, Holding
    <3>2. CASE bw.pc = "finalize"
      BY <3>2, <1>0, <1>1, <2>1 DEF BucketObject, BMoves, Working, Holding
    <3> QED BY <3>1, <3>2
  <2> QED BY <2>1, <2>3, <2>4, <2>5, <2>6, <2>7, <1>0, <1>2 DEF Steady
<1> QED BY <1>a, <1>b, <1>c

LEMMA SteadyNext == ASSUME Objects, Steady, Absent, Next PROVE Steady'
<1> USE DEF Objects
<1>1. CASE BucketNext \/ BucketFault
  BY <1>1, SteadyStep
<1>2. CASE KeyNext \/ KeyFault
  <2>1. UNCHANGED <<focus, bucket, bw>> /\ remote'.bucket = remote.bucket
    BY <1>2, KeyFrame, KRemoteStep DEF KRemote
  <2> QED BY <2>1 DEF Steady
<1>3. CASE TokenNext \/ TokenFault
  BY <1>3, TokenFrame DEF Steady
<1>4. CASE ReconcileGrant
  BY <1>4 DEF ReconcileGrant, Steady
<1>5. CASE UserNext
  <2> SUFFICES ASSUME focus \in SteadyFocus PROVE Steady'
    BY <1>5, UserFrame DEF Steady
  <2>1. UNCHANGED <<focus, bw>>
    BY <1>5, UserFrame
  <2>2. cluster.state # "gone"
    BY DEF Absent, SteadyFocus
  <2>3. remote'.bucket = remote.bucket
    BY <1>5, UserRemoteFlat DEF UserRemote, SickOnly, SteadyFocus
  <2>4. \/ bucket' = bucket
        \/ EditedBucket
        \/ focus = "local" /\ MarkedBucket
        \/ focus = "local" /\ bucket' = NoBucket /\ bw'.pc = "idle"
    <3>1. ~bucket.fin => bw.pc = "idle"
      BY DEF BucketObject
    <3> QED BY <1>5, <2>1, <2>2, <3>1, UserBucketFlat DEF UserBucket, SteadyFocus, DropFocus
  <2>5. CASE bucket' = bucket
    BY <2>1, <2>3, <2>5 DEF Steady
  <2>6. CASE EditedBucket
    BY <2>1, <2>3, <2>6 DEF Steady, EditedBucket, SameMarks
  <2>7. CASE focus = "local" /\ MarkedBucket
    BY <2>1, <2>3, <2>7 DEF Steady, MarkedBucket, SameMarks
  <2>8. CASE focus = "local" /\ bucket' = NoBucket /\ bw'.pc = "idle"
    BY <2>1, <2>3, <2>8, NoBucketIs DEF Steady, Working, Holding
  <2> QED BY <2>4, <2>5, <2>6, <2>7, <2>8
<1> QED BY <1>1, <1>2, <1>3, <1>4, <1>5, NextCases

(* The rules.                                                              *)

LEMMA RulesStep == ASSUME Objects, Steady, Lifecycle, focus # "settings", BucketNext \/ BucketFault PROVE Lifecycle'
<1>0. Base /\ BucketObject /\ focus' = focus
  BY BucketFrame DEF Objects
<1>1. NoRules(bucket) /\ NoRules(bw.obj) /\ bw.pc # "verify"
  BY DEF Lifecycle
<1>2. NoRules(NoBucket)
  BY NoBucketIs DEF NoRules
<1>3. Kept /\ BMoves
  BY <1>0, KeptStep, BMovesStep
<1>4. NoRules(bucket') /\ NoRules(bw'.obj) /\ bw'.pc # "verify"
  <2>1. CASE bw.pc = "idle"
    <3>1. StartBucket
      BY <2>1, BucketActs DEF BucketFault, B
    <3> QED BY <1>1, <1>2, <1>3, <2>1, <3>1, <1>0, StartFlat DEF NoRules, SameSpec, SameClaim, BMoves
  <2>2. CASE bw'.pc = "idle" /\ bw.pc # "idle"
    <3>1. NoRules(bw'.obj)
      <4>1. bw' = Idle(NoBucket)
        BY <2>2, <1>3 DEF Kept
      <4> QED BY <4>1, <1>2, IdleFlat
    <3>2. NoRules(bucket')
      <4>1. CASE bw.pc \notin {"drop", "status"}
        BY <4>1, <2>2, <1>1, <1>3 DEF Kept, NoRules, SameSpec
      <4>2. CASE bw.pc = "drop"
        <5>1. bucket' = NoBucket \/ (SameSpec(bucket', bucket) /\ SameClaim(bucket', bucket))
          BY <4>2, <1>0, BucketActs, DropFlat, BucketFaultFlat DEF Ended
        <5> QED BY <5>1, <1>1, <1>2 DEF NoRules, SameSpec, SameClaim
      <4>3. CASE bw.pc = "status"
        <5>1. CASE BucketLookupTimeout \/ BucketDecodeError
          BY <5>1, <1>0, <1>1, LookupFlat DEF NoRules, Ended, SameSpec
        <5>2. CASE BucketFault
          BY <5>2, <1>0, <1>1, BucketFaultFlat DEF NoRules, Ended, SameSpec, SameClaim
        <5>3. CASE UpdateStatusFromGarage
          BY <5>3, <1>0, <1>1, StatusFlat DEF NoRules, FailEnds, Ended, SameSpec, SameClaim
        <5> QED BY <4>3, <5>1, <5>2, <5>3, BucketActs
      <4> QED BY <4>1, <4>2, <4>3
    <3> QED BY <3>1, <3>2, <2>2
  <2>3. CASE bw'.pc # "idle" /\ bw.pc # "idle"
    <3>1. CASE bw.pc = "life"
      <4>1. SkipLifecycle /\ bw.pc # "verify"
        BY <1>1 DEF NoRules, SkipLifecycle
      <4>2. ReconcileLifecycleSafe
        <5>1. ~BucketFault
          BY <2>3, <1>0, BucketFaultFlat, EndedStops
        <5> QED BY <3>1, <5>1, BucketActs DEF VerifyLifecycleApplied, B
      <4>3. Go("status")
        BY <4>1, <4>2 DEF ReconcileLifecycleSafe
      <4> QED BY <4>3, <1>0, <1>1, GoFlat DEF Went
    <3>2. CASE bw.pc # "life"
      <4>1. bw.pc \notin {"drop", "status"}
        BY <1>3, <2>3 DEF BMoves
      <4>2. NoRules(bucket')
        BY <4>1, <2>3, <1>1, <1>3 DEF Kept, NoRules, SameSpec
      <4>3. bw'.obj = bucket' \/ bw'.obj = bw.obj
        BY <3>2, <2>3, <1>1, <1>3 DEF Kept
      <4>4. bw'.pc # "verify"
        BY <1>1, <1>3, <3>2 DEF BMoves
      <4> QED BY <4>2, <4>3, <4>4, <1>1
    <3> QED BY <3>1, <3>2
  <2> QED BY <2>1, <2>2, <2>3
<1> QED BY <1>0, <1>4 DEF Lifecycle, NoRules, LifecycleIsHonest

LEMMA SettingsStep == ASSUME Objects, Steady, Lifecycle, focus = "settings", BucketNext \/ BucketFault PROVE Lifecycle'
<1>0. Base /\ BucketObject /\ focus' = focus /\ bucket.uid = 1 /\ ~bucket.del
  BY BucketFrame DEF Objects, Steady, SteadyFocus
<1>1. Kept /\ BMoves /\ BRemote
  BY <1>0, KeptStep, BMovesStep, BRemoteStep
<1>2. bw.pc \notin {"finalize", "drop", "create", "bind", "unannotate"} /\ bucket.id = Mine
  BY <1>0 DEF BucketObject, Steady, SteadyFocus
<1>3. remote.sick = "ok" /\ remote'.sick = "ok"
  BY <1>1, <1>0 DEF Lifecycle, BRemote
<1>4. ~(BucketLookupTimeout \/ BucketDecodeError)
  BY <1>0, <1>3, LookupFlat
<1>5. bucket.timeouts = 0 /\ bucket.decodes = 0 /\ bw.obj.timeouts = 0 /\ bw.obj.decodes = 0
  BY <1>0 DEF Lifecycle
<1>6. NoBucket.timeouts = 0 /\ NoBucket.decodes = 0
  BY NoBucketIs
<1>7. bucket'.timeouts = 0 /\ bucket'.decodes = 0
  <2>1. CASE bw.pc \notin {"idle", "resolve", "status"}
    BY <2>1, <1>1, <1>2, <1>5 DEF Kept
  <2>2. CASE bw.pc = "idle"
    <3>1. StartBucket
      BY <2>2, BucketActs DEF BucketFault, B
    <3> QED BY <3>1, <1>0, <1>5, <1>6, StartFlat DEF SameClaim
  <2>3. CASE bw.pc = "resolve"
    <3>1. GetOrCreateBucket \/ BucketFault
      BY <2>3, <1>4, BucketActs
    <3> QED BY <3>1, <1>0, <1>5, ResolveFlat, BucketFaultFlat DEF FailEnds, Wrote, SameClaim
  <2>4. CASE bw.pc = "status"
    <3>1. UpdateStatusFromGarage \/ BucketFault
      BY <2>4, <1>4, BucketActs
    <3> QED BY <3>1, <1>0, <1>5, StatusFlat, BucketFaultFlat DEF FailEnds, SameClaim
  <2> QED BY <2>1, <2>2, <2>3, <2>4
<1>8. bw'.obj.timeouts = 0 /\ bw'.obj.decodes = 0
  <2>1. CASE bw'.pc = "idle"
    <3>1. bw' = bw \/ bw' = Idle(NoBucket)
      BY <2>1, <1>1 DEF Kept
    <3>2. Idle(NoBucket).obj = NoBucket
      BY IdleFlat
    <3> QED BY <3>1, <3>2, <1>5, <1>6
  <2>2. CASE bw'.pc # "idle" /\ bw.pc = "idle"
    <3>1. StartBucket
      BY <2>2, BucketActs DEF BucketFault, B
    <3> QED BY <3>1, <2>2, <1>0, <1>5, StartFlat
  <2>3. CASE bw'.pc # "idle" /\ bw.pc \notin {"idle", "life", "verify"}
    <3>1. bw'.obj = bucket' \/ bw'.obj = bw.obj
      BY <2>3, <1>1 DEF Kept
    <3> QED BY <3>1, <1>5, <1>7
  <2>4. CASE bw'.pc # "idle" /\ bw.pc \in {"life", "verify"}
    <3>1. ReconcileLifecycleSafe \/ VerifyLifecycleApplied
      BY <2>4, <1>0, BucketActs, BucketFaultFlat, EndedStops
    <3> QED BY <3>1, <1>0, <1>5, LifecycleFlat DEF Went
  <2> QED BY <2>1, <2>2, <2>3, <2>4
<1>9. bw'.pc = "status" /\ bw'.obj.rulesSet = "true" => remote'.rules[Mine] = bw'.obj.life
  <2> SUFFICES ASSUME bw'.pc = "status", bw'.obj.rulesSet = "true" PROVE remote'.rules[Mine] = bw'.obj.life
    OBVIOUS
  <2>1. bw.pc \in {"life", "verify"}
    BY <1>1 DEF BMoves
  <2>2. ReconcileLifecycleSafe \/ VerifyLifecycleApplied
    BY <2>1, <1>0, BucketActs, BucketFaultFlat, EndedStops
  <2>3. bw.id = Mine
    BY <2>1, <1>0 DEF Steady, SteadyFocus, Holding
  <2> QED BY <2>2, <2>3, <1>0, LifecycleFlat DEF Went, SkipLifecycle, Applied, SameSpec
<1>10. LifecycleIsHonest'
  <2> SUFFICES ASSUME bucket'.phase = "Ready", bucket'.og = bucket'.ver, bucket'.rulesSet = "true"
      PROVE remote'.rules[bucket'.id] = bucket'.life
    BY DEF LifecycleIsHonest
  <2>1. CASE bw.pc = "idle"
    <3>1. StartBucket
      BY <2>1, BucketActs DEF BucketFault, B
    <3>2. /\ bucket.phase = "Ready" /\ bucket'.og = bucket.og /\ bucket'.ver = bucket.ver /\ bucket'.id = bucket.id
          /\ bucket'.rulesSet = bucket.rulesSet /\ bucket'.life = bucket.life
      BY <3>1, <1>0, StartFlat DEF SameSpec, SameMarks, SameClaim
    <3>3. remote' = remote
      BY <3>1, <1>0, StartFlat
    <3> QED BY <3>2, <3>3 DEF Lifecycle, LifecycleIsHonest
  <2>2. CASE bw.pc = "status"
    <3>1. UpdateStatusFromGarage \/ BucketFault
      BY <2>2, <1>4, BucketActs
    <3>2. remote'.rules = remote.rules
      BY <2>2, <1>1 DEF BRemote
    <3>3. CASE BucketFault
      <4>1. SameClaim(bucket', bucket) /\ Ended /\ bucket'.phase \in {bucket.phase, "Failed"}
        BY <3>3, <1>0, BucketFaultFlat
      <4> QED BY <4>1, <3>2 DEF Lifecycle, LifecycleIsHonest, Ended, SameClaim, SameObj, SameMarks, SameSpec
    <3>4. CASE UpdateStatusFromGarage
      <4>1. /\ Ended /\ bucket'.og = bw.obj.ver /\ bucket'.rulesSet = bw.obj.rulesSet
        <5>1. ~(bw.obj.timeouts > 0 \/ bw.obj.decodes > 0)
          BY <1>5
        <5> QED BY <5>1, <3>4, <1>0, StatusFlat DEF FailEnds
      <4>2. bw.obj.ver = bucket.ver
        BY <4>1 DEF Ended, SameObj
      <4>3. bw.obj.life = bucket.life
        BY <4>2, <1>0, <2>2 DEF BucketObject, SameSpec
      <4>4. remote.rules[Mine] = bw.obj.life
        BY <4>1, <2>2, <1>0 DEF Lifecycle
      <4>5. bucket'.life = bucket.life /\ bucket'.id = Mine
        BY <4>1, <1>2 DEF Ended, SameSpec, SameMarks
      <4> QED BY <4>3, <4>4, <4>5, <3>2
    <3> QED BY <3>1, <3>3, <3>4
  <2>3. CASE bw.pc \notin {"idle", "status"}
    <3>1. /\ bucket.phase = "Ready" /\ bucket.og = bucket.ver /\ bucket.rulesSet = "true"
          /\ bucket'.id = Mine /\ bucket'.life = bucket.life
      BY <2>3, <1>1, <1>2 DEF Kept, SameObj, SameSpec
    <3>2. remote.rules[Mine] = bucket.life
      BY <3>1, <1>2 DEF Lifecycle, LifecycleIsHonest
    <3>3. CASE bw.pc # "life"
      BY <3>1, <3>2, <3>3, <1>1 DEF BRemote
    <3>4. CASE bw.pc = "life"
      <4>1. bw.obj.ver = bucket.ver
        <5>1. bucket.og <= bw.obj.ver /\ bw.obj.ver <= bucket.ver /\ bw.obj.ver \in Nat /\ bucket.ver \in Nat
          BY <3>4, <1>0, BucketReads DEF BucketObject, Base, Buckets
        <5> QED BY <5>1, <3>1
      <4>2. bw.obj.life = bucket.life
        BY <4>1, <1>0, <3>4 DEF BucketObject, SameSpec
      <4>3. remote' = remote \/ remote' = SetLifecycle(remote)
        BY <3>4, <1>0, BucketActs, LifecycleFlat, BucketFaultFlat
      <4>4. bw.id = Mine
        BY <3>4, <1>0 DEF Steady, SteadyFocus, Holding
      <4>5. remote'.rules[Mine] \in {remote.rules[Mine], bw.obj.life}
        <5>1. remote \in Garages /\ Mine \in BucketId
          BY <1>0, Constants DEF Base, Typed
        <5> QED BY <5>1, <4>3, <4>4 DEF SetLifecycle, Garages
      <4> QED BY <4>2, <4>5, <3>1, <3>2
    <3> QED BY <3>3, <3>4
  <2> QED BY <2>1, <2>2, <2>3
<1> QED BY <1>0, <1>3, <1>7, <1>8, <1>9, <1>10 DEF Lifecycle

LEMMA LifecycleNext == ASSUME Objects, Steady, Absent, Lifecycle, Next PROVE Lifecycle'
<1> USE DEF Objects
<1>1. CASE BucketNext \/ BucketFault
  BY <1>1, RulesStep, SettingsStep
<1>2. CASE KeyNext \/ KeyFault
  <2>1. UNCHANGED <<focus, bucket, bw>> /\ remote'.rules = remote.rules /\ remote'.sick = remote.sick
    BY <1>2, KeyFrame, KRemoteStep DEF KRemote
  <2> QED BY <2>1 DEF Lifecycle, LifecycleIsHonest
<1>3. CASE TokenNext \/ TokenFault
  BY <1>3, TokenFrame DEF Lifecycle, LifecycleIsHonest
<1>4. CASE ReconcileGrant
  BY <1>4 DEF ReconcileGrant, Lifecycle, LifecycleIsHonest
<1>5. CASE UserNext
  <2>0. UNCHANGED <<focus, bw>>
    BY <1>5, UserFrame
  <2>1. CASE focus # "settings"
    <3>1. NoRules(bucket')
      BY <1>5, <2>1, UserBucketFlat, NoBucketIs DEF UserBucket, EditedBucket, CreatedBucket, MarkedBucket, Lifecycle,
         NoRules, SameClaim, SameSpec
    <3> QED BY <2>0, <2>1, <3>1 DEF Lifecycle, NoRules, LifecycleIsHonest
  <2>2. CASE focus = "settings"
    <3>1. bucket' = bucket \/ EditedBucket
      <4>1. cluster.state # "gone"
        BY <2>2 DEF Absent
      <4> QED BY <1>5, <2>2, <4>1, UserBucketFlat DEF UserBucket, DropFocus
    <3>2. remote'.rules = remote.rules /\ remote'.sick = "ok"
      BY <1>5, <2>2, UserRemoteFlat DEF UserRemote, SickOnly, Lifecycle
    <3>3. CASE bucket' = bucket
      BY <2>0, <2>2, <3>2, <3>3 DEF Lifecycle, LifecycleIsHonest
    <3>4. CASE EditedBucket
      <4>1. bucket'.og = bucket.og /\ bucket'.ver = bucket.ver + 1 /\ bucket'.timeouts = bucket.timeouts /\ bucket'.decodes = bucket.decodes
        BY <3>4 DEF EditedBucket, SameClaim
      <4>2. bucket.og <= bucket.ver /\ bucket.og \in Nat /\ bucket.ver \in Nat
        BY BucketReads DEF BucketObject, Base, Buckets
      <4>3. bucket'.og # bucket'.ver
        BY <4>1, <4>2
      <4> QED BY <2>0, <2>2, <3>2, <4>1, <4>3 DEF Lifecycle, LifecycleIsHonest
    <3> QED BY <3>1, <3>3, <3>4
  <2> QED BY <2>1, <2>2
<1> QED BY <1>1, <1>2, <1>3, <1>4, <1>5, NextCases

-----------------------------------------------------------------------------
(* The token and the grants.                                               *)

LEMMA TokenKnownStep == ASSUME Typed, TokenKnown, TokenNext \/ TokenFault PROVE TokenKnown'
<1>0. token \in Tokens
  BY DEF Typed
<1> USE DEF Tokens
<1>a. \A t \in Tokens : TStop(t) => /\ token'.pc = "idle"
                                    /\ token'.uid = t.uid /\ token'.del = t.del /\ token'.fin = t.fin /\ token'.digest = t.digest
                                    /\ token'.sec = t.sec /\ token'.lost = t.lost
  BY DEF TStop
<1>1. CASE StartToken
  <2>1. CASE token.del /\ token.fin /\ token' = [token EXCEPT !.pc = "finalize"]
    BY <1>0, <1>1, <2>1 DEF StartToken, TokenKnown, TokenIsPinned
  <2>2. CASE token' = [token EXCEPT !.phase = "Pending"]
    BY <1>0, <1>1, <2>2 DEF StartToken, TokenKnown, TokenIsPinned
  <2>3. CASE ~token.del /\ token.fin /\ token' = [token EXCEPT !.pc = "secret", !.read = token.ver]
    BY <1>0, <1>1, <2>3 DEF StartToken, TokenKnown, TokenIsPinned
  <2>4. CASE ~token.del /\ ~token.fin /\ token' = [token EXCEPT !.fin = TRUE]
    BY <1>0, <1>1, <2>4 DEF StartToken, TokenKnown, TokenIsPinned
  <2> QED BY <1>1, <2>1, <2>2, <2>3, <2>4 DEF StartToken
<1>2. CASE ReconcileTokenSecret
  <2>1. CASE TStop([token EXCEPT !.phase = "Failed"])
    <3>1. [token EXCEPT !.phase = "Failed"] \in Tokens
      BY <1>0 DEF Phases
    <3> QED BY <1>0, <1>2, <1>a, <2>1, <3>1 DEF ReconcileTokenSecret, TokenKnown, TokenIsPinned
  <2>2. CASE token.sec.by = token.uid /\ token' = [token EXCEPT !.pc = "status", !.new = token.sec.val]
    <3>1. /\ token'.pc = "status" /\ token'.new = token.sec.val /\ token'.sec = token.sec /\ token'.lost = token.lost
          /\ token'.uid = token.uid /\ token'.del = token.del /\ token'.fin = token.fin /\ token'.digest = token.digest
      BY <1>0, <2>2
    <3>2. token.pc = "secret" /\ token.digest \in {0, token.sec.val} \cup token.lost
      BY <1>0, <1>2, <2>2 DEF ReconcileTokenSecret, TokenKnown, TokenIsPinned
    <3> QED BY <2>2, <3>1, <3>2 DEF TokenKnown, TokenIsPinned
  <2>3. CASE token.sec.by = 0 /\ token' = [token EXCEPT !.sec = [by |-> token.uid, val |-> token.next],
                                            !.next = @ + 1, !.pc = "status", !.new = token.next]
    <3>1. /\ token'.pc = "status" /\ token'.new = token.next /\ token'.sec.by = token.uid /\ token'.sec.val = token.next
          /\ token'.lost = token.lost
          /\ token'.uid = token.uid /\ token'.del = token.del /\ token'.fin = token.fin /\ token'.digest = token.digest
      BY <1>0, <2>3
    <3>2. token.pc = "secret" /\ token.digest \in {0} \cup token.lost
      BY <1>0, <1>2, <2>3 DEF ReconcileTokenSecret, TokenKnown
    <3> QED BY <2>3, <3>1, <3>2 DEF TokenKnown, TokenIsPinned
  <2> QED BY <1>2, <2>1, <2>2, <2>3 DEF ReconcileTokenSecret
<1>3. CASE PublishTokenStatus
  <2>1. CASE TStop(token)
    BY <1>0, <1>3, <1>a, <2>1 DEF PublishTokenStatus, TokenKnown, TokenIsPinned
  <2>2. CASE TStop([token EXCEPT !.phase = "Ready", !.digest = token.new])
    <3>1. [token EXCEPT !.phase = "Ready", !.digest = token.new] \in Tokens
      BY <1>0 DEF Phases
    <3> QED BY ZenonT(60), <1>0, <1>3, <1>a, <2>2, <3>1 DEF PublishTokenStatus, TokenKnown, TokenIsPinned
  <2> QED BY <1>3, <2>1, <2>2 DEF PublishTokenStatus
<1>4. CASE FinalizeToken
  <2>1. CASE token' = [token EXCEPT !.sec = [by |-> 0, val |-> 0], !.pc = "drop"]
    BY <1>0, <1>4, <2>1 DEF FinalizeToken, TokenKnown, TokenIsPinned
  <2>2. CASE TStop(token)
    BY <1>0, <1>4, <1>a, <2>2 DEF FinalizeToken, TokenKnown, TokenIsPinned
  <2> QED BY <1>4, <2>1, <2>2 DEF FinalizeToken
<1>5. CASE DropTokenFinalizer
  BY <1>0, <1>5 DEF DropTokenFinalizer, NoToken, TokenKnown, TokenIsPinned
<1>6. CASE TokenFault
  <2>1. CASE TStop(token)
    BY <1>0, <1>a, <2>1 DEF TokenKnown, TokenIsPinned
  <2>2. CASE FailTokenCreate
    <3> DEFINE n == token.next + 1
               l == token.lost \cup {token.next}
               d == IF token.read = token.ver THEN token.next ELSE token.digest
               t == [token EXCEPT !.phase = "Failed", !.next = n, !.lost = l, !.digest = d]
    <3>1. n \in Nat /\ l \in SUBSET Nat /\ d \in Nat
      BY <1>0
    <3>2. TStop(t) /\ token.pc = "secret" /\ token.sec.by = 0
      BY <1>0, <2>2 DEF FailTokenCreate
    <3>3. d \in {token.next, token.digest} /\ token.next \in l /\ token.lost \subseteq l
      OBVIOUS
    <3> HIDE DEF n, l, d
    <3>4. t \in Tokens
      BY <1>0, <3>1 DEF Phases
    <3>5. /\ t.uid = token.uid /\ t.del = token.del /\ t.fin = token.fin /\ t.digest = d
          /\ t.sec = token.sec /\ t.lost = l
      BY <1>0
    <3> HIDE DEF t
    <3>6. /\ token'.pc = "idle" /\ token'.uid = token.uid /\ token'.del = token.del
          /\ token'.fin = token.fin /\ token'.digest = d /\ token'.sec = token.sec /\ token'.lost = l
      BY <1>a, <3>2, <3>4, <3>5
    <3> QED BY <3>2, <3>3, <3>6 DEF TokenKnown, TokenIsPinned
  <2> QED BY <1>6, <2>1, <2>2 DEF TokenFault
<1> QED BY <1>1, <1>2, <1>3, <1>4, <1>5, <1>6 DEF TokenNext

LEMMA TokenKnownNext == ASSUME Objects, TokenKnown, Next PROVE TokenKnown'
<1>0. token \in Tokens
  BY DEF Objects, Base, Typed
<1>1. CASE BucketNext \/ BucketFault
  BY <1>1, BucketFrame DEF TokenKnown, TokenIsPinned
<1>2. CASE KeyNext \/ KeyFault
  BY <1>2, KeyFrame DEF TokenKnown, TokenIsPinned
<1>3. CASE TokenNext \/ TokenFault
  BY <1>3, TokenKnownStep DEF Objects, Base
<1>4. CASE ReconcileGrant
  BY <1>4 DEF ReconcileGrant, TokenKnown, TokenIsPinned
<1>5. CASE UserNext
  <2>1. CASE EditToken
    <3>1. CASE token.uid = 0 /\ token' = [token EXCEPT !.uid = token.next]
      BY <1>0, <3>1 DEF Tokens, TokenKnown, TokenIsPinned
    <3>2. CASE token' = [token EXCEPT !.ver = @ + 1]
      BY <1>0, <3>2 DEF Tokens, TokenKnown, TokenIsPinned
    <3>3. CASE token.uid # 0 /\ token.fin /\ token' = [token EXCEPT !.del = TRUE]
      BY <1>0, <3>3 DEF Tokens, TokenKnown, TokenIsPinned
    <3>4. CASE ~token.fin /\ token' = [NoToken EXCEPT !.consumed = token.consumed, !.next = token.next]
      BY <1>0, <3>4 DEF Tokens, NoToken, TokenKnown, TokenIsPinned
    <3>5. CASE token' = [token EXCEPT !.consumed = ~@]
      BY <1>0, <3>5 DEF Tokens, TokenKnown, TokenIsPinned
    <3>6. CASE token.sec.by # 0 /\ token' = [token EXCEPT !.sec = [by |-> 0, val |-> 0], !.lost = @ \cup {token.sec.val}]
      <4>1. /\ token'.sec.by = 0 /\ token'.lost = token.lost \cup {token.sec.val}
            /\ token'.uid = token.uid /\ token'.del = token.del /\ token'.fin = token.fin
            /\ token'.digest = token.digest /\ token'.pc = token.pc /\ token'.new = token.new
        BY <1>0, <3>6 DEF Tokens
      <4> QED BY <1>0, <3>6, <4>1 DEF TokenKnown, TokenIsPinned
    <3> QED BY <2>1, <3>1, <3>2, <3>3, <3>4, <3>5, <3>6 DEF EditToken
  <2>2. CASE ~EditToken
    <3>1. token' = token
      BY <1>5, <2>2 DEF UserNext, EditBucket, EditKey, CreateOrDelete, EditGrant, DeleteCluster, CollectBucket, Outside, RunRepair
    <3> QED BY <3>1 DEF TokenKnown, TokenIsPinned
  <2> QED BY <2>1, <2>2
<1> QED BY <1>1, <1>2, <1>3, <1>4, <1>5, NextCases

\* A step of the watch: the grants that a change may concern are queued.
LEMMA WatchExact ==
  ASSUME Typed, InUseIsExact, TenantWatch
  PROVE  InUseIsExact'
<1>0. grants \in Grants
  BY DEF Typed
<1> DEFINE q == (IF <<key.uid, key.bp>> = <<key'.uid, key'.bp>> THEN {} ELSE MapToGrants(KeyTargets(key), KeyTargets(key')))
           r == (IF <<bucket.uid, bucket.kp>> = <<bucket'.uid, bucket'.kp>> THEN {}
                 ELSE MapToGrants(BucketTargets(bucket), BucketTargets(bucket')))
<1>1. grants'.to = grants.to /\ grants'.inUse = grants.inUse /\ grants'.queue = (grants.queue \cup q) \cup r
  BY <1>0 DEF TenantWatch, Grants
<1>2. UsedBy("c")' = UsedBy("c") \/ "c" \in q
  <2>1. CASE key.uid = key'.uid /\ key.bp = key'.bp
    BY <1>1, <2>1 DEF UsedBy
  <2>2. CASE ~(key.uid = key'.uid /\ key.bp = key'.bp) /\ (key.uid # 0 \/ key'.uid # 0)
    BY <2>2 DEF MapToGrants, KeyTargets
  <2>3. CASE key.uid = 0 /\ key'.uid = 0
    BY <2>3 DEF UsedBy
  <2> QED BY <2>1, <2>2, <2>3
<1>3. UsedBy("k")' = UsedBy("k") \/ "k" \in r
  <2>1. CASE bucket.uid = bucket'.uid /\ bucket.kp = bucket'.kp
    BY <1>1, <2>1 DEF UsedBy
  <2>2. CASE ~(bucket.uid = bucket'.uid /\ bucket.kp = bucket'.kp) /\ ((bucket.uid # 0 /\ bucket.kp.on) \/ (bucket'.uid # 0 /\ bucket'.kp.on))
    BY <2>2 DEF MapToGrants, BucketTargets
  <2>3. CASE ~((bucket.uid # 0 /\ bucket.kp.on) \/ (bucket'.uid # 0 /\ bucket'.kp.on))
    BY <2>3 DEF UsedBy
  <2> QED BY <2>1, <2>2, <2>3
<1> HIDE DEF q, r
<1> QED BY <1>1, <1>2, <1>3 DEF InUseIsExact

LEMMA InUseNext == ASSUME Objects, InUseIsExact, Next PROVE InUseIsExact'
<1>0. Typed /\ grants \in Grants /\ BucketObject
  BY DEF Objects, Base, Typed
<1>1. CASE TenantWatch
  BY <1>0, <1>1, WatchExact
<1>2. CASE TokenNext \/ TokenFault
  BY <1>2, TokenFrame DEF InUseIsExact, UsedBy
<1>3. CASE ReconcileGrant
  <2>1. PICK n \in grants.queue : grants' = [grants EXCEPT !.queue = @ \ {n}, !.inUse[n] = UsedBy(n)]
    BY <1>3 DEF ReconcileGrant
  <2>2. UNCHANGED <<bucket, key>>
    BY <1>3 DEF ReconcileGrant
  <2> DEFINE u == UsedBy(n)
  <2>3. /\ grants'.to = grants.to /\ grants'.queue = grants.queue \ {n} /\ grants'.inUse[n] = u
        /\ \A m \in {"c", "k"} \ {n} : grants'.inUse[m] = grants.inUse[m]
    <3>1. grants' = [grants EXCEPT !.queue = @ \ {n}, !.inUse[n] = u]
      BY <2>1
    <3> HIDE DEF u
    <3> QED BY <1>0, <3>1 DEF Grants
  <2> HIDE DEF u
  <2>4. \A m : UsedBy(m)' = UsedBy(m)
    BY <2>2, <2>3 DEF UsedBy
  <2>5. grants'.inUse[n] = UsedBy(n)'
    BY <2>3, <2>4 DEF u
  <2> QED BY <2>3, <2>4, <2>5 DEF InUseIsExact
<1>4. CASE EditGrant
  <2>1. PICK n \in {"c", "k"} : \E to : grants' = [grants EXCEPT !.to[n] = to, !.queue = @ \cup {n}]
    BY <1>4 DEF EditGrant
  <2>2. /\ grants'.queue = grants.queue \cup {n} /\ grants'.inUse = grants.inUse
        /\ \A m \in {"c", "k"} \ {n} : grants'.to[m] = grants.to[m]
    BY <1>0, <2>1 DEF Grants
  <2>3. UNCHANGED <<bucket, key>>
    BY <1>4 DEF EditGrant
  <2>4. \A m \in {"c", "k"} \ {n} : UsedBy(m)' = UsedBy(m)
    BY <2>2, <2>3 DEF UsedBy
  <2> QED BY <2>2, <2>4 DEF InUseIsExact
<1>5. CASE CollectBucket
  <2>1. bucket'.uid = bucket.uid /\ bucket'.kp = bucket.kp /\ UNCHANGED <<key, grants>>
    BY <1>0, <1>5, BucketReads DEF CollectBucket, Buckets
  <2> QED BY <2>1 DEF InUseIsExact, UsedBy
<1>6. CASE EditToken \/ DeleteCluster \/ Outside \/ RunRepair
  <2>1. UNCHANGED <<bucket, key, grants>>
    BY <1>6 DEF EditToken, DeleteCluster, Outside, RunRepair
  <2> QED BY <2>1 DEF InUseIsExact, UsedBy
<1>7. EditBucket \/ EditKey \/ CreateOrDelete => TenantWatch
  BY DEF EditBucket, EditKey, CreateOrDelete
<1> QED BY <1>1, <1>2, <1>3, <1>4, <1>5, <1>6, <1>7, BucketFrame, KeyFrame, NextCases DEF UserNext

-----------------------------------------------------------------------------
(* The start.                                                              *)

LEMMA BoundBucketIs ==
  /\ BoundBucket.uid = 1 /\ ~BoundBucket.del /\ BoundBucket.fin /\ BoundBucket.ver = 0 /\ BoundBucket.og = 0
  /\ ~BoundBucket.rsv /\ BoundBucket.want = 0 /\ BoundBucket.alias = "a1" /\ BoundBucket.kp = Undeclared
  /\ BoundBucket.la = {} /\ BoundBucket.cfg = 0 /\ BoundBucket.life = 0 /\ BoundBucket.id = Mine
  /\ BoundBucket.mAlias = "a1" /\ BoundBucket.pAlias = NoAlias /\ BoundBucket.mKeys = {} /\ BoundBucket.mLocal = {}
  /\ BoundBucket.phase = "Ready" /\ BoundBucket.rules = 0 /\ BoundBucket.rulesSet = "none"
  /\ BoundBucket.timeouts = 0 /\ BoundBucket.decodes = 0
  BY DEF BoundBucket, NewBucket, NoBucket

LEMMA BoundKeyIs ==
  /\ BoundKey.uid = 1 /\ ~BoundKey.del /\ BoundKey.fin /\ BoundKey.ver = 0 /\ BoundKey.nonce = 0 /\ ~BoundKey.renamed
  /\ BoundKey.imp = "none" /\ BoundKey.pin = 0 /\ BoundKey.bp = Undeclared /\ ~BoundKey.all
  /\ BoundKey.id = Derived(0) /\ BoundKey.mBuckets = {} /\ ~BoundKey.wide /\ BoundKey.sref = "s1"
  BY DEF BoundKey, NewKey, NoKey

LEMMA LegacyKeyIs ==
  /\ UnboundLegacyKey.uid = 1 /\ ~UnboundLegacyKey.del /\ UnboundLegacyKey.fin /\ UnboundLegacyKey.ver = 0
  /\ UnboundLegacyKey.nonce = 0 /\ UnboundLegacyKey.renamed /\ UnboundLegacyKey.imp = "none" /\ UnboundLegacyKey.pin = 0
  /\ UnboundLegacyKey.bp = Undeclared /\ ~UnboundLegacyKey.all /\ UnboundLegacyKey.id = 0
  /\ UnboundLegacyKey.mBuckets = {} /\ ~UnboundLegacyKey.wide /\ UnboundLegacyKey.sref = NoAlias
  BY DEF UnboundLegacyKey, NewKey, NoKey

\* Garage at the start.
LEMMA FirstGarage ==
  ASSUME Init
  PROVE  /\ remote \in Garages /\ remote.sick = "ok"
         /\ \A b \in BucketId : remote.bucket[b] = (IF b = Foreign \/ (b = Mine /\ HasBucket) THEN "live" ELSE "free")
         /\ \A b \in BucketId : remote.by[b] = (IF b = Mine /\ HasBucket THEN 1 ELSE 0)
         /\ \A a \in Alias : remote.alias[a] = (IF a = "a2" THEN Foreign ELSE IF a = "a1" /\ HasBucket THEN Mine ELSE 0)
         /\ \A k \in KeyId : remote.key[k] = (IF (k = Derived(0) /\ HasKey) \/ (k = Legacy /\ Upgraded) THEN "live" ELSE "free")
         /\ \A k \in KeyId : remote.keyBy[k] = (IF (k = Derived(0) /\ HasKey) \/ (k = Legacy /\ Upgraded) THEN 1 ELSE 0)
         /\ \A b \in BucketId, k \in KeyId : remote.perm[b][k] = {}
         /\ \A b \in BucketId : remote.local[b] = {} /\ remote.rules[b] = 0
<1>0. Mine \in BucketId /\ Foreign \in BucketId /\ Mine # Foreign /\ Derived(0) \in KeyId /\ Legacy \in KeyId /\ 1 \in UID /\ 0 \in UID /\ 1 # 0
  BY Constants DEF Mine, Foreign, UID
<1> DEFINE r == WithForeign(EmptyGarage)
           s == IF HasBucket THEN WithBucket(r) ELSE r
           t == IF HasKey THEN WithKey(s) ELSE s
           v == IF Upgraded THEN ImportKey(t, Legacy, 1, TRUE) ELSE t
<1>1. EmptyGarage \in Garages
  BY <1>0 DEF EmptyGarage, Garages, Ids, Perms, Locals
<1>2. r \in Garages
  BY <1>0, <1>1 DEF WithForeign, Garages, Ids, Alias
<1>3. /\ r.sick = "ok"
      /\ \A b \in BucketId : r.bucket[b] = (IF b = Foreign THEN "live" ELSE "free") /\ r.by[b] = 0 /\ r.local[b] = {} /\ r.rules[b] = 0
      /\ \A a \in Alias : r.alias[a] = (IF a = "a2" THEN Foreign ELSE 0)
      /\ \A k \in KeyId : r.key[k] = "free" /\ r.keyBy[k] = 0
      /\ \A b \in BucketId, k \in KeyId : r.perm[b][k] = {}
  BY <1>0 DEF WithForeign, EmptyGarage, Alias
<1> HIDE DEF r
<1>4. /\ s \in Garages /\ s.sick = "ok"
      /\ \A b \in BucketId : s.bucket[b] = (IF b = Mine /\ HasBucket THEN "live" ELSE r.bucket[b])
      /\ \A b \in BucketId : s.by[b] = (IF b = Mine /\ HasBucket THEN 1 ELSE r.by[b])
      /\ \A a \in Alias : s.alias[a] = (IF a = "a1" /\ HasBucket THEN Mine ELSE r.alias[a])
      /\ s.key = r.key /\ s.keyBy = r.keyBy /\ s.perm = r.perm /\ s.local = r.local /\ s.rules = r.rules
  <2>1. CASE HasBucket
    <3>1. s = CreateBucket(r, Mine, "a1", 1)
      BY <2>1 DEF WithBucket, CreateBucket
    <3>2. "a1" \in Alias
      BY DEF Alias
    <3> HIDE DEF s
    <3> QED BY <1>0, <1>2, <1>3, <2>1, <3>1, <3>2, CreateBucketTyped, CreateBucketIs
  <2>2. CASE ~HasBucket
    BY <1>2, <1>3, <2>2
  <2> QED BY <2>1, <2>2
<1> HIDE DEF s
<1>5. /\ t \in Garages
      /\ \A k \in KeyId : t.key[k] = (IF k = Derived(0) /\ HasKey THEN "live" ELSE s.key[k])
      /\ \A k \in KeyId : t.keyBy[k] = (IF k = Derived(0) /\ HasKey THEN 1 ELSE s.keyBy[k])
      /\ t.bucket = s.bucket /\ t.by = s.by /\ t.alias = s.alias /\ t.perm = s.perm /\ t.local = s.local
      /\ t.rules = s.rules /\ t.sick = s.sick
  <2>1. CASE HasKey
    <3>1. PICK n \in BOOLEAN : t = ImportKey(s, Derived(0), 1, n)
      BY <2>1 DEF WithKey
    <3> HIDE DEF t
    <3>2. t \in Garages
      BY <1>0, <1>4, <3>1, ImportKeyTyped
    <3> QED BY <1>0, <1>4, <2>1, <3>1, <3>2, ImportKeyIs
  <2>2. CASE ~HasKey
    BY <1>4, <2>2
  <2> QED BY <2>1, <2>2
<1> HIDE DEF t
<1>6. /\ v \in Garages
      /\ \A k \in KeyId : v.key[k] = (IF k = Legacy /\ Upgraded THEN "live" ELSE t.key[k])
      /\ \A k \in KeyId : v.keyBy[k] = (IF k = Legacy /\ Upgraded THEN 1 ELSE t.keyBy[k])
      /\ v.bucket = t.bucket /\ v.by = t.by /\ v.alias = t.alias /\ v.perm = t.perm /\ v.local = t.local
      /\ v.rules = t.rules /\ v.sick = t.sick
  <2>1. CASE Upgraded
    <3>1. PICK n \in BOOLEAN : v = ImportKey(t, Legacy, 1, n)
      BY <2>1
    <3> HIDE DEF v
    <3>2. v \in Garages
      BY <1>0, <1>5, <3>1, ImportKeyTyped
    <3> QED BY <1>0, <1>5, <2>1, <3>1, <3>2, ImportKeyIs
  <2>2. CASE ~Upgraded
    BY <1>5, <2>2
  <2> QED BY <2>1, <2>2
<1> HIDE DEF v
<1>7. /\ remote \in Garages
      /\ \A k \in KeyId : remote.key[k] = v.key[k] /\ remote.keyBy[k] = v.keyBy[k]
      /\ remote.bucket = v.bucket /\ remote.by = v.by /\ remote.alias = v.alias /\ remote.perm = v.perm
      /\ remote.local = v.local /\ remote.rules = v.rules /\ remote.sick = v.sick
  <2>1. remote = v \/ (focus = "settings" /\ (remote = [t EXCEPT !.old = TRUE] \/ remote = [t EXCEPT !.uploads = TRUE]))
    BY DEF Init, r, s, t, v
  <2>2. focus = "settings" => ~Upgraded
    BY DEF Upgraded
  <2>3. CASE remote = v
    BY <1>6, <2>3
  <2>4. CASE focus = "settings" /\ remote = [t EXCEPT !.old = TRUE]
    BY <1>5, <1>6, <2>2, <2>4 DEF Garages
  <2>5. CASE focus = "settings" /\ remote = [t EXCEPT !.uploads = TRUE]
    BY <1>5, <1>6, <2>2, <2>5 DEF Garages
  <2> QED BY <2>1, <2>3, <2>4, <2>5
<1>8. \A k \in KeyId : /\ remote.key[k] = (IF (k = Derived(0) /\ HasKey) \/ (k = Legacy /\ Upgraded) THEN "live" ELSE "free")
                       /\ remote.keyBy[k] = (IF (k = Derived(0) /\ HasKey) \/ (k = Legacy /\ Upgraded) THEN 1 ELSE 0)
  BY <1>3, <1>4, <1>5, <1>6, <1>7
<1>9. remote.sick = "ok" /\ remote.bucket = s.bucket /\ remote.by = s.by /\ remote.alias = s.alias /\ remote.perm = r.perm
      /\ remote.local = r.local /\ remote.rules = r.rules
  BY <1>4, <1>5, <1>6, <1>7
<1>10. \A a \in Alias : remote.alias[a] = (IF a = "a2" THEN Foreign ELSE IF a = "a1" /\ HasBucket THEN Mine ELSE 0)
  BY <1>3, <1>4, <1>9
<1>11. \A b \in BucketId : /\ remote.bucket[b] = (IF b = Foreign \/ (b = Mine /\ HasBucket) THEN "live" ELSE "free")
                           /\ remote.by[b] = (IF b = Mine /\ HasBucket THEN 1 ELSE 0)
  BY <1>3, <1>4, <1>9
<1> QED BY <1>3, <1>7, <1>8, <1>9, <1>10, <1>11

LEMMA FirstTyped == ASSUME Init PROVE Base
<1>0. NoBucket \in Buckets /\ NoKey \in Keys /\ 1 \in UID /\ 0 \in UID
  BY Constants, NoObjectsTyped DEF UID
<1>1. BoundBucket \in Buckets
  <2>1. Mine \in Ids /\ "a1" \in Alias
    BY Constants DEF Ids, Alias
  <2> DEFINE n == NewBucket(1, 0)
  <2>2. n \in Buckets
    BY <1>0 DEF NewBucket, Buckets
  <2> HIDE DEF n
  <2>3. [n EXCEPT !.fin = TRUE] \in Buckets
    BY <2>2 DEF Buckets
  <2> DEFINE m == [n EXCEPT !.fin = TRUE]
  <2>4. [m EXCEPT !.id = Mine, !.mAlias = "a1", !.phase = "Ready"] \in Buckets
    <3>1. m \in Buckets
      BY <2>3
    <3> HIDE DEF m
    <3> QED BY <3>1, <2>1 DEF Buckets, Phases
  <2>5. BoundBucket = [m EXCEPT !.id = Mine, !.mAlias = "a1", !.phase = "Ready"]
    BY <2>2 DEF BoundBucket, n, m, Buckets
  <2> QED BY <2>4, <2>5
<1>2. BoundKey \in Keys /\ UnboundLegacyKey \in Keys
  <2>1. Derived(0) \in KeyIds /\ "s1" \in SecretName
    BY Constants DEF KeyIds, SecretName
  <2>2. \A r \in BOOLEAN : NewKey(1, "none", r) \in Keys
    BY <1>0 DEF NewKey, Keys
  <2>3. \A k \in Keys : [k EXCEPT !.fin = TRUE] \in Keys
    BY DEF Keys
  <2>4. \A k \in Keys : [k EXCEPT !.id = Derived(0), !.sref = "s1", !.phase = "Ready"] \in Keys
    BY <2>1 DEF Keys, Phases
  <2>5. \A k \in Keys : [k EXCEPT !.fin = TRUE, !.id = Derived(0), !.sref = "s1", !.phase = "Ready"]
                        = [[k EXCEPT !.fin = TRUE] EXCEPT !.id = Derived(0), !.sref = "s1", !.phase = "Ready"]
    BY DEF Keys
  <2> DEFINE n == NewKey(1, "none", FALSE)
             m == NewKey(1, "none", TRUE)
  <2>6. n \in Keys /\ m \in Keys
    BY <2>2
  <2>7. BoundKey = [n EXCEPT !.fin = TRUE, !.id = Derived(0), !.sref = "s1", !.phase = "Ready"]
        /\ UnboundLegacyKey = [m EXCEPT !.fin = TRUE]
    BY DEF BoundKey, UnboundLegacyKey
  <2> HIDE DEF n, m
  <2>8. UnboundLegacyKey \in Keys
    BY <2>3, <2>6, <2>7
  <2>9. BoundKey \in Keys
    BY <2>3, <2>4, <2>5, <2>6, <2>7
  <2> QED BY <2>8, <2>9
<1>3. bucket \in Buckets /\ bucket.ver = 0 /\ key \in Keys /\ key.ver = 0
  BY <1>0, <1>1, <1>2, BoundBucketIs, BoundKeyIs, LegacyKeyIs, NoBucketIs, NoKeyIs DEF Init
<1>4. secrets \in Secrets /\ snapshot \in [by : UID, id : KeyIds] /\ source \in Material
  <2>1. \A f \in BOOLEAN : \A u \in {0, 1} : [by |-> u, label |-> 0, full |-> f] \in [by : UID, label : UID, full : BOOLEAN]
    BY <1>0
  <2> QED BY <1>0, <2>1 DEF Init, NoSecret, Secrets, KeyIds
<1>5. grants \in Grants
  BY DEF Init, Grants
<1>6. bw \in BWorkers /\ bw.pc = "idle" /\ kw \in KWorkers /\ kw.pc = "idle"
  <2>1. bw = Idle(NoBucket) /\ kw = KeyIdle(NoKey)
    BY DEF Init
  <2>2. bw.pc = "idle" /\ kw.pc = "idle"
    BY <2>1 DEF Idle, KeyIdle
  <2> QED BY <1>0, <2>1, <2>2, IdleTyped, KeyIdleTyped
<1>7. token \in Tokens
  BY DEF Init, NoToken, Tokens, Phases
<1>8. edits \in 0..MaxEdits /\ faults \in 0..MaxFaults /\ edits = 0
  BY Constants DEF Init
<1>9. remote \in Garages /\ focus \in Focus
  BY FirstGarage DEF Init
<1>10. cluster \in [state : {"Running", "deleting", "gone"}, repair : {"none", "Blocks", "Tables"}]
  BY DEF Init
<1> QED BY <1>3, <1>4, <1>5, <1>6, <1>7, <1>8, <1>9, <1>10
        DEF Base, Typed, BucketWorker, KeyWorker, Holding, Working, KHolding, KEarly

LEMMA FirstWorkers == ASSUME Init PROVE /\ bw.pc = "idle" /\ bw.obj = NoBucket /\ kw.pc = "idle" /\ kw.obj = NoKey
                                        /\ cluster.state = "Running" /\ token = NoToken /\ snapshot.by = 0
<1>1. bw = Idle(NoBucket) /\ kw = KeyIdle(NoKey)
  BY DEF Init
<1>2. bw.pc = "idle" /\ bw.obj = NoBucket
  BY <1>1, IdleFlat
<1>3. kw.pc = "idle" /\ kw.obj = NoKey
  BY <1>1, KeyIdleFlat
<1>4. cluster.state = "Running" /\ token = NoToken /\ snapshot.by = 0
  BY DEF Init
<1> QED BY <1>2, <1>3, <1>4

\* The objects at the start.
LEMMA FirstFields ==
  ASSUME Init
  PROVE  /\ IF HasBucket THEN bucket = BoundBucket ELSE bucket = NoBucket
         /\ IF HasKey THEN key = BoundKey ELSE IF Upgraded THEN key = UnboundLegacyKey ELSE key = NoKey
  BY DEF Init

LEMMA FirstObjects == ASSUME Init PROVE Objects
<1>1. BucketObject
  <2>1. bucket.og = 0 /\ bucket.ver = 0 /\ (~bucket.fin => bucket.id = 0 /\ ~bucket.rsv) /\ (bucket.uid = 0 => bucket = NoBucket)
    <3>1. CASE HasBucket
      <4>1. bucket = BoundBucket
        BY <3>1, FirstFields
      <4>2. bucket.og = 0 /\ bucket.ver = 0 /\ bucket.fin /\ bucket.uid = 1
        BY <4>1, BoundBucketIs
      <4> QED BY <4>2
    <3>2. CASE ~HasBucket
      <4>1. bucket = NoBucket
        BY <3>2, FirstFields
      <4>2. bucket.og = 0 /\ bucket.ver = 0 /\ bucket.id = 0 /\ ~bucket.rsv
        BY <4>1, NoBucketIs
      <4> QED BY <4>1, <4>2
    <3> QED BY <3>1, <3>2
  <2>2. bucket.og <= bucket.ver
    BY <2>1
  <2>3. bw.pc = "idle" /\ bw.obj = NoBucket
    BY FirstWorkers
  <2> HIDE DEF NoBucket
  <2> QED BY <2>1, <2>2, <2>3 DEF BucketObject
<1>2. KeyObject
  BY FirstWorkers, FirstFields, BoundKeyIs, LegacyKeyIs, NoKeyIs DEF KeyObject
<1>3. SnapshotKnown
  BY FirstWorkers DEF SnapshotKnown
<1> QED BY <1>1, <1>2, <1>3, FirstTyped DEF Objects

LEMMA FirstAspects == ASSUME Init PROVE Absent /\ Steady /\ Lifecycle
<1>1. Absent
  BY FirstWorkers DEF Init, Absent, HasBucket, HasKey, Upgraded, KeyOnly, BucketOnly
<1>2. Steady
  <2>1. focus \in SteadyFocus => HasBucket /\ bucket = BoundBucket
    BY DEF Init, HasBucket, SteadyFocus
  <2>2. HasBucket => remote.bucket[Mine] = "live"
    BY FirstGarage, Constants
  <2> QED BY <2>1, <2>2, FirstWorkers, BoundBucketIs DEF Steady, Working, Holding
<1>3. Lifecycle
  <2>1. bucket.rules = 0 /\ bucket.life = 0 /\ bucket.rulesSet = "none" /\ bucket.timeouts = 0 /\ bucket.decodes = 0
    BY BoundBucketIs, NoBucketIs DEF Init
  <2>2. bw.obj = NoBucket /\ bw.pc = "idle" /\ remote.sick = "ok"
    BY FirstWorkers, FirstGarage
  <2> QED BY <2>1, <2>2, NoBucketIs DEF Lifecycle, NoRules, LifecycleIsHonest
<1> QED BY <1>1, <1>2, <1>3

LEMMA FirstToken == ASSUME Init PROVE TokenKnown
<1>1. token = NoToken
  BY FirstWorkers
<1> QED BY <1>1 DEF TokenKnown, TokenIsPinned, NoToken

LEMMA FirstUses == ASSUME Init PROVE InUseIsExact
<1>1. /\ grants.to["c"] = {} /\ grants.to["k"] = {"GarageKey"} /\ grants.queue = {}
      /\ grants.inUse["c"] = (HasKey \/ Upgraded) /\ grants.inUse["k"] = FALSE
  BY DEF Init
<1>2. ~bucket.kp.on
  <2>1. bucket.kp = Undeclared
    BY FirstFields, BoundBucketIs, NoBucketIs
  <2> QED BY <2>1 DEF Undeclared
<1>3. key.uid # 0 <=> HasKey \/ Upgraded
  BY BoundKeyIs, LegacyKeyIs, NoKeyIs DEF Init
<1>4. UsedBy("c") = (HasKey \/ Upgraded) /\ UsedBy("k") = FALSE
  BY <1>1, <1>2, <1>3 DEF UsedBy, GrantPermits
<1> QED BY <1>1, <1>4 DEF InUseIsExact

\* What a status claims, with what it rests on.
HonestInvariant == Objects /\ Absent /\ Steady /\ Lifecycle /\ TokenKnown /\ InUseIsExact

LEMMA HonestNext == ASSUME HonestInvariant, [Next]_tenantVars PROVE HonestInvariant'
<1>1. CASE Next
  BY <1>1, ObjectsNext, AbsentNext, SteadyNext, LifecycleNext, TokenKnownNext, InUseNext DEF HonestInvariant
<1>2. CASE UNCHANGED tenantVars
  BY <1>2 DEF tenantVars, HonestInvariant, Objects, Base, Typed, BucketWorker, KeyWorker, BucketObject, KeyObject, SnapshotKnown,
     Absent, Steady, Lifecycle, LifecycleIsHonest, TokenKnown, TokenIsPinned, InUseIsExact, UsedBy
<1> QED BY <1>1, <1>2

(* Every variable keeps its type, whatever the controllers, the users and  *)
(* the faults do (the specs and statuses of api/v1beta1 and what the       *)
(* workers hold between two calls).                                        *)
THEOREM TenantTypes == Spec => []TypeOK
<1>1. Init => HonestInvariant
  BY FirstObjects, FirstAspects, FirstToken, FirstUses DEF HonestInvariant
<1>2. HonestInvariant /\ [Next]_tenantVars => HonestInvariant'
  BY HonestNext
<1>3. HonestInvariant => TypeOK
  <2> SUFFICES ASSUME HonestInvariant PROVE TypeOK
    OBVIOUS
  <2>1. Typed
    BY DEF HonestInvariant, Objects, Base
  <2> QED BY <2>1 DEF Typed, TypeOK, Buckets, Keys, Secrets, Grants, Garages, Perms, Ids, KeyIds, Locals, Phases
<1> QED BY <1>1, <1>2, <1>3, PTL DEF Spec

(* What a reconcile read stays true of the stored object: nobody but its   *)
(* worker writes its status, its finalizer and its markers, and its spec   *)
(* changes only with its generation; an import holds its own snapshot      *)
(* while it pins and imports (Reconcile of GarageBucket and GarageKey,     *)
(* ensureImportKeySnapshot).                                               *)
CopiesAreTrue == BucketObject /\ KeyObject /\ SnapshotKnown
THEOREM WorkersKnowTheirObjects == Spec => []CopiesAreTrue
<1>1. Init => HonestInvariant
  BY FirstObjects, FirstAspects, FirstToken, FirstUses DEF HonestInvariant
<1>2. HonestInvariant /\ [Next]_tenantVars => HonestInvariant'
  BY HonestNext
<1>3. HonestInvariant => CopiesAreTrue
  BY DEF HonestInvariant, Objects, CopiesAreTrue
<1> QED BY <1>1, <1>2, <1>3, PTL DEF Spec

(* What a status claims is so, for every set of aspects and every bound:   *)
(* rules that are reported as applied are those of the spec, the users of  *)
(* a grant are exact once its queue is drained, and a pinned digest is     *)
(* that of the bearer (verifyLifecycleApplied, findUsers, reconcileSecret).*)
THEOREM HonestStatus == Spec => []StatusIsHonest
<1>1. Init => HonestInvariant
  BY FirstObjects, FirstAspects, FirstToken, FirstUses DEF HonestInvariant
<1>2. HonestInvariant /\ [Next]_tenantVars => HonestInvariant'
  BY HonestNext
<1>3. HonestInvariant => StatusIsHonest
  BY DEF HonestInvariant, Lifecycle, TokenKnown, StatusIsHonest
<1> QED BY <1>1, <1>2, <1>3, PTL DEF Spec
=============================================================================
