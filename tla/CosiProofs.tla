----------------------------- MODULE CosiProofs -----------------------------
(***************************************************************************)
(* Theorems about the COSI driver that hold for every scene and every      *)
(* bound on incarnations, faults and keys.                                 *)
(*                                                                         *)
(* IndInv carries those about the Bucket controller.  Its parts are the    *)
(* types, what the objects say of themselves, what the reconcile under way *)
(* knows of its Bucket and of the shadow it holds, and which buckets and   *)
(* aliases of Garage the shadow stands for.  First come the steps of the   *)
(* accesses and of the environment, then one lemma for each step of the    *)
(* two controllers.                                                        *)
(*                                                                         *)
(* AccessInv carries those about the BucketAccess controller, and with     *)
(* those about Buckets the composition's.  Its parts are the types, what a *)
(* shadow key says of itself, which accesses and Secrets a key is known    *)
(* to, what the reconcile under way knows of its access and of the shadow  *)
(* it holds, and what is left of the key that two accesses of an earlier   *)
(* release share.                                                          *)
(***************************************************************************)
EXTENDS Cosi, TLAPS, FiniteSetTheorems, WellFoundedInduction

Ensuring ==
  {"reserve", "resolve", "authorize", "create", "bind", "bindMeta", "settings", "alias", "unreserve",
   "clear", "status", "claim", "stale", "staleDelete", "reject", "staleStatus"}
Releasing == {"cancel", "forget", "forgetDelete", "delete", "deleteShadow", "dropShadow", "release"}
\* Where the reconcile holds a shadow it has read.
Holding == Ensuring \ {"reserve", "claim"}
\* Where it holds a bucket.
Binding == {"bind", "bindMeta", "settings", "alias", "unreserve", "clear", "status"}

IDs == {0} \cup BucketId
Parents ==
  [uid : {0, 1}, del : BOOLEAN, fin : BOOLEAN, policy : {"Delete", "Retain"}, id : IDs,
   ready : BOOLEAN, ok : BOOLEAN, ref : BOOLEAN]
Shadows ==
  [uid : ShadowUID, del : BOOLEAN, fin : BOOLEAN, state : {"Pending", "Bound"}, auth : BOOLEAN,
   ann : IDs, id : IDs, retain : BOOLEAN, owned : BOOLEAN, gc : BOOLEAN]
Garages ==
  [bucket : [BucketId -> {"free", "live", "deleted"}], alias : [Alias -> IDs],
   conf : [BucketId -> BOOLEAN], full : BOOLEAN, uids : 0..MaxUID]
Workers ==
  [pc : {"idle"} \cup Ensuring \cup Releasing, sh : Shadows, id : IDs, know : IDs, del : BOOLEAN]
Claims == [bound : BOOLEAN, ready : BOOLEAN]

\* The types of the variables.
Typed ==
  /\ scene \in Scenes /\ cluster \in {"Running", "NotReady", "gone"}
  /\ parent \in Parents /\ claim \in Claims /\ shadow \in Shadows /\ garage \in Garages /\ bw \in Workers
  /\ faults \in 0..MaxFaults[scene]

\* A shadow that is bound says so in annotation, state and status alike.
ShadowForm ==
  /\ shadow.uid = 0 => shadow = NoShadow
  /\ shadow.ann # 0 => shadow.id = shadow.ann
  /\ shadow.ann # 0 <=> shadow.state = "Bound"
  /\ shadow.owned => shadow.state = "Bound"
  /\ shadow.id # Foreign
  /\ shadow.gc => shadow.del
  /\ shadow.uid # 0 /\ parent.uid # 0 => parent.fin
  /\ parent.uid = 0 /\ shadow.uid = 1 => shadow.del
  /\ shadow.retain => parent.uid # 0 /\ parent.del /\ parent.policy = "Retain"

\* A Bucket that has an ID cannot go away unnoticed.
ParentForm ==
  /\ parent.uid = 0 => parent.id = 0 /\ ~parent.ready /\ ~parent.fin /\ ~parent.del
  /\ parent.ready => parent.id # 0
  /\ parent.id # 0 => parent.fin
  /\ parent.id # Foreign
  /\ claim.ready => claim.bound

\* What a reconcile knows of its Bucket: why it came to where it is.
ParentKnown ==
  /\ bw.pc \in Ensuring => parent.uid # 0 /\ parent.fin /\ ~shadow.retain
  /\ bw.pc \in Releasing => parent.uid # 0 /\ parent.del /\ bw.know = parent.id
  /\ bw.pc \in {"forget", "forgetDelete"} => parent.policy = "Retain"
  /\ bw.pc = "forgetDelete" => shadow.uid = 0 \/ shadow.retain
  /\ bw.pc \in {"cancel", "delete", "deleteShadow", "dropShadow", "release"} => parent.policy = "Delete"
  /\ bw.pc = "cancel" => parent.id = 0
  /\ bw.pc \in {"delete", "deleteShadow", "dropShadow", "release"} => parent.id # 0
  /\ bw.pc \in {"deleteShadow", "dropShadow", "release"} => garage.bucket[bw.know] # "live"
  /\ bw.pc = "dropShadow" => bw.sh.uid # 0 /\ shadow.uid \in {0, bw.sh.uid}
  /\ bw.pc = "release" /\ shadow.uid = 1 => shadow.del

\* The identities of the shadow a reconcile holds are those of the shadow
\* that is there, and one that has no bucket yet is not being deleted.
ShadowKnown ==
  /\ bw.pc \in Holding =>
       /\ bw.sh.uid # 0 /\ shadow.uid \in {0, bw.sh.uid}
       /\ bw.sh.ann # 0 <=> bw.sh.state = "Bound"
       /\ bw.sh.id # Foreign /\ ~bw.sh.retain
       /\ bw.sh.ann # 0 => bw.sh.id = bw.sh.ann
       /\ shadow.uid # 0 => shadow.ann = bw.sh.ann /\ shadow.id = bw.sh.id /\ shadow.auth = bw.sh.auth
       /\ bw.sh.ann = 0 => shadow.uid # 0 /\ ~shadow.del
  /\ bw.pc \in {"resolve", "authorize", "create"} /\ shadow.uid # 0 => shadow.fin

\* What the reconcile found out about the identities of the shadow it holds.
PhaseKnown ==
  /\ bw.pc \in {"authorize", "reject"} => bw.sh.ann = 0 /\ bw.sh.id = 0 /\ ~bw.sh.auth
  /\ bw.pc = "create" => bw.sh.ann = 0 /\ bw.sh.id = 0 /\ bw.sh.auth
  /\ bw.pc = "stale" => bw.sh.ann # 0 /\ garage.bucket[bw.sh.ann] # "live"
  /\ bw.pc = "staleStatus" => bw.sh.ann = 0 /\ bw.sh.id # 0 /\ garage.bucket[bw.sh.id] # "live"
  /\ bw.pc = "staleDelete" /\ bw.sh.ann # 0 => garage.bucket[bw.sh.ann] # "live"
  /\ bw.pc = "staleDelete" /\ bw.sh.ann = 0 => bw.sh.id = 0 /\ ~bw.sh.auth

\* What it found out about the bucket it holds.
BucketKnown ==
  /\ bw.pc \in Binding => bw.id \notin {0, Foreign} /\ garage.bucket[bw.id] # "free"
  /\ bw.pc = "bind" => bw.sh.id \in {0, bw.id} /\ (bw.sh.id = 0 => bw.sh.auth)
  /\ bw.pc = "bindMeta" => bw.sh.id = bw.id
  /\ bw.pc \in {"settings", "alias", "unreserve", "clear", "status"} => bw.sh.id = bw.id /\ bw.sh.ann = bw.id
  /\ bw.pc \in {"bind", "bindMeta", "settings", "alias", "unreserve"} => garage.alias[bw.sh.uid] \in {0, bw.id}
  /\ bw.pc \in {"clear", "status"} => garage.alias[bw.sh.uid] = 0
  /\ bw.pc \in {"alias", "unreserve", "clear", "status"} /\ garage.bucket[bw.id] = "live" => garage.conf[bw.id]
  /\ bw.pc \in {"unreserve", "clear", "status"} /\ garage.bucket[bw.id] = "live" => garage.alias[Pub] = bw.id

\* A retained Bucket is given up for good.
Over ==
  /\ parent.policy = "Retain" /\ (parent.uid = 0 \/ parent.del) /\ bw.pc \notin Ensuring
  /\ shadow.uid = 0 \/ shadow.retain

\* The shadow's finalization would resolve b and nothing else.
Resolves(b) ==
  /\ shadow.uid # 0 /\ ~shadow.retain
  /\ shadow.id \in {0, b}
  /\ shadow.auth => garage.alias[shadow.uid] \in {0, b}
  /\ shadow.id = b \/ (shadow.auth /\ garage.alias[shadow.uid] = b)

Tracking ==
  /\ \A b \in Provided : Over \/ Resolves(b)
  /\ \A b, c \in Provided : b = c

\* A private alias belongs to the shadow whose UID it carries.
Aliases ==
  \A u \in 1..MaxUID : garage.alias[u] # 0 =>
    /\ garage.alias[u] \in Provided
    /\ Over \/ (u = shadow.uid /\ shadow.auth)

\* A shadow without its finalizer, or whose Bucket was released, stands for
\* no bucket.
Guarded == shadow.uid # 0 /\ (~shadow.fin \/ (parent.uid = 0 /\ shadow.uid = 1)) => Provided = {}

\* UIDs are counted, except the one of a reservation that was given up.
Counted ==
  /\ shadow.uid # 0 =>
       \/ shadow.uid = garage.uids
       \/ /\ shadow.uid = garage.uids + 1
          /\ shadow.del /\ shadow.ann = 0 /\ ~shadow.auth /\ (shadow.id = 0 \/ shadow.retain)
  /\ parent.id # 0 => garage.uids # 0 /\ (shadow.uid = 1 => shadow.ann = parent.id)

\* The ID a Bucket publishes is configured and has the public name.
Usable ==
  /\ parent.id # 0 => garage.bucket[parent.id] # "free"
  /\ parent.id # 0 /\ garage.bucket[parent.id] = "live" =>
       garage.conf[parent.id] /\ garage.alias[Pub] = parent.id

\* The shadow of a Retain Bucket that is being deleted without the marker
\* stands for nothing, unless it is garbage collected with its cluster.
Spared ==
  parent.policy = "Retain" /\ shadow.uid # 0 /\ shadow.del /\ ~shadow.gc /\ ~shadow.retain => Provided = {}

Knowledge == ParentKnown /\ ShadowKnown /\ PhaseKnown /\ BucketKnown
Custody == Tracking /\ Aliases /\ Guarded /\ Counted /\ Usable /\ Spared
Core == ShadowForm /\ ParentForm /\ Knowledge /\ Custody
IndInv == Typed /\ Core
-----------------------------------------------------------------------------
(* Steps that do not touch what the invariant is about.                    *)

\* The Bucket is as it was, except that it may no longer be ready.
ParentKept ==
  /\ parent'.uid = parent.uid /\ parent'.del = parent.del /\ parent'.fin = parent.fin
  /\ parent'.policy = parent.policy /\ parent'.id = parent.id
  /\ parent'.ready => parent.ready
\* The worker moves to l and keeps what it holds.
WorkerMoves(l) == bw'.pc = l /\ bw'.sh = bw.sh /\ bw'.id = bw.id /\ bw'.know = bw.know
Leaves == bw'.pc = "idle" /\ ParentKept /\ UNCHANGED <<claim, shadow, garage>>

\* Unpublishing a Bucket changes its readiness at most.
LEMMA UnpublishKeeps ==
  ASSUME parent \in Parents, Unpublish
  PROVE  ParentKept /\ parent' \in Parents
  BY DEF Parents, Unpublish, ParentKept

\* A failed reconcile leaves everything as it is.
LEMMA FailLeaves ==
  ASSUME parent \in Parents, FailBucket
  PROVE  Leaves /\ parent' \in Parents
  BY UnpublishKeeps DEF FailBucket, Done, IdleBucket, Leaves

\* A reconcile that ends without an effect keeps the invariant.
LEMMA LeavingKeeps ==
  ASSUME Core, Leaves
  PROVE  Core'
<1>1. ShadowForm' /\ ParentForm'
  BY DEF Core, Leaves, ParentKept, ShadowForm, ParentForm
<1>2. ParentKnown' /\ ShadowKnown' /\ PhaseKnown' /\ BucketKnown'
  BY DEF Leaves, ParentKnown, ShadowKnown, PhaseKnown, BucketKnown, Ensuring, Releasing, Holding, Binding
<1>3. Over => Over'
  BY DEF Leaves, ParentKept, Over, Ensuring
<1>4. Tracking' /\ Aliases'
  BY <1>3 DEF Core, Custody, Leaves, Tracking, Aliases, Resolves, Provided, Live
<1>5. Guarded' /\ Counted' /\ Usable' /\ Spared'
  BY DEF Core, Custody, Leaves, ParentKept, Guarded, Counted, Usable, Spared, Provided, Live
<1> QED
  BY <1>1, <1>2, <1>4, <1>5 DEF Core, Knowledge, Custody
-----------------------------------------------------------------------------
(* EnsureBucket.                                                           *)

\* A step that only moves the worker, and not into EnsureBucket, keeps what
\* does not depend on where the worker is.
LEMMA MovingKeeps ==
  ASSUME Core, UNCHANGED <<parent, claim, shadow, garage>>, bw'.pc \in Ensuring => bw.pc \in Ensuring
  PROVE  ShadowForm' /\ ParentForm' /\ Custody'
<1>1. ShadowForm' /\ ParentForm'
  BY DEF Core, ShadowForm, ParentForm
<1>2. Over => Over'
  BY DEF Over
<1>3. Tracking' /\ Aliases'
  BY <1>2 DEF Core, Custody, Tracking, Aliases, Resolves, Provided, Live
<1>4. Guarded' /\ Counted' /\ Usable' /\ Spared'
  BY DEF Core, Custody, Guarded, Counted, Usable, Spared, Provided, Live
<1> QED
  BY <1>1, <1>3, <1>4 DEF Custody

LEMMA ReconcileBucketKeeps ==
  ASSUME Typed, Core, ReconcileBucket
  PROVE  Core'
<1>0. bw.pc = "idle" /\ parent.uid # 0 /\ parent \in Parents /\ bw \in Workers
  BY DEF ReconcileBucket, StepBucket, Typed
<1>1. CASE parent.del
  <2>1. /\ bw' = [bw EXCEPT !.pc = DeletionPath, !.know = parent.id, !.del = TRUE]
        /\ UNCHANGED <<parent, claim, shadow, garage>>
    BY <1>1 DEF ReconcileBucket
  <2>2. bw'.pc = DeletionPath /\ bw'.know = parent.id
    BY <1>0, <2>1 DEF Workers
  <2>3. Knowledge'
    BY <1>0, <1>1, <2>1, <2>2
       DEF DeletionPath, Parents, Knowledge, ParentKnown, ShadowKnown, PhaseKnown, BucketKnown,
           Ensuring, Releasing, Holding, Binding
  <2> QED
    BY <2>1, <2>2, <2>3, MovingKeeps DEF Core, DeletionPath, Ensuring
<1>2. CASE ~parent.del /\ parent.ok /\ ~parent.fin
  <2>1. parent' = [parent EXCEPT !.fin = TRUE] /\ UNCHANGED <<claim, shadow, garage, bw>>
    BY <1>2 DEF ReconcileBucket
  <2>2. /\ parent'.uid = parent.uid /\ parent'.del = parent.del /\ parent'.fin
        /\ parent'.policy = parent.policy /\ parent'.id = parent.id /\ parent'.ready = parent.ready
    BY <1>0, <2>1 DEF Parents
  <2>3. ShadowForm' /\ ParentForm'
    BY <1>0, <2>1, <2>2 DEF Core, ShadowForm, ParentForm
  <2>4. Knowledge'
    BY <1>0, <2>1, <2>2
       DEF Knowledge, ParentKnown, ShadowKnown, PhaseKnown, BucketKnown, Ensuring, Releasing, Holding, Binding
  <2>5. Over' = Over
    BY <2>1, <2>2 DEF Over
  <2>6. Custody'
    BY <2>1, <2>2, <2>5
       DEF Core, Custody, Tracking, Aliases, Guarded, Counted, Usable, Spared, Resolves, Provided, Live
  <2> QED
    BY <2>3, <2>4, <2>6 DEF Core
<1>3. CASE FailBucket
  BY <1>0, <1>3, FailLeaves, LeavingKeeps
<1>4. CASE ~parent.del /\ parent.fin /\ bw' = [bw EXCEPT !.pc = "reserve"] /\ UNCHANGED <<parent, claim, shadow, garage>>
  <2>1. bw'.pc = "reserve"
    BY <1>0, <1>4 DEF Workers
  <2>2. ~Over
    BY <1>0, <1>4 DEF Over
  <2>3. Knowledge'
    BY <1>0, <1>4, <2>1
       DEF Core, ShadowForm, Knowledge, ParentKnown, ShadowKnown, PhaseKnown, BucketKnown,
           Ensuring, Releasing, Holding, Binding
  <2>4. ShadowForm' /\ ParentForm'
    BY <1>4 DEF Core, ShadowForm, ParentForm
  <2>5. Custody'
    BY <1>4, <2>2
       DEF Core, Custody, Tracking, Aliases, Guarded, Counted, Usable, Spared, Resolves, Provided, Live
  <2> QED
    BY <2>3, <2>4, <2>5 DEF Core
<1> QED
  BY <1>0, <1>1, <1>2, <1>3, <1>4 DEF ReconcileBucket

\* The private alias of the shadow a reconcile holds resolves to the bucket
\* the shadow records, if that is there.
LEMMA HeldAlias ==
  ASSUME Typed, Core, bw.pc \in Holding, Live(garage, bw.sh.id)
  PROVE  garage.alias[bw.sh.uid] \in {0, bw.sh.id}
<1>1. bw.sh \in Shadows /\ bw.sh.id \in IDs /\ bw.sh.uid \in 1..MaxUID
  BY CosiBucketAssumption DEF Typed, Workers, Shadows, ShadowUID, Core, Knowledge, ShadowKnown
<1>2. bw.sh.id \in Provided
  BY <1>1 DEF Provided, Live, IDs, Core, Knowledge, ShadowKnown
<1> QED
  BY <1>1, <1>2 DEF Core, Custody, Aliases, Tracking

LEMMA ResolveKeeps ==
  ASSUME Typed, Core, ResolveTracked \/ ResolveReservation
  PROVE  Core'
<1>0. bw.pc = "resolve" /\ parent \in Parents /\ bw \in Workers
  BY DEF ResolveTracked, ResolveReservation, StepBucket, Typed
<1>1. CASE FailBucket
  BY <1>0, <1>1, FailLeaves, LeavingKeeps
<1>2. CASE ResolveTracked /\ ~FailBucket
  <2>1. /\ UNCHANGED <<parent, claim, shadow, garage>>
        /\ Tracked # 0 /\ (bw.sh.ann # 0 => bw.sh.id = bw.sh.ann)
        /\ IF Live(garage, Tracked) THEN bw' = [bw EXCEPT !.pc = "bind", !.id = Tracked]
           ELSE bw' = [bw EXCEPT !.pc = IF bw.sh.ann # 0 THEN "stale" ELSE "staleStatus"]
    BY <1>2 DEF ResolveTracked
  <2>2. /\ bw'.sh = bw.sh
        /\ IF Live(garage, Tracked) THEN bw'.pc = "bind" /\ bw'.id = Tracked
           ELSE bw'.pc = IF bw.sh.ann # 0 THEN "stale" ELSE "staleStatus"
    BY <1>0, <2>1 DEF Workers
  <2>3. bw'.pc \in Ensuring
    BY <2>2 DEF Ensuring
  <2>4. Tracked = bw.sh.id
    BY <2>1 DEF Tracked
  <2>5. Live(garage, Tracked) => garage.alias[bw.sh.uid] \in {0, bw.sh.id}
    BY <1>0, <2>1, <2>4, HeldAlias DEF Holding, Ensuring
  <2>6. ASSUME Live(garage, Tracked) PROVE Knowledge'
    <3>1. bw'.pc = "bind" /\ bw'.sh = bw.sh /\ bw'.id = bw.sh.id /\ garage.bucket[bw.sh.id] = "live" /\ bw.sh.id # 0
          /\ garage.alias[bw.sh.uid] \in {0, bw.sh.id}
      BY <2>2, <2>4, <2>5, <2>6 DEF Live
    <3> QED
      BY <1>0, <2>1, <3>1
         DEF Core, Knowledge, ParentKnown, ShadowKnown, PhaseKnown, BucketKnown, Ensuring, Releasing, Holding, Binding
  <2>7. ASSUME ~Live(garage, Tracked) PROVE Knowledge'
    <3>1. /\ bw'.pc = (IF bw.sh.ann # 0 THEN "stale" ELSE "staleStatus") /\ bw'.sh = bw.sh
          /\ garage.bucket[bw.sh.id] # "live" /\ bw.sh.id # 0
      BY <2>1, <2>2, <2>4, <2>7 DEF Live
    <3> QED
      BY <1>0, <2>1, <3>1
         DEF Core, Knowledge, ParentKnown, ShadowKnown, PhaseKnown, BucketKnown, Ensuring, Releasing, Holding, Binding
  <2> QED
    BY <1>0, <2>1, <2>3, <2>6, <2>7, MovingKeeps DEF Core, Ensuring
<1>3. CASE ResolveReservation
  <2>1. /\ UNCHANGED <<parent, claim, shadow, garage>> /\ Tracked = 0
        /\ \/ bw.sh.auth /\ GoTo("create")
           \/ ~bw.sh.auth /\ (GoTo("authorize") \/ GoTo("reject"))
    BY <1>3 DEF ResolveReservation
  <2>2. /\ bw'.sh = bw.sh
        /\ \/ bw.sh.auth /\ bw'.pc = "create"
           \/ ~bw.sh.auth /\ bw'.pc \in {"authorize", "reject"}
    BY <1>0, <2>1 DEF Workers, GoTo
  <2>3. Knowledge'
    BY <1>0, <2>1, <2>2
       DEF Tracked, Core, Knowledge, ParentKnown, ShadowKnown, PhaseKnown, BucketKnown,
           Ensuring, Releasing, Holding, Binding
  <2> QED
    BY <1>0, <2>1, <2>3, MovingKeeps DEF Core, Ensuring
<1> QED
  BY <1>1, <1>2, <1>3

LEMMA ReserveShadowBucketKeeps ==
  ASSUME Typed, Core, ReserveShadowBucket
  PROVE  Core'
<1>0. bw.pc = "reserve" /\ parent \in Parents /\ bw \in Workers /\ shadow \in Shadows /\ garage \in Garages
  BY DEF ReserveShadowBucket, StepBucket, Typed
<1>i. parent.uid # 0 /\ parent.fin /\ ~shadow.retain
  BY <1>0 DEF Core, Knowledge, ParentKnown, Ensuring
<1>1. CASE FailBucket
  BY <1>0, <1>1, FailLeaves, LeavingKeeps
<1>2. CASE shadow.uid = 0 /\ ~FailBucket
  <2>1. /\ garage' = [garage EXCEPT !.uids = @ + 1]
        /\ shadow' = ShadowBucket(garage.uids + 1)
        /\ bw' = [bw EXCEPT !.pc = "resolve", !.sh = shadow'] /\ UNCHANGED <<parent, claim>>
    BY <1>2 DEF ReserveShadowBucket
  <2>2. /\ garage'.bucket = garage.bucket /\ garage'.alias = garage.alias /\ garage'.conf = garage.conf
        /\ garage'.uids = garage.uids + 1 /\ garage.uids \in Nat
    BY <1>0, <2>1, CosiBucketAssumption DEF Garages
  <2>3. bw'.pc = "resolve" /\ bw'.sh = shadow'
    BY <1>0, <2>1 DEF Workers
  <2>4. /\ shadow'.uid = garage'.uids /\ ~shadow'.del /\ shadow'.fin /\ shadow'.state = "Pending" /\ ~shadow'.auth
        /\ shadow'.ann = 0 /\ shadow'.id = 0 /\ ~shadow'.retain /\ ~shadow'.owned /\ ~shadow'.gc
    BY <2>1, <2>2 DEF ShadowBucket, NoShadow
  <2>5. Provided = {} /\ Provided' = Provided /\ shadow'.uid # 0
    BY <1>0, <1>2, <1>i, <2>2, <2>4
       DEF Core, Custody, Tracking, Over, Resolves, Provided, Live, Ensuring
  <2>6. ShadowForm' /\ ParentForm'
    BY <1>i, <2>1, <2>4, <2>5 DEF Core, ShadowForm, ParentForm, Foreign
  <2>7. Knowledge'
    BY <1>i, <2>1, <2>2, <2>3, <2>4, <2>5
       DEF Knowledge, ParentKnown, ShadowKnown, PhaseKnown, BucketKnown, Ensuring, Releasing, Holding, Binding, Foreign
  <2>8. Tracking' /\ Aliases' /\ Guarded' /\ Spared'
    BY <2>2, <2>5 DEF Core, Custody, Tracking, Aliases, Guarded, Spared
  <2>9. Counted'
    BY <1>0, <2>1, <2>2, <2>4 DEF Core, Custody, Counted
  <2>10. Usable'
    BY <2>1, <2>2 DEF Core, Custody, Usable
  <2> QED
    BY <2>6, <2>7, <2>8, <2>9, <2>10 DEF Core, Custody
<1>3. CASE shadow.uid # 0 /\ ~FailBucket
  <2>1. /\ shadow' = [shadow EXCEPT !.fin = TRUE] /\ ~shadow.del
        /\ bw' = [bw EXCEPT !.pc = "resolve", !.sh = shadow'] /\ UNCHANGED <<parent, claim, garage>>
    BY <1>3 DEF ReserveShadowBucket
  <2>2. bw'.pc = "resolve" /\ bw'.sh = shadow'
    BY <1>0, <2>1 DEF Workers
  <2>3. /\ shadow'.uid = shadow.uid /\ shadow'.del = shadow.del /\ shadow'.fin /\ shadow'.state = shadow.state
        /\ shadow'.auth = shadow.auth /\ shadow'.ann = shadow.ann /\ shadow'.id = shadow.id
        /\ shadow'.retain = shadow.retain /\ shadow'.owned = shadow.owned /\ shadow'.gc = shadow.gc
    BY <1>0, <2>1 DEF Shadows
  <2>4. ShadowForm' /\ ParentForm'
    BY <1>i, <1>3, <2>1, <2>3 DEF Core, ShadowForm, ParentForm
  <2>5. Knowledge'
    <3>1. ShadowKnown'
      <4>1. /\ shadow.ann # 0 => shadow.id = shadow.ann
            /\ shadow.ann # 0 <=> shadow.state = "Bound"
            /\ shadow.id # Foreign
        BY DEF Core, ShadowForm
      <4>2. shadow.uid # 0 /\ ~shadow.del
        BY <1>3, <2>1
      <4> QED
        BY <1>i, <2>2, <2>3, <4>1, <4>2 DEF ShadowKnown
    <3> QED
      BY <1>i, <2>1, <2>2, <2>3, <3>1
         DEF Knowledge, ParentKnown, PhaseKnown, BucketKnown, Ensuring, Releasing, Binding
  <2>6. ~Over /\ Provided' = Provided
    BY <1>0, <2>1 DEF Over, Ensuring, Provided
  <2>7. Custody'
    BY <1>3, <2>1, <2>3, <2>6
       DEF Core, Custody, Tracking, Aliases, Guarded, Counted, Usable, Spared, Resolves
  <2> QED
    BY <2>4, <2>5, <2>7 DEF Core
<1> QED
  BY <1>1, <1>2, <1>3 DEF ReserveShadowBucket

LEMMA AuthorizeShadowBucketCreateKeeps ==
  ASSUME Typed, Core, AuthorizeShadowBucketCreate
  PROVE  Core'
<1>0. bw.pc = "authorize" /\ parent \in Parents /\ bw \in Workers /\ shadow \in Shadows
  BY DEF AuthorizeShadowBucketCreate, StepBucket, Typed
<1>1. CASE FailBucket
  BY <1>0, <1>1, FailLeaves, LeavingKeeps
<1>2. CASE ~FailBucket
  <2>1. /\ shadow.uid = bw.sh.uid /\ shadow' = [shadow EXCEPT !.auth = TRUE]
        /\ bw' = [bw EXCEPT !.pc = "create", !.sh = shadow'] /\ UNCHANGED <<parent, claim, garage>>
    BY <1>2 DEF AuthorizeShadowBucketCreate
  <2>2. UNCHANGED <<parent, claim, garage>>
    BY <2>1
  <2>3. bw'.pc = "create" /\ bw'.sh = shadow'
    BY <1>0, <2>1 DEF Workers
  <2>4. /\ shadow'.uid = shadow.uid /\ shadow'.del = shadow.del /\ shadow'.fin = shadow.fin
        /\ shadow'.state = shadow.state /\ shadow'.auth /\ shadow'.ann = shadow.ann /\ shadow'.id = shadow.id
        /\ shadow'.retain = shadow.retain /\ shadow'.owned = shadow.owned /\ shadow'.gc = shadow.gc
    BY <1>0, <2>1 DEF Shadows
  <2>5. /\ shadow.uid # 0 /\ shadow.ann = 0 /\ shadow.id = 0 /\ ~shadow.auth /\ ~shadow.retain /\ ~shadow.del
        /\ shadow.fin /\ parent.uid # 0 /\ parent.fin
    BY <1>0, <2>1
       DEF Core, Knowledge, ParentKnown, ShadowKnown, PhaseKnown, Ensuring, Holding
  <2>6. ShadowForm' /\ ParentForm'
    BY <2>2, <2>4, <2>5 DEF Core, ShadowForm, ParentForm
  <2>7. ParentKnown' /\ PhaseKnown' /\ BucketKnown'
    BY <2>2, <2>3, <2>4, <2>5 DEF ParentKnown, PhaseKnown, BucketKnown, Ensuring, Releasing, Binding
  <2>8. ShadowKnown'
    <3>1. shadow.state # "Bound"
      BY <2>5 DEF Core, ShadowForm
    <3> QED
      BY <2>3, <2>4, <2>5, <3>1 DEF ShadowKnown, Foreign
  <2>9. ~Over /\ Provided = {} /\ Provided' = Provided
    BY <1>0, <2>2, <2>5 DEF Over, Ensuring, Provided, Live, Core, Custody, Tracking, Resolves
  <2>10. Custody'
    BY <2>2, <2>4, <2>5, <2>9
       DEF Core, Custody, Tracking, Aliases, Guarded, Counted, Usable, Spared, Resolves
  <2> QED
    BY <2>6, <2>7, <2>8, <2>10 DEF Core, Knowledge
<1> QED
  BY <1>1, <1>2

\* A new bucket is one that was free.
LEMMA FreshBucketIsFree ==
  ASSUME FreeBuckets # {}
  PROVE  FreshBucket \in BucketId \ {Foreign} /\ garage.bucket[FreshBucket] = "free"
<1>1. FreshBucket \in FreeBuckets
  BY Zenon DEF FreshBucket
<1> QED
  BY <1>1 DEF FreeBuckets

LEMMA CreateOrRecoverKeeps ==
  ASSUME Typed, Core, CreateOrRecover
  PROVE  Core'
<1>0. bw.pc = "create" /\ parent \in Parents /\ bw \in Workers /\ garage \in Garages
  BY DEF CreateOrRecover, StepBucket, Typed
<1>1. CASE FailBucket
  BY <1>0, <1>1, FailLeaves, LeavingKeeps
<1>h. /\ shadow.uid # 0 /\ bw.sh.uid = shadow.uid /\ ~shadow.retain /\ ~shadow.del /\ shadow.fin
      /\ shadow.ann = 0 /\ shadow.id = 0 /\ shadow.auth
      /\ bw.sh.ann = 0 /\ bw.sh.id = 0 /\ bw.sh.auth /\ parent.uid # 0
  BY <1>0 DEF Core, Knowledge, ParentKnown, ShadowKnown, PhaseKnown, Ensuring, Holding
<1>u. shadow.uid \in 1..MaxUID
  BY <1>h, CosiBucketAssumption DEF Typed, Shadows, ShadowUID
<1>o. ~Over
  BY <1>0 DEF Over, Ensuring
<1>2. CASE ~FailBucket /\ ~AliasFree(Rsv(bw.sh.uid))
  <2>1. /\ bw' = [bw EXCEPT !.pc = "bind", !.id = garage.alias[bw.sh.uid]] /\ garage.alias[bw.sh.uid] # 0
        /\ UNCHANGED <<parent, claim, shadow, garage>>
    BY <1>2 DEF CreateOrRecover, Rsv, AliasFree
  <2>2. UNCHANGED <<parent, claim, shadow, garage>>
    BY <2>1
  <2>3. bw'.pc = "bind" /\ bw'.sh = bw.sh /\ bw'.id = garage.alias[bw.sh.uid]
    BY <1>0, <2>1 DEF Workers
  <2>4. garage.alias[bw.sh.uid] \in Provided
    BY <1>h, <1>u, <2>1 DEF Core, Custody, Aliases
  <2>5. bw'.id \notin {0, Foreign} /\ garage.bucket[bw'.id] # "free"
    BY <2>3, <2>4 DEF Provided, Live
  <2>6. Knowledge'
    BY ZenonT(60), <1>0, <1>h, <2>2, <2>3, <2>5
       DEF Core, Knowledge, ParentKnown, ShadowKnown, PhaseKnown, BucketKnown,
           Ensuring, Releasing, Holding, Binding
  <2> QED
    BY <1>0, <2>2, <2>3, <2>6, MovingKeeps DEF Core, Ensuring
<1>3. CASE ~FailBucket /\ AliasFree(Rsv(bw.sh.uid))
  <2> DEFINE b == FreshBucket
  <2>1. /\ FreeBuckets # {} /\ garage' = CreateBucket(garage, b, bw.sh.uid)
        /\ bw' = [bw EXCEPT !.pc = "bind", !.id = b] /\ UNCHANGED <<parent, claim, shadow>>
        /\ garage.alias[bw.sh.uid] = 0
    BY <1>3 DEF CreateOrRecover, Rsv, AliasFree
  <2>2. b \in BucketId \ {Foreign} /\ b \in BucketId /\ b # Foreign /\ b # 0 /\ garage.bucket[b] = "free"
    BY <2>1, FreshBucketIsFree, CosiBucketAssumption DEF BucketId
  <2> HIDE DEF b
  <2>3. UNCHANGED <<parent, claim, shadow>>
    BY <2>1
  <2>4. bw'.pc = "bind" /\ bw'.sh = bw.sh /\ bw'.id = b
    BY <1>0, <2>1, <2>2 DEF Workers
  <2>5. /\ garage'.bucket = [garage.bucket EXCEPT ![b] = "live"]
        /\ garage'.alias = [garage.alias EXCEPT ![bw.sh.uid] = b]
        /\ garage'.conf = garage.conf /\ garage'.uids = garage.uids
    BY <1>0, <2>1 DEF CreateBucket, Garages
  <2>6. /\ garage'.bucket[b] = "live" /\ \A i \in BucketId \ {b} : garage'.bucket[i] = garage.bucket[i]
        /\ garage'.alias[shadow.uid] = b /\ \A a \in Alias \ {shadow.uid} : garage'.alias[a] = garage.alias[a]
    BY <1>0, <1>h, <1>u, <2>2, <2>5 DEF Garages, Alias, Rsv
  <2>7. Provided = {}
    BY <1>h, <1>u, <1>o, <2>1 DEF Core, Custody, Tracking, Resolves, Provided, Live
  <2>8. Provided' = {b}
    BY <2>2, <2>6, <2>7 DEF Provided, Live
  <2>9. ShadowForm' /\ ParentForm'
    BY <2>3 DEF Core, ShadowForm, ParentForm
  <2>10. Knowledge'
    <3>1. /\ bw'.id # 0 /\ bw'.id # Foreign /\ garage'.bucket[bw'.id] = "live"
          /\ garage'.alias[bw'.sh.uid] = bw'.id
      BY <1>h, <2>2, <2>4, <2>6
    <3> QED
      BY ZenonT(60), <1>0, <1>h, <2>3, <2>4, <3>1
         DEF Core, Knowledge, ParentKnown, ShadowKnown, PhaseKnown, BucketKnown,
             Ensuring, Releasing, Holding, Binding
  <2>11. Tracking'
    BY <1>h, <2>3, <2>6, <2>8 DEF Tracking, Resolves
  <2>12. Aliases'
    <3>1. \A u \in 1..MaxUID : u \in Alias
      BY DEF Alias, Rsv
    <3> QED
      BY <1>h, <2>3, <2>6, <2>7, <2>8, <3>1 DEF Core, Custody, Aliases
  <2>13. Guarded' /\ Counted' /\ Spared'
    BY <1>h, <2>3, <2>5 DEF Core, Custody, Guarded, Counted, Spared
  <2>14. Usable'
    <3>1. parent.id # 0 => parent.id \in BucketId \ {b} /\ garage.bucket[parent.id] = "deleted"
      <4>1. parent.id \in IDs /\ parent.id # Foreign
        BY <1>0 DEF Parents, Core, ParentForm
      <4>2. parent.id # 0 => parent.id \in BucketId /\ parent.id \notin Provided
        BY <2>7, <4>1 DEF IDs
      <4> QED
        BY <1>0, <2>2, <4>1, <4>2 DEF Core, Custody, Usable, Provided, Live, Garages
    <3> QED
      BY <2>3, <2>6, <3>1 DEF Usable
  <2> QED
    BY <2>9, <2>10, <2>11, <2>12, <2>13, <2>14 DEF Core, Custody
<1> QED
  BY <1>1, <1>2, <1>3

LEMMA BindShadowStatusKeeps ==
  ASSUME Typed, Core, BindShadowStatus
  PROVE  Core'
<1>0. bw.pc = "bind" /\ parent \in Parents /\ bw \in Workers /\ shadow \in Shadows
  BY DEF BindShadowStatus, StepBucket, Typed
<1>1. CASE FailBucket
  BY <1>0, <1>1, FailLeaves, LeavingKeeps
<1>2. CASE ~FailBucket /\ bw.sh.id # 0
  <2>1. /\ bw.sh.id = bw.id /\ bw' = [bw EXCEPT !.sh = bw.sh, !.pc = "bindMeta"]
        /\ UNCHANGED <<parent, claim, shadow, garage>>
    BY <1>2 DEF BindShadowStatus
  <2>2. UNCHANGED <<parent, claim, shadow, garage>>
    BY <2>1
  <2>3. WorkerMoves("bindMeta")
    BY <1>0, <2>1 DEF Workers, WorkerMoves
  <2>4. Knowledge'
    BY <1>0, <2>1, <2>2, <2>3
       DEF WorkerMoves, Core, Knowledge, ParentKnown, ShadowKnown, PhaseKnown, BucketKnown,
           Ensuring, Releasing, Holding, Binding
  <2> QED
    BY <1>0, <2>2, <2>3, <2>4, MovingKeeps DEF Core, Ensuring, WorkerMoves
<1>3. CASE ~FailBucket /\ bw.sh.id = 0
  <2>1. /\ shadow = bw.sh /\ shadow' = [bw.sh EXCEPT !.id = bw.id]
        /\ bw' = [bw EXCEPT !.sh = shadow', !.pc = "bindMeta"]
        /\ UNCHANGED <<parent, claim, garage>>
    BY <1>3 DEF BindShadowStatus, Fresh
  <2>2. UNCHANGED <<parent, claim, garage>> /\ shadow = bw.sh
    BY <2>1
  <2>3. bw'.pc = "bindMeta" /\ bw'.sh = shadow' /\ bw'.id = bw.id
    BY <1>0, <2>1 DEF Workers
  <2>4. /\ shadow'.uid = shadow.uid /\ shadow'.del = shadow.del /\ shadow'.fin = shadow.fin
        /\ shadow'.state = shadow.state /\ shadow'.auth = shadow.auth /\ shadow'.ann = shadow.ann
        /\ shadow'.id = bw.id
        /\ shadow'.retain = shadow.retain /\ shadow'.owned = shadow.owned /\ shadow'.gc = shadow.gc
    BY <1>0, <2>1 DEF Shadows
  <2>5. /\ shadow.uid # 0 /\ shadow.ann = 0 /\ shadow.id = 0 /\ shadow.auth /\ ~shadow.retain /\ ~shadow.del
        /\ parent.uid # 0 /\ parent.fin
        /\ bw.id # 0 /\ bw.id # Foreign /\ garage.bucket[bw.id] # "free" /\ garage.alias[shadow.uid] \in {0, bw.id}
    BY <1>0, <1>3, <2>2
       DEF Core, Knowledge, ParentKnown, ShadowKnown, PhaseKnown, BucketKnown, Ensuring, Holding, Binding
  <2>6. ShadowForm' /\ ParentForm'
    BY <2>2, <2>4, <2>5 DEF Core, ShadowForm, ParentForm
  <2>7. ShadowKnown'
    <3>1. shadow.ann # 0 <=> shadow.state = "Bound"
      BY DEF Core, ShadowForm
    <3> QED
      BY <2>3, <2>4, <2>5, <3>1 DEF ShadowKnown
  <2>8. ParentKnown' /\ PhaseKnown' /\ BucketKnown'
    BY <2>2, <2>3, <2>4, <2>5 DEF ParentKnown, PhaseKnown, BucketKnown, Ensuring, Releasing, Binding
  <2>9. ~Over /\ Provided' = Provided
    BY <1>0, <2>2 DEF Over, Ensuring, Provided, Live
  <2>10. Tracking'
    <3>1. \A b \in Provided : b # 0 /\ Resolves(b)
      BY <2>9 DEF Core, Custody, Tracking, Provided, Live
    <3>2. \A b \in Provided : b = bw.id
      BY <2>5, <3>1 DEF Resolves
    <3>3. \A b \in Provided : Resolves(b)'
      BY <2>2, <2>4, <2>5, <3>2 DEF Resolves
    <3> QED
      BY <2>9, <3>2, <3>3 DEF Tracking
  <2>11. Aliases' /\ Guarded' /\ Counted' /\ Usable' /\ Spared'
    BY <2>2, <2>4, <2>5, <2>9 DEF Core, Custody, Aliases, Guarded, Counted, Usable, Spared
  <2> QED
    BY <2>6, <2>7, <2>8, <2>10, <2>11 DEF Core, Knowledge, Custody
<1> QED
  BY <1>1, <1>2, <1>3

LEMMA BindShadowMetadataKeeps ==
  ASSUME Typed, Core, BindShadowMetadata
  PROVE  Core'
<1>0. bw.pc = "bindMeta" /\ parent \in Parents /\ bw \in Workers /\ shadow \in Shadows
  BY DEF BindShadowMetadata, StepBucket, Typed
<1>1. CASE FailBucket
  BY <1>0, <1>1, FailLeaves, LeavingKeeps
<1>2. CASE ~FailBucket
  <2>1. /\ shadow = bw.sh /\ shadow' = [bw.sh EXCEPT !.ann = bw.id, !.state = "Bound"]
        /\ bw' = [bw EXCEPT !.sh = shadow', !.pc = "settings"]
        /\ UNCHANGED <<parent, claim, garage>>
    BY <1>2 DEF BindShadowMetadata, Fresh
  <2>2. UNCHANGED <<parent, claim, garage>> /\ shadow = bw.sh
    BY <2>1
  <2>3. bw'.pc = "settings" /\ bw'.sh = shadow' /\ bw'.id = bw.id
    BY <1>0, <2>1 DEF Workers
  <2>4. /\ shadow'.uid = shadow.uid /\ shadow'.del = shadow.del /\ shadow'.fin = shadow.fin
        /\ shadow'.state = "Bound" /\ shadow'.auth = shadow.auth /\ shadow'.ann = bw.id
        /\ shadow'.id = shadow.id
        /\ shadow'.retain = shadow.retain /\ shadow'.owned = shadow.owned /\ shadow'.gc = shadow.gc
    <3>1. shadow' = [shadow EXCEPT !.ann = bw.id, !.state = "Bound"]
      BY <2>1
    <3> QED
      BY <1>0, <3>1 DEF Shadows
  <2>5. /\ shadow.uid # 0 /\ shadow.id = bw.id /\ ~shadow.retain
        /\ shadow.ann # 0 => shadow.ann = bw.id
        /\ shadow.ann = 0 => ~shadow.del
        /\ parent.uid # 0 /\ parent.fin
        /\ bw.id # 0 /\ bw.id # Foreign /\ garage.bucket[bw.id] # "free" /\ garage.alias[shadow.uid] \in {0, bw.id}
    BY <1>0, <2>2
       DEF Core, Knowledge, ParentKnown, ShadowKnown, PhaseKnown, BucketKnown, Ensuring, Holding, Binding
  <2>6. ShadowForm' /\ ParentForm'
    BY <2>2, <2>4, <2>5 DEF Core, ShadowForm, ParentForm
  <2>7. ShadowKnown' /\ ParentKnown' /\ PhaseKnown' /\ BucketKnown'
    BY <2>2, <2>3, <2>4, <2>5 DEF ShadowKnown, ParentKnown, PhaseKnown, BucketKnown, Ensuring, Releasing, Binding
  <2>8. ~Over /\ Provided' = Provided
    BY <1>0, <2>2 DEF Over, Ensuring, Provided, Live
  <2>9. Custody'
    BY <2>2, <2>4, <2>5, <2>8
       DEF Core, Custody, Tracking, Aliases, Guarded, Counted, Usable, Spared, Resolves
  <2> QED
    BY <2>6, <2>7, <2>9 DEF Core, Knowledge
<1> QED
  BY <1>1, <1>2

LEMMA EnsureCOSIBucketSettingsKeeps ==
  ASSUME Typed, Core, EnsureCOSIBucketSettings
  PROVE  Core'
<1>0. bw.pc = "settings" /\ parent \in Parents /\ bw \in Workers /\ garage \in Garages
  BY DEF EnsureCOSIBucketSettings, StepBucket, Typed
<1>1. CASE FailBucket
  BY <1>0, <1>1, FailLeaves, LeavingKeeps
<1>2. CASE ~FailBucket
  <2>1. /\ Live(garage, bw.id) /\ garage' = [garage EXCEPT !.conf[bw.id] = TRUE]
        /\ bw' = [bw EXCEPT !.pc = "alias"] /\ UNCHANGED <<parent, claim, shadow>>
    BY <1>2 DEF EnsureCOSIBucketSettings, GoTo
  <2>2. UNCHANGED <<parent, claim, shadow>>
    BY <2>1
  <2>3. WorkerMoves("alias")
    BY <1>0, <2>1 DEF Workers, WorkerMoves
  <2>4. /\ garage'.bucket = garage.bucket /\ garage'.alias = garage.alias /\ garage'.uids = garage.uids
        /\ garage'.conf = [garage.conf EXCEPT ![bw.id] = TRUE]
    BY <1>0, <2>1 DEF Garages
  <2>5. bw.id \in BucketId /\ bw.id # 0
    BY <1>0, <2>1 DEF Live, Workers, IDs
  <2>6. garage'.conf[bw.id] /\ \A i \in BucketId : garage.conf[i] => garage'.conf[i]
    BY <1>0, <2>4, <2>5 DEF Garages
  <2>7. ShadowForm' /\ ParentForm'
    BY <2>2 DEF Core, ShadowForm, ParentForm
  <2>8. Knowledge'
    BY <1>0, <2>2, <2>3, <2>4, <2>6
       DEF WorkerMoves, Core, Knowledge, ParentKnown, ShadowKnown, PhaseKnown, BucketKnown,
           Ensuring, Releasing, Holding, Binding
  <2>9. ~Over /\ Provided' = Provided
    BY <1>0, <2>4 DEF Over, Ensuring, Provided, Live
  <2>10. Tracking' /\ Aliases' /\ Guarded' /\ Counted' /\ Spared'
    BY <2>2, <2>4, <2>9 DEF Core, Custody, Tracking, Aliases, Guarded, Counted, Spared, Resolves
  <2>11. Usable'
    <3>1. parent.id # 0 => parent.id \in BucketId
      BY <1>0 DEF Parents, IDs
    <3> QED
      BY <2>2, <2>4, <2>6, <3>1 DEF Core, Custody, Usable
  <2> QED
    BY <2>7, <2>8, <2>10, <2>11 DEF Core, Custody
<1> QED
  BY <1>1, <1>2

LEMMA EnsureCOSIGlobalAliasKeeps ==
  ASSUME Typed, Core, EnsureCOSIGlobalAlias
  PROVE  Core'
<1>0. bw.pc = "alias" /\ parent \in Parents /\ bw \in Workers /\ garage \in Garages
  BY DEF EnsureCOSIGlobalAlias, StepBucket, Typed
<1>1. CASE FailBucket
  BY <1>0, <1>1, FailLeaves, LeavingKeeps
<1>2. CASE ~FailBucket
  <2>1. /\ Live(garage, bw.id) /\ garage.alias[Pub] \in {0, bw.id}
        /\ garage' = [garage EXCEPT !.alias[Pub] = bw.id]
        /\ bw' = [bw EXCEPT !.pc = "unreserve"] /\ UNCHANGED <<parent, claim, shadow>>
    BY <1>2 DEF EnsureCOSIGlobalAlias, GoTo
  <2>2. UNCHANGED <<parent, claim, shadow>> /\ garage.alias[Pub] \in {0, bw.id}
    BY <2>1
  <2>3. WorkerMoves("unreserve")
    BY <1>0, <2>1 DEF Workers, WorkerMoves
  <2>4. /\ garage'.bucket = garage.bucket /\ garage'.conf = garage.conf /\ garage'.uids = garage.uids
        /\ garage'.alias = [garage.alias EXCEPT ![Pub] = bw.id]
    BY <1>0, <2>1 DEF Garages
  <2>5. garage'.alias[Pub] = bw.id /\ \A u \in 1..MaxUID : garage'.alias[u] = garage.alias[u]
    BY <1>0, <2>4, CosiBucketAssumption DEF Garages, Alias, Pub, Rsv
  <2>6. bw.sh.uid \in 1..MaxUID /\ (shadow.uid # 0 => shadow.uid \in 1..MaxUID)
    BY <1>0, CosiBucketAssumption
       DEF Typed, Shadows, ShadowUID, Workers, Core, Knowledge, ShadowKnown, Ensuring, Holding
  <2>7. ShadowForm' /\ ParentForm'
    BY <2>2 DEF Core, ShadowForm, ParentForm
  <2>8. Knowledge'
    <3>1. garage'.alias[bw.sh.uid] = garage.alias[bw.sh.uid] /\ garage'.alias[Pub] = bw.id
      BY <2>5, <2>6
    <3>2. UNCHANGED <<parent, shadow, garage.bucket, garage.conf>>
      BY <2>2, <2>4
    <3> QED
      BY <1>0, <2>3, <3>1, <3>2
         DEF WorkerMoves, Core, Knowledge, ParentKnown, ShadowKnown, PhaseKnown, BucketKnown,
             Ensuring, Releasing, Holding, Binding
  <2>9. ~Over /\ Provided' = Provided
    BY <1>0, <2>4 DEF Over, Ensuring, Provided, Live
  <2>10. Tracking'
    BY <2>2, <2>5, <2>6, <2>9 DEF Core, Custody, Tracking, Resolves
  <2>11. Aliases' /\ Guarded' /\ Counted' /\ Spared'
    BY <2>2, <2>4, <2>5, <2>9 DEF Core, Custody, Aliases, Guarded, Counted, Spared
  <2>12. Usable'
    BY <2>2, <2>4, <2>5 DEF Core, Custody, Usable
  <2> QED
    BY <2>7, <2>8, <2>10, <2>11, <2>12 DEF Core, Custody
<1> QED
  BY <1>1, <1>2

LEMMA RemoveReservationAliasKeeps ==
  ASSUME Typed, Core, RemoveReservationAlias
  PROVE  Core'
<1>0. bw.pc = "unreserve" /\ parent \in Parents /\ bw \in Workers /\ garage \in Garages
  BY DEF RemoveReservationAlias, StepBucket, Typed
<1>1. /\ UNCHANGED <<parent, claim, shadow>> /\ bw' = [bw EXCEPT !.pc = "clear"]
      /\ garage' = [garage EXCEPT !.alias = [a \in DOMAIN @ |->
                      IF bw.sh.auth /\ a = bw.sh.uid /\ @[a] = bw.id THEN 0 ELSE @[a]]]
  BY DEF RemoveReservationAlias, GoTo, Rsv
<1>2. UNCHANGED <<parent, claim, shadow>>
  BY <1>1
<1>3. WorkerMoves("clear")
  BY <1>0, <1>1 DEF Workers, WorkerMoves
<1>4. /\ garage'.bucket = garage.bucket /\ garage'.conf = garage.conf /\ garage'.uids = garage.uids
      /\ \A a \in Alias : garage'.alias[a] = IF bw.sh.auth /\ a = bw.sh.uid /\ garage.alias[a] = bw.id
                                              THEN 0 ELSE garage.alias[a]
  BY <1>0, <1>1 DEF Garages
<1>5. /\ \A u \in 1..MaxUID : u \in Alias /\ u # Pub
      /\ Pub \in Alias /\ bw.sh.uid \in 1..MaxUID /\ (shadow.uid # 0 => shadow.uid \in 1..MaxUID)
  BY <1>0, CosiBucketAssumption
     DEF Alias, Rsv, Pub, Typed, Shadows, ShadowUID, Workers, Core, Knowledge, ShadowKnown, Ensuring, Holding
<1>6. /\ garage'.alias[Pub] = garage.alias[Pub]
      /\ \A u \in 1..MaxUID : garage'.alias[u] \in {0, garage.alias[u]}
  BY <1>4, <1>5
<1>7. ~Over /\ Provided' = Provided
  BY <1>0, <1>4 DEF Over, Ensuring, Provided, Live
<1>8. garage'.alias[bw.sh.uid] = 0
  <2>1. bw.sh.auth => garage.alias[bw.sh.uid] \in {0, bw.id}
    BY <1>0 DEF Core, Knowledge, BucketKnown
  <2>2. ~bw.sh.auth => garage.alias[bw.sh.uid] = 0
    BY <1>0, <1>5, <1>7 DEF Core, Knowledge, ShadowKnown, Ensuring, Holding, Custody, Aliases
  <2> QED
    BY <1>4, <1>5, <2>1, <2>2
<1>9. ShadowForm' /\ ParentForm'
  BY <1>2 DEF Core, ShadowForm, ParentForm
<1>10. Knowledge'
  <2>1. UNCHANGED <<parent, shadow, garage.bucket, garage.conf, garage.alias[Pub]>>
    BY <1>2, <1>4, <1>6
  <2> QED
    BY <1>0, <1>3, <1>8, <2>1
       DEF WorkerMoves, Core, Knowledge, ParentKnown, ShadowKnown, PhaseKnown, BucketKnown,
           Ensuring, Releasing, Holding, Binding
<1>11. Tracking'
  <2>1. bw.id # 0 /\ bw.id = bw.sh.id /\ (shadow.uid # 0 => shadow.id = bw.id)
    BY <1>0 DEF Core, Knowledge, ShadowKnown, BucketKnown, Ensuring, Holding, Binding
  <2>2. ASSUME NEW b \in Provided PROVE Resolves(b)'
    <3>1. Resolves(b) /\ shadow.id = b
      BY <1>7, <2>1 DEF Core, Custody, Tracking, Resolves
    <3> QED
      BY <1>2, <1>5, <1>6, <3>1 DEF Resolves
  <2> QED
    BY <1>7, <2>2 DEF Core, Custody, Tracking
<1>12. Aliases' /\ Guarded' /\ Counted' /\ Spared'
  BY <1>2, <1>4, <1>6, <1>7 DEF Core, Custody, Aliases, Guarded, Counted, Spared
<1>13. Usable'
  BY <1>2, <1>4, <1>6 DEF Core, Custody, Usable
<1> QED
  BY <1>9, <1>10, <1>11, <1>12, <1>13 DEF Core, Custody

LEMMA ClearShadowBucketReservationAliasKeeps ==
  ASSUME Typed, Core, ClearShadowBucketReservationAlias
  PROVE  Core'
<1>0. bw.pc = "clear" /\ parent \in Parents /\ bw \in Workers /\ shadow \in Shadows
  BY DEF ClearShadowBucketReservationAlias, StepBucket, Typed
<1>1. CASE FailBucket
  BY <1>0, <1>1, FailLeaves, LeavingKeeps
<1>2. CASE ~FailBucket
  <2>1. /\ ~bw.sh.auth \/ shadow.uid = bw.sh.uid
        /\ shadow' = IF bw.sh.auth THEN [shadow EXCEPT !.auth = FALSE] ELSE shadow
        /\ bw' = [bw EXCEPT !.sh.auth = FALSE, !.pc = "status"] /\ UNCHANGED <<parent, claim, garage>>
    BY <1>2 DEF ClearShadowBucketReservationAlias
  <2>2. UNCHANGED <<parent, claim, garage>>
    BY <2>1
  <2>3. /\ bw'.pc = "status" /\ bw'.id = bw.id /\ bw'.sh.uid = bw.sh.uid /\ bw'.sh.ann = bw.sh.ann
        /\ bw'.sh.id = bw.sh.id /\ bw'.sh.state = bw.sh.state /\ bw'.sh.retain = bw.sh.retain
        /\ bw'.sh.auth = FALSE
    BY <1>0, <2>1 DEF Workers, Shadows
  <2>4. /\ shadow'.uid = shadow.uid /\ shadow'.del = shadow.del /\ shadow'.fin = shadow.fin
        /\ shadow'.state = shadow.state /\ shadow'.ann = shadow.ann /\ shadow'.id = shadow.id
        /\ shadow'.retain = shadow.retain /\ shadow'.owned = shadow.owned /\ shadow'.gc = shadow.gc
        /\ shadow'.auth = (shadow.auth /\ ~bw.sh.auth)
    BY <1>0, <2>1 DEF Shadows
  <2>5. /\ shadow.uid # 0 => shadow.id = bw.id /\ shadow.ann = bw.id /\ shadow'.auth = FALSE
        /\ shadow.uid = 0 => shadow' = shadow
        /\ bw.id # 0 /\ garage.alias[bw.sh.uid] = 0 /\ shadow.uid \in {0, bw.sh.uid} /\ ~shadow.retain
    BY <1>0, <2>1, <2>4
       DEF Core, Knowledge, ParentKnown, ShadowKnown, BucketKnown, Ensuring, Holding, Binding
  <2>6. ShadowForm' /\ ParentForm'
    BY <2>2, <2>4, <2>5 DEF Core, ShadowForm, ParentForm
  <2>7. Knowledge'
    <3>1. /\ parent.uid # 0 /\ parent.fin /\ bw.sh.uid # 0 /\ bw.sh.ann = bw.id /\ bw.sh.id = bw.id
          /\ bw.sh.state = "Bound" /\ ~bw.sh.retain /\ bw.id # Foreign /\ garage.bucket[bw.id] # "free"
          /\ garage.bucket[bw.id] = "live" => garage.conf[bw.id] /\ garage.alias[Pub] = bw.id
      BY <1>0 DEF Core, Knowledge, ShadowKnown, ParentKnown, BucketKnown, Ensuring, Holding, Binding
    <3>2. ShadowKnown'
      BY <2>3, <2>4, <2>5, <3>1 DEF ShadowKnown
    <3> QED
      BY <2>2, <2>3, <2>4, <2>5, <3>1, <3>2
         DEF Knowledge, ParentKnown, PhaseKnown, BucketKnown, Ensuring, Releasing, Binding
  <2>8. ~Over /\ Provided' = Provided
    BY <1>0, <2>2 DEF Over, Ensuring, Provided, Live
  <2>9. Tracking'
    BY <2>2, <2>4, <2>5, <2>8 DEF Core, Custody, Tracking, Resolves
  <2>10. Aliases' /\ Guarded' /\ Counted' /\ Usable' /\ Spared'
    BY <2>2, <2>4, <2>5, <2>8 DEF Core, Custody, Aliases, Guarded, Counted, Usable, Spared
  <2> QED
    BY <2>6, <2>7, <2>9, <2>10 DEF Core, Custody
<1> QED
  BY <1>1, <1>2

LEMMA PublishBucketStatusKeeps ==
  ASSUME Typed, Core, PublishBucketStatus \/ SyncBoundBucketClaimReady
  PROVE  Core'
<1>0. /\ bw.pc \in {"status", "claim"} /\ parent \in Parents /\ bw \in Workers
  BY DEF PublishBucketStatus, SyncBoundBucketClaimReady, StepBucket, Typed
<1>1. CASE PublishBucketStatus /\ Authoritative(bw.id) /\ ~parent.del
  <2>1. /\ bw.pc = "status" /\ parent' = [parent EXCEPT !.id = bw.id, !.ready = TRUE]
        /\ bw' = [bw EXCEPT !.pc = "claim"] /\ UNCHANGED <<claim, shadow, garage>>
        /\ shadow.uid # 0 /\ bw.id # 0 /\ shadow.ann = bw.id /\ shadow.id = bw.id
    BY <1>1 DEF PublishBucketStatus, StepBucket, GoTo, Authoritative
  <2>2. UNCHANGED <<claim, shadow, garage>> /\ shadow.uid # 0 /\ bw.id # 0 /\ shadow.ann = bw.id
    BY <2>1
  <2>3. bw'.pc = "claim"
    BY <1>0, <2>1 DEF Workers
  <2>4. /\ parent'.uid = parent.uid /\ parent'.del = parent.del /\ parent'.fin = parent.fin
        /\ parent'.policy = parent.policy /\ parent'.id = bw.id
    BY <1>0, <2>1 DEF Parents
  <2>5. /\ parent.uid # 0 /\ parent.fin /\ ~shadow.retain /\ bw.id # Foreign /\ garage.bucket[bw.id] # "free"
        /\ garage.bucket[bw.id] = "live" => garage.conf[bw.id] /\ garage.alias[Pub] = bw.id
    BY <2>1 DEF Core, Knowledge, ParentKnown, BucketKnown, Ensuring, Binding
  <2>6. ShadowForm' /\ ParentForm'
    BY <2>2, <2>4, <2>5 DEF Core, ShadowForm, ParentForm
  <2>7. Knowledge'
    BY <2>2, <2>3, <2>4, <2>5
       DEF Knowledge, ParentKnown, ShadowKnown, PhaseKnown, BucketKnown, Ensuring, Releasing, Holding, Binding
  <2>8. ~Over /\ Provided' = Provided
    BY <2>1 DEF Over, Ensuring, Provided, Live
  <2>9. Tracking' /\ Aliases' /\ Guarded' /\ Spared'
    BY <2>2, <2>4, <2>8 DEF Core, Custody, Tracking, Aliases, Guarded, Spared, Resolves
  <2>10. Counted' /\ Usable'
    BY <2>2, <2>4, <2>5 DEF Core, Custody, Counted, Usable
  <2> QED
    BY <2>6, <2>7, <2>9, <2>10 DEF Core, Custody
<1>2. CASE PublishBucketStatus /\ ~(Authoritative(bw.id) /\ ~parent.del)
  BY <1>0, <1>2, FailLeaves, LeavingKeeps DEF PublishBucketStatus
<1>3. CASE SyncBoundBucketClaimReady
  <2>1. bw.pc = "claim" /\ bw'.pc = "idle" /\ UNCHANGED <<parent, shadow, garage>>
        /\ claim' = [claim EXCEPT !.ready = @ \/ claim.bound]
    BY <1>3 DEF SyncBoundBucketClaimReady, StepBucket, Done, IdleBucket
  <2>2. claim'.ready => claim'.bound
    <3>1. claim \in Claims /\ (claim.ready => claim.bound)
      BY DEF Typed, Core, ParentForm
    <3>2. claim'.bound = claim.bound /\ claim'.ready = (claim.ready \/ claim.bound)
      BY <2>1, <3>1 DEF Claims
    <3> QED
      BY <3>1, <3>2
  <2>3. ShadowForm' /\ ParentForm'
    BY <2>1, <2>2 DEF Core, ShadowForm, ParentForm
  <2>4. Knowledge'
    BY <2>1 DEF Knowledge, ParentKnown, ShadowKnown, PhaseKnown, BucketKnown, Ensuring, Releasing, Holding, Binding
  <2>5. ~Over /\ Provided' = Provided
    BY <2>1 DEF Over, Ensuring, Provided, Live
  <2>6. Custody'
    BY <2>1, <2>5
       DEF Core, Custody, Tracking, Aliases, Guarded, Counted, Usable, Spared, Resolves
  <2> QED
    BY <2>3, <2>4, <2>6 DEF Core
<1> QED
  BY <1>1, <1>2, <1>3

-----------------------------------------------------------------------------
(* Reservations that are given up.                                         *)

\* A reservation that is given up stands for no bucket.
LEMMA NothingIsHeld ==
  ASSUME Core, bw.pc \in {"stale", "reject", "staleDelete", "staleStatus"}, shadow.uid # 0
  PROVE  Provided = {}
<1>1. ~Over
  BY DEF Over, Ensuring
<1>2. /\ shadow.id = bw.sh.id /\ shadow.auth = bw.sh.auth
      /\ IF bw.sh.id = 0 THEN bw.sh.auth = FALSE ELSE garage.bucket[bw.sh.id] # "live"
  BY DEF Core, Knowledge, ShadowKnown, PhaseKnown, Ensuring, Holding
<1>3. \A b \in Provided : Resolves(b) /\ b # 0 /\ garage.bucket[b] = "live"
  BY <1>1 DEF Core, Custody, Tracking, Provided, Live
<1> QED
  BY <1>2, <1>3 DEF Resolves

\* Where there is no bucket there is nothing to keep.
LEMMA VacantKeeps ==
  ASSUME Provided' = {}, \A u \in 1..MaxUID : garage'.alias[u] = 0
  PROVE  Tracking' /\ Aliases' /\ Guarded' /\ Spared'
  BY DEF Tracking, Aliases, Guarded, Spared

\* Deleting an object marks it, or it is gone if nothing holds it back.
Marked ==
  /\ shadow'.uid = shadow.uid /\ shadow'.del /\ shadow'.fin = shadow.fin /\ shadow'.state = shadow.state
  /\ shadow'.auth = shadow.auth /\ shadow'.ann = shadow.ann /\ shadow'.id = shadow.id
  /\ shadow'.retain = shadow.retain /\ shadow'.owned = shadow.owned
LEMMA RemovalForm ==
  ASSUME shadow \in Shadows, shadow' = Remove(shadow)
  PROVE  \/ ~shadow.fin /\ shadow' = NoShadow
         \/ shadow.fin /\ Marked /\ shadow'.gc = shadow.gc
  BY DEF Remove, Marked, Shadows
LEMMA RequestForm ==
  ASSUME shadow \in Shadows, shadow' = RequestDeleteShadow(shadow)
  PROVE  \/ (shadow.uid = 0 \/ shadow.del) /\ shadow' = shadow
         \/ shadow.uid # 0 /\ ~shadow.del /\ ~shadow.fin /\ shadow' = NoShadow
         \/ shadow.uid # 0 /\ ~shadow.del /\ shadow.fin /\ Marked /\ shadow'.gc = shadow.gc
  BY RemovalForm DEF RequestDeleteShadow

\* A shadow that is stripped of its finalizer is otherwise the same, or it
\* was being deleted and is gone.
StrippedOf(fin) ==
  /\ shadow'.uid = shadow.uid /\ shadow'.del = shadow.del /\ shadow'.fin = fin /\ shadow'.state = shadow.state
  /\ shadow'.auth = shadow.auth /\ shadow'.ann = shadow.ann /\ shadow'.id = shadow.id
  /\ shadow'.retain = shadow.retain /\ shadow'.owned = shadow.owned /\ shadow'.gc = shadow.gc
LEMMA StripForm ==
  ASSUME shadow \in Shadows, shadow' = Strip(shadow)
  PROVE  (shadow.del /\ shadow' = NoShadow) \/ (~shadow.del /\ StrippedOf(FALSE))
  BY DEF Strip, StrippedOf, Shadows

LEMMA StripKeeps ==
  ASSUME Typed, Core, StripStale \/ StripRejected
  PROVE  Core'
<1>0. bw.pc \in {"stale", "reject"} /\ bw \in Workers /\ shadow \in Shadows
  BY DEF StripStale, StripRejected, DeleteShadowSteps, StepBucket, Typed
<1>1. /\ shadow' = IF shadow.uid = bw.sh.uid THEN Strip(shadow) ELSE shadow
      /\ bw' = [bw EXCEPT !.pc = "staleDelete"] /\ UNCHANGED <<parent, claim, garage>>
  BY DEF StripStale, StripRejected, DeleteShadowSteps, GoTo
<1>2. UNCHANGED <<parent, claim, garage>>
  BY <1>1
<1>3. WorkerMoves("staleDelete")
  BY <1>0, <1>1 DEF Workers, WorkerMoves
<1>5. /\ ~Over /\ Provided' = Provided /\ bw.sh.uid # 0 /\ ~shadow.retain /\ parent.uid # 0 /\ parent.fin
      /\ shadow.uid \in {0, bw.sh.uid}
      /\ bw.pc = "reject" => shadow.uid # 0 /\ ~shadow.del
  BY <1>0, <1>2 DEF Over, Ensuring, Provided, Live, Core, Knowledge, ParentKnown, ShadowKnown, PhaseKnown, Holding
<1>6. shadow.uid # 0 => Provided = {}
  BY <1>0, NothingIsHeld
<1>7. CASE shadow.uid = 0
  <2>1. shadow' = shadow
    BY <1>1, <1>5, <1>7
  <2>2. ShadowForm' /\ ParentForm'
    BY <1>2, <2>1 DEF Core, ShadowForm, ParentForm
  <2>3. Knowledge'
    BY <1>0, <1>2, <1>3, <2>1
       DEF WorkerMoves, Core, Knowledge, ParentKnown, ShadowKnown, PhaseKnown, BucketKnown,
           Ensuring, Releasing, Holding, Binding
  <2>4. Custody'
    BY <1>2, <1>5, <2>1
       DEF Core, Custody, Tracking, Aliases, Guarded, Counted, Usable, Spared, Resolves
  <2> QED
    BY <2>2, <2>3, <2>4 DEF Core
<1>8. CASE shadow.uid # 0
  <2>1. \/ shadow' = NoShadow /\ bw.pc # "reject"
        \/ StrippedOf(FALSE)
    BY <1>0, <1>1, <1>5, <1>8, StripForm
  <2>2. ShadowForm' /\ ParentForm'
    BY <1>2, <1>5, <1>8, <2>1 DEF StrippedOf, Core, ShadowForm, ParentForm, NoShadow, Foreign
  <2>3. Knowledge'
    <3>1. CASE StrippedOf(FALSE)
      BY <1>0, <1>2, <1>3, <3>1
         DEF StrippedOf, WorkerMoves, Core, Knowledge, ParentKnown, ShadowKnown, PhaseKnown, BucketKnown,
             Ensuring, Releasing, Holding, Binding
    <3>2. CASE shadow' = NoShadow /\ bw.pc # "reject"
      <4>1. /\ shadow'.uid = 0 /\ ~shadow'.retain /\ bw.pc = "stale"
        BY <1>0, <3>2 DEF NoShadow
      <4> QED
        BY <1>2, <1>3, <4>1
           DEF WorkerMoves, Core, Knowledge, ParentKnown, ShadowKnown, PhaseKnown, BucketKnown,
               Ensuring, Releasing, Holding, Binding
    <3> QED
      BY <2>1, <3>1, <3>2
  <2>4. \A u \in 1..MaxUID : garage'.alias[u] = 0
    BY <1>2, <1>5, <1>6, <1>8 DEF Core, Custody, Aliases
  <2>5. Counted' /\ Usable'
    BY <1>2, <2>1 DEF StrippedOf, Core, Custody, Counted, Usable, NoShadow
  <2> QED
    BY <1>5, <1>6, <1>8, <2>2, <2>3, <2>4, <2>5, VacantKeeps DEF Core, Custody
<1> QED
  BY <1>7, <1>8

LEMMA DropReservationKeeps ==
  ASSUME Typed, Core, DropReservation
  PROVE  Core'
<1>0. bw.pc = "staleDelete" /\ bw \in Workers /\ shadow \in Shadows /\ parent \in Parents /\ garage \in Garages
  BY DEF DropReservation, StepBucket, Typed
<1> DEFINE gone == Tracked = 0 /\ ~bw.sh.auth /\ shadow.uid = bw.sh.uid
<1>1. /\ shadow' = IF shadow.uid = bw.sh.uid THEN Remove(shadow) ELSE shadow
      /\ garage' = [garage EXCEPT !.uids = IF gone THEN @ - 1 ELSE @]
      /\ bw'.pc = "idle" /\ claim' = claim /\ ParentKept
  BY <1>0, UnpublishKeeps DEF DropReservation, Done, IdleBucket
<1>2. bw'.pc = "idle" /\ claim' = claim /\ ParentKept
  BY <1>1
<1>3. /\ garage'.bucket = garage.bucket /\ garage'.conf = garage.conf /\ garage'.alias = garage.alias
      /\ garage'.uids = IF gone THEN garage.uids - 1 ELSE garage.uids
  BY <1>0, <1>1 DEF Garages
<1>4. /\ bw.sh.uid # 0 /\ shadow.uid \in {0, bw.sh.uid} /\ ~shadow.retain
      /\ shadow.uid # 0 => shadow.ann = bw.sh.ann /\ shadow.id = bw.sh.id /\ shadow.auth = bw.sh.auth
      /\ bw.sh.ann = 0 => shadow.uid # 0 /\ ~shadow.del /\ bw.sh.id = 0 /\ ~bw.sh.auth
      /\ parent.uid # 0 /\ parent.fin
  BY <1>0 DEF Core, Knowledge, ParentKnown, ShadowKnown, PhaseKnown, Ensuring, Holding
<1>5. gone <=> shadow.uid # 0 /\ shadow.ann = 0
  BY <1>4 DEF Tracked
<1> HIDE DEF gone
<1>6. Provided' = Provided /\ ~Over
  BY <1>0, <1>3 DEF Provided, Live, Over, Ensuring
<1>7. Knowledge'
  BY <1>2 DEF Knowledge, ParentKnown, ShadowKnown, PhaseKnown, BucketKnown, Ensuring, Releasing, Holding, Binding
<1>8. CASE shadow.uid = 0
  <2>1. Leaves
    <3>1. garage' = garage
      <4>1. ~gone
        BY <1>5, <1>8
      <4> QED
        BY <1>0, <1>1, <4>1 DEF Garages
    <3> QED
      BY <1>1, <1>4, <1>8, <3>1 DEF Leaves
  <2> QED
    BY <2>1, LeavingKeeps
<1>9. CASE shadow.uid # 0
  <2>1. Provided = {}
    BY <1>0, <1>9, NothingIsHeld
  <2>2. \A u \in 1..MaxUID : garage'.alias[u] = 0
    BY <1>3, <2>1 DEF Core, Custody, Aliases
  <2>3. \/ shadow' = NoShadow
        \/ Marked /\ shadow'.gc = shadow.gc
    BY <1>0, <1>1, <1>4, <1>9, RemovalForm
  <2>4. ShadowForm' /\ ParentForm'
    BY <1>2, <1>4, <1>9, <2>3 DEF Core, ShadowForm, ParentForm, ParentKept, Marked, NoShadow, Foreign
  <2>5. Usable'
    BY <1>2, <1>3 DEF Core, Custody, Usable, ParentKept
  <2>6. Counted'
    <3>1. garage.uids \in Nat
      BY <1>0, CosiBucketAssumption DEF Garages
    <3>2. CASE gone
      BY <1>2, <1>3, <1>4, <1>5, <1>9, <2>3, <3>1, <3>2 DEF Core, Custody, Counted, ParentKept, Marked, NoShadow
    <3>3. CASE ~gone
      BY <1>2, <1>3, <1>4, <1>5, <1>9, <2>3, <3>1, <3>3 DEF Core, Custody, Counted, ParentKept, Marked, NoShadow
    <3> QED
      BY <3>2, <3>3
  <2> QED
    BY <1>6, <1>7, <2>1, <2>2, <2>4, <2>5, <2>6, VacantKeeps DEF Core, Custody
<1> QED
  BY <1>8, <1>9

LEMMA DropStatusTrackedKeeps ==
  ASSUME Typed, Core, DropStatusTracked
  PROVE  Core'
<1>0. bw.pc = "staleStatus" /\ bw \in Workers /\ shadow \in Shadows /\ parent \in Parents
  BY DEF DropStatusTracked, StepBucket, Typed
<1>1. /\ shadow' = RequestDeleteShadow(shadow) /\ UNCHANGED <<claim, garage>>
      /\ bw'.pc = "idle" /\ ParentKept
  BY <1>0, UnpublishKeeps DEF DropStatusTracked, Done, IdleBucket
<1>2. bw'.pc = "idle" /\ UNCHANGED <<claim, garage>> /\ ParentKept
  BY <1>1
<1>3. shadow.uid # 0 /\ ~shadow.del /\ ~shadow.retain /\ parent.uid # 0 /\ parent.fin
  BY <1>0 DEF Core, Knowledge, ParentKnown, ShadowKnown, PhaseKnown, Ensuring, Holding
<1>4. Provided = {} /\ Provided' = Provided
  BY <1>0, <1>2, <1>3, NothingIsHeld DEF Provided, Live
<1>5. \A u \in 1..MaxUID : garage'.alias[u] = 0
  BY <1>2, <1>4 DEF Core, Custody, Aliases
<1>6. \/ shadow' = NoShadow
      \/ Marked /\ shadow'.gc = shadow.gc
  BY <1>0, <1>1, <1>3, RequestForm
<1>7. ShadowForm' /\ ParentForm'
  BY <1>2, <1>3, <1>6 DEF Core, ShadowForm, ParentForm, ParentKept, Marked, NoShadow, Foreign
<1>8. Knowledge'
  BY <1>2 DEF Knowledge, ParentKnown, ShadowKnown, PhaseKnown, BucketKnown, Ensuring, Releasing, Holding, Binding
<1>9. Counted' /\ Usable'
  BY <1>2, <1>3, <1>6 DEF Core, Custody, Counted, Usable, ParentKept, Marked, NoShadow
<1> QED
  BY <1>4, <1>5, <1>7, <1>8, <1>9, VacantKeeps DEF Core, Custody

-----------------------------------------------------------------------------
(* Deletion.                                                               *)

\* The Bucket is released: only its policy is remembered.
LEMMA ReleaseForm ==
  ASSUME parent \in Parents, ReleaseParent
  PROVE  /\ parent'.uid = 0 /\ ~parent'.del /\ ~parent'.fin /\ parent'.id = 0 /\ ~parent'.ready
         /\ parent'.policy = parent.policy /\ parent' \in Parents
         /\ bw' = IdleBucket /\ bw'.pc = "idle"
  BY DEF ReleaseParent, NoParent, Parents, IDs, Done, IdleBucket

LEMMA CancelBucketProvisioningKeeps ==
  ASSUME Typed, Core, CancelBucketProvisioning
  PROVE  Core'
<1>0. bw.pc = "cancel" /\ bw \in Workers /\ shadow \in Shadows /\ parent \in Parents
  BY DEF CancelBucketProvisioning, StepBucket, Typed
<1>1. UNCHANGED <<claim, garage>> /\ parent.uid # 0 /\ parent.del /\ parent.policy = "Delete" /\ ~Over /\ ~shadow.retain
  BY <1>0 DEF CancelBucketProvisioning, Core, ShadowForm, Knowledge, ParentKnown, Releasing, Over
<1>2. bw'.pc = "idle"
  BY <1>0, ReleaseForm DEF CancelBucketProvisioning, Done, IdleBucket
<1>3. Knowledge'
  BY <1>2 DEF Knowledge, ParentKnown, ShadowKnown, PhaseKnown, BucketKnown, Ensuring, Releasing, Holding, Binding
<1>4. Provided' = Provided
  BY <1>1 DEF Provided, Live
<1>5. CASE shadow.uid = 0
  <2>1. shadow' = shadow /\ ReleaseParent
    BY <1>5 DEF CancelBucketProvisioning
  <2>2. shadow' = shadow /\ parent'.uid = 0 /\ ~parent'.fin /\ ~parent'.del /\ parent'.id = 0 /\ ~parent'.ready
    BY <1>0, <2>1, ReleaseForm
  <2>3. Provided = {}
    BY <1>1, <1>5 DEF Core, Custody, Tracking, Resolves
  <2>4. \A u \in 1..MaxUID : garage'.alias[u] = 0
    BY <1>1, <2>3 DEF Core, Custody, Aliases
  <2>5. ShadowForm' /\ ParentForm'
    <3>1. shadow' = NoShadow /\ claim' = claim
      BY <1>1, <1>5, <2>2 DEF Core, ShadowForm
    <3> QED
      BY <2>2, <3>1 DEF Core, ShadowForm, ParentForm, NoShadow, Foreign
  <2>6. Counted' /\ Usable'
    BY <1>1, <1>5, <2>2 DEF Core, Custody, Counted, Usable
  <2> QED
    BY <1>3, <1>4, <2>3, <2>4, <2>5, <2>6, VacantKeeps DEF Core, Custody
<1>6. CASE shadow.uid # 0
  <2>1. shadow' = RequestDeleteShadow(shadow) /\ parent' = parent
    BY <1>6 DEF CancelBucketProvisioning
  <2>2. \/ shadow' = shadow
        \/ ~shadow.fin /\ shadow' = NoShadow
        \/ Marked /\ shadow'.gc = shadow.gc
    BY <1>0, <2>1, RequestForm
  <2>3. parent' = parent
    BY <2>1
  <2>4. ShadowForm' /\ ParentForm'
    BY <1>1, <1>6, <2>2, <2>3 DEF Core, ShadowForm, ParentForm, Marked, NoShadow, Foreign
  <2>5. Counted' /\ Usable'
    BY <1>1, <1>6, <2>2, <2>3 DEF Core, Custody, Counted, Usable, Marked, NoShadow
  <2>g. Guarded' /\ Spared'
    BY <1>1, <1>4, <2>2, <2>3 DEF Core, Custody, Guarded, Spared, Marked, NoShadow
  <2>6. Tracking' /\ Aliases'
    <3>1. CASE shadow'.uid = shadow.uid /\ shadow'.id = shadow.id /\ shadow'.auth = shadow.auth /\ shadow'.retain = shadow.retain
      BY <1>1, <1>4, <3>1 DEF Core, Custody, Tracking, Aliases, Resolves
    <3>2. CASE ~shadow.fin
      BY <1>1, <1>4, <1>6, <3>2 DEF Core, Custody, Tracking, Aliases, Guarded
    <3> QED
      BY <2>2, <3>1, <3>2 DEF Marked
  <2> QED
    BY <1>3, <2>4, <2>5, <2>g, <2>6 DEF Core, Custody
<1> QED
  BY <1>5, <1>6

LEMMA ForgetShadowBucketKeeps ==
  ASSUME Typed, Core, ForgetShadowBucket
  PROVE  Core'
<1>0. bw.pc = "forget" /\ bw \in Workers /\ shadow \in Shadows /\ parent \in Parents
  BY DEF ForgetShadowBucket, StepBucket, Typed
<1>1. /\ UNCHANGED <<claim, garage>> /\ parent.uid # 0 /\ parent.del /\ parent.policy = "Retain"
      /\ bw.know = parent.id /\ parent.id # Foreign
  BY <1>0 DEF ForgetShadowBucket, Core, ParentForm, Knowledge, ParentKnown, Releasing
<1>2. Provided' = Provided
  BY <1>1 DEF Provided, Live
<1>3. CASE shadow.uid = 0
  <2>1. shadow' = shadow /\ ReleaseParent
    BY <1>3 DEF ForgetShadowBucket
  <2>2. /\ shadow' = shadow /\ parent'.uid = 0 /\ ~parent'.fin /\ ~parent'.del /\ parent'.id = 0 /\ ~parent'.ready
        /\ parent'.policy = "Retain" /\ bw'.pc = "idle"
    BY <1>0, <1>1, <2>1, ReleaseForm
  <2>3. ShadowForm' /\ ParentForm'
    BY <1>1, <1>3, <2>2 DEF Core, ShadowForm, ParentForm, NoShadow
  <2>4. Knowledge'
    BY <2>2 DEF Knowledge, ParentKnown, ShadowKnown, PhaseKnown, BucketKnown, Ensuring, Releasing, Holding, Binding
  <2>5. Over'
    BY <1>3, <2>2 DEF Over, Ensuring
  <2>6. Custody'
    BY <1>1, <1>2, <1>3, <2>2, <2>5 DEF Core, Custody, Tracking, Aliases, Guarded, Counted, Usable, Spared
  <2> QED
    BY <2>3, <2>4, <2>6 DEF Core
<1>4. CASE shadow.uid # 0 /\ bw.know # 0 /\ (shadow.ann \notin {0, bw.know} \/ shadow.id \notin {0, bw.know})
  <2>1. Leaves
    BY <1>0, <1>1, <1>4, UnpublishKeeps DEF ForgetShadowBucket, Done, IdleBucket, Leaves
  <2> QED
    BY <2>1, LeavingKeeps
<1>5. CASE shadow.uid # 0 /\ ~(bw.know # 0 /\ (shadow.ann \notin {0, bw.know} \/ shadow.id \notin {0, bw.know}))
  <2>1. /\ shadow' = [shadow EXCEPT !.id = IF @ = 0 THEN bw.know ELSE @, !.retain = TRUE]
        /\ bw' = [bw EXCEPT !.pc = "forgetDelete"] /\ parent' = parent
    BY <1>5 DEF ForgetShadowBucket, GoTo
  <2>2. WorkerMoves("forgetDelete") /\ parent' = parent
    BY <1>0, <2>1 DEF Workers, WorkerMoves
  <2>3. /\ shadow'.uid = shadow.uid /\ shadow'.del = shadow.del /\ shadow'.fin = shadow.fin
        /\ shadow'.state = shadow.state /\ shadow'.auth = shadow.auth /\ shadow'.ann = shadow.ann
        /\ shadow'.id = (IF shadow.id = 0 THEN bw.know ELSE shadow.id)
        /\ shadow'.retain = TRUE /\ shadow'.owned = shadow.owned /\ shadow'.gc = shadow.gc
    BY <1>0, <2>1 DEF Shadows
  <2>4. ShadowForm' /\ ParentForm'
    BY <1>1, <1>5, <2>2, <2>3 DEF Core, ShadowForm, ParentForm
  <2>5. Knowledge'
    BY <1>1, <2>2, <2>3
       DEF WorkerMoves, Knowledge, ParentKnown, ShadowKnown, PhaseKnown, BucketKnown, Ensuring, Releasing, Holding, Binding
  <2>6. Over'
    BY <1>1, <2>2, <2>3 DEF Over, Ensuring, WorkerMoves
  <2>7. Tracking' /\ Aliases' /\ Guarded' /\ Usable' /\ Spared'
    BY <1>1, <1>2, <2>2, <2>3, <2>6 DEF Core, Custody, Tracking, Aliases, Guarded, Usable, Spared
  <2>8. Counted'
    BY <1>1, <1>5, <2>2, <2>3 DEF Core, Custody, Counted
  <2> QED
    BY <2>4, <2>5, <2>7, <2>8 DEF Core, Custody
<1> QED
  BY <1>3, <1>4, <1>5

LEMMA DeleteRetainedShadowKeeps ==
  ASSUME Typed, Core, DeleteRetainedShadow
  PROVE  Core'
<1>0. bw.pc = "forgetDelete" /\ bw \in Workers /\ shadow \in Shadows /\ parent \in Parents
  BY DEF DeleteRetainedShadow, StepBucket, Typed
<1>1. /\ UNCHANGED <<parent, claim, garage>> /\ bw'.pc = "idle" /\ shadow' = RequestDeleteShadow(shadow)
  BY DEF DeleteRetainedShadow, Done, IdleBucket
<1>2. UNCHANGED <<parent, claim, garage>> /\ bw'.pc = "idle"
  BY <1>1
<1>3. parent.uid # 0 /\ parent.del /\ parent.policy = "Retain" /\ (shadow.uid = 0 \/ shadow.retain)
  BY <1>0 DEF Core, Knowledge, ParentKnown, Releasing
<1>4. \/ shadow' = shadow
      \/ ~shadow.fin /\ shadow' = NoShadow
      \/ Marked /\ shadow'.gc = shadow.gc /\ shadow.uid # 0
  BY <1>0, <1>1, RequestForm
<1>5. Over' /\ Provided' = Provided
  BY <1>2, <1>3, <1>4 DEF Over, Ensuring, Provided, Live, Marked, NoShadow
<1>6. ShadowForm' /\ ParentForm'
  BY <1>2, <1>3, <1>4 DEF Core, ShadowForm, ParentForm, Marked, NoShadow, Foreign
<1>7. Knowledge'
  BY <1>2 DEF Knowledge, ParentKnown, ShadowKnown, PhaseKnown, BucketKnown, Ensuring, Releasing, Holding, Binding
<1>8. Tracking' /\ Aliases' /\ Guarded' /\ Usable' /\ Spared'
  BY <1>2, <1>3, <1>4, <1>5 DEF Core, Custody, Tracking, Aliases, Guarded, Usable, Spared, Marked, NoShadow
<1>9. Counted'
  BY <1>2, <1>4 DEF Core, Custody, Counted, Marked, NoShadow
<1> QED
  BY <1>6, <1>7, <1>8, <1>9 DEF Core, Custody

\* Deleting a bucket leaves no bucket of the driver's, and no private alias.
Emptied(b) ==
  /\ garage'.bucket[b] = "deleted" /\ \A i \in BucketId \ {b} : garage'.bucket[i] = garage.bucket[i]
  /\ garage'.conf = garage.conf /\ garage'.uids = garage.uids
  /\ \A a \in Alias : garage'.alias[a] = IF garage.alias[a] = b THEN 0 ELSE garage.alias[a]
LEMMA DeletionEmpties ==
  ASSUME Typed, Core, NEW b \in Provided, garage' = DeleteBucket(garage, b)
  PROVE  /\ Emptied(b) /\ Provided' = {} /\ \A u \in 1..MaxUID : garage'.alias[u] = 0
         /\ parent' = parent => Usable'
<1>0. garage \in Garages /\ b \in BucketId
  BY DEF Typed, Provided
<1>1. /\ garage'.bucket = [garage.bucket EXCEPT ![b] = "deleted"]
      /\ garage'.alias = [a \in DOMAIN garage.alias |-> IF garage.alias[a] = b THEN 0 ELSE garage.alias[a]]
      /\ garage'.conf = garage.conf /\ garage'.uids = garage.uids
  BY <1>0 DEF DeleteBucket, Garages
<1>2. Emptied(b)
  BY <1>0, <1>1 DEF Emptied, Garages
<1>3. Provided' = {}
  BY <1>2 DEF Emptied, Provided, Live, Core, Custody, Tracking
<1>4. \A u \in 1..MaxUID : garage'.alias[u] = 0
  <2>1. \A u \in 1..MaxUID : u \in Alias /\ garage.alias[u] \in {0, b}
    BY DEF Alias, Rsv, Core, Custody, Aliases, Tracking
  <2> QED
    BY <1>2, <2>1 DEF Emptied
<1>5. ASSUME parent' = parent PROVE Usable'
  <2>1. parent.id # 0 => parent.id \in BucketId \ {Foreign} /\ garage.bucket[parent.id] # "free"
    BY DEF Typed, Parents, IDs, Core, ParentForm, Custody, Usable
  <2>2. parent.id # 0 => garage'.bucket[parent.id] # "live"
    BY <1>3, <2>1 DEF Provided, Live
  <2>3. parent.id # 0 => garage'.bucket[parent.id] # "free"
    BY <1>2, <2>1 DEF Emptied
  <2> QED
    BY <1>5, <2>2, <2>3 DEF Usable
<1> QED
  BY <1>2, <1>3, <1>4, <1>5

\* What a reconcile knows of buckets stays true when one is deleted.
LEMMA DeletionIsKnown ==
  ASSUME Typed, Core, NEW b \in BucketId, Emptied(b), bw' = bw
  PROVE  PhaseKnown' /\ BucketKnown'
<1>0. /\ bw \in Workers /\ bw.sh \in Shadows /\ garage \in Garages
      /\ bw.pc \in Holding => bw.sh.uid \in 1..MaxUID
  BY CosiBucketAssumption DEF Typed, Workers, Shadows, ShadowUID, Core, Knowledge, ShadowKnown
<1>1. \A i \in BucketId : /\ garage.bucket[i] # "live" => garage'.bucket[i] # "live"
                          /\ garage.bucket[i] # "free" => garage'.bucket[i] # "free"
                          /\ garage'.bucket[i] = "live" => garage.bucket[i] = "live" /\ i # b
  BY DEF Emptied
<1>2. /\ bw.sh.ann # 0 => bw.sh.ann \in BucketId
      /\ bw.sh.id # 0 => bw.sh.id \in BucketId
      /\ bw.id # 0 => bw.id \in BucketId
  BY <1>0 DEF Workers, Shadows, IDs
<1>3. PhaseKnown'
  BY <1>1, <1>2 DEF Core, Knowledge, PhaseKnown
<1>4. BucketKnown'
  <2>1. bw.pc \in Holding => garage'.alias[bw.sh.uid] \in {0, garage.alias[bw.sh.uid]}
    BY <1>0 DEF Emptied, Alias, Rsv
  <2>2. \A i \in BucketId : i # b /\ garage.alias[Pub] = i => garage'.alias[Pub] = i
    BY DEF Emptied, Alias, Pub
  <2>3. bw.pc \in Binding => bw.pc \in Holding /\ bw.id \in BucketId
    BY <1>2 DEF Binding, Holding, Ensuring, Core, Knowledge, BucketKnown
  <2>4. garage'.conf = garage.conf
    BY DEF Emptied
  <2> QED
    BY <1>1, <2>1, <2>2, <2>3, <2>4 DEF Core, Knowledge, BucketKnown, Binding
<1> QED
  BY <1>3, <1>4

LEMMA DeleteRemoteBucketKeeps ==
  ASSUME Typed, Core, DeleteRemoteBucket
  PROVE  Core'
<1>0. bw.pc = "delete" /\ bw \in Workers /\ garage \in Garages /\ parent \in Parents
  BY DEF DeleteRemoteBucket, StepBucket, Typed
<1>1. /\ UNCHANGED <<claim, shadow>> /\ parent.uid # 0 /\ parent.del /\ parent.policy = "Delete" /\ ~Over
      /\ bw.know = parent.id /\ parent.id # 0 /\ parent.id # Foreign
  BY <1>0 DEF DeleteRemoteBucket, Core, ParentForm, Knowledge, ParentKnown, Releasing, Over
<1>2. CASE Unpublish /\ Done /\ garage' = garage
  <2>1. Leaves
    BY <1>0, <1>1, <1>2, UnpublishKeeps DEF Done, IdleBucket, Leaves
  <2> QED
    BY <2>1, LeavingKeeps
<1>3. CASE ~(Unpublish /\ Done /\ garage' = garage)
  <2>1. /\ garage' = (IF Live(garage, bw.know) THEN DeleteBucket(garage, bw.know) ELSE garage)
        /\ bw' = [bw EXCEPT !.pc = "deleteShadow"] /\ parent' = parent
    BY <1>3 DEF DeleteRemoteBucket, GoTo
  <2>2. bw'.pc = "deleteShadow" /\ bw'.know = bw.know /\ UNCHANGED <<parent, claim, shadow>>
    BY <1>0, <1>1, <2>1 DEF Workers
  <2>3. bw.know \in BucketId /\ parent.id \in BucketId
    BY <1>0, <1>1 DEF Workers, IDs
  <2>4. ShadowForm' /\ ParentForm'
    BY <2>2 DEF Core, ShadowForm, ParentForm
  <2>5. /\ garage'.bucket[bw.know] # "live"
        /\ Tracking' /\ Aliases' /\ Guarded' /\ Spared' /\ Usable' /\ garage'.uids = garage.uids
    <3>1. CASE Live(garage, bw.know)
      <4>1. bw.know \in Provided
        BY <1>1, <2>3, <3>1 DEF Provided
      <4>2. garage' = DeleteBucket(garage, bw.know)
        BY <2>1, <3>1
      <4> QED
        BY <2>2, <4>1, <4>2, DeletionEmpties, VacantKeeps DEF Emptied
    <3>2. CASE ~Live(garage, bw.know)
      <4>1. garage' = garage /\ garage.bucket[bw.know] # "live"
        BY <1>1, <2>1, <3>2 DEF Live
      <4>3. Provided' = Provided
        BY <4>1 DEF Provided, Live
      <4> QED
        BY <1>1, <2>2, <4>1, <4>3
           DEF Core, Custody, Tracking, Aliases, Guarded, Spared, Usable, Resolves
    <3> QED
      BY <3>1, <3>2
  <2>6. Knowledge'
    BY <1>1, <2>2, <2>5
       DEF Knowledge, ParentKnown, ShadowKnown, PhaseKnown, BucketKnown, Ensuring, Releasing, Holding, Binding
  <2>7. Counted'
    BY <2>2, <2>5 DEF Core, Custody, Counted
  <2> QED
    BY <2>4, <2>5, <2>6, <2>7 DEF Core, Custody
<1> QED
  BY <1>2, <1>3

LEMMA DeleteShadowBucketByIDKeeps ==
  ASSUME Typed, Core, DeleteShadowBucketByID
  PROVE  Core'
<1>0. bw.pc = "deleteShadow" /\ bw \in Workers /\ parent \in Parents /\ shadow \in Shadows
  BY DEF DeleteShadowBucketByID, StepBucket, Typed
<1>1. /\ UNCHANGED <<claim, garage>> /\ parent.uid # 0 /\ parent.del /\ parent.policy = "Delete" /\ ~Over
      /\ bw.know = parent.id /\ parent.id # 0 /\ garage.bucket[bw.know] # "live" /\ ~shadow.retain
  BY <1>0 DEF DeleteShadowBucketByID, Core, ShadowForm, Knowledge, ParentKnown, Releasing, Over
<1>2. Provided' = Provided
  BY <1>1 DEF Provided, Live
<1>3. CASE Authoritative(bw.know)
  <2>1. shadow' = Strip(shadow) /\ bw' = [bw EXCEPT !.pc = "dropShadow", !.sh = shadow] /\ parent' = parent
    BY <1>3 DEF DeleteShadowBucketByID
  <2>2. /\ bw'.pc = "dropShadow" /\ bw'.sh = shadow /\ bw'.id = bw.id /\ bw'.know = bw.know
        /\ parent' = parent /\ shadow.uid # 0
    BY <1>0, <1>3, <2>1 DEF Workers, Authoritative
  <2>3. \/ shadow' = NoShadow
        \/ StrippedOf(FALSE)
    BY <1>0, <2>1, StripForm
  <2>4. Provided = {}
    BY <1>1, <1>3 DEF Authoritative, Core, Custody, Tracking, Resolves, Provided, Live
  <2>5. \A u \in 1..MaxUID : garage'.alias[u] = 0
    BY <1>1, <2>4 DEF Core, Custody, Aliases
  <2>6. ShadowForm' /\ ParentForm'
    BY <1>1, <2>2, <2>3 DEF StrippedOf, Core, ShadowForm, ParentForm, NoShadow, Foreign
  <2>7. Knowledge'
    <3>1. shadow'.uid \in {0, shadow.uid} /\ ~shadow'.retain
      BY <1>1, <2>3 DEF StrippedOf, NoShadow
    <3> QED
      BY <1>1, <2>2, <3>1
         DEF Knowledge, ParentKnown, ShadowKnown, PhaseKnown, BucketKnown, Ensuring, Releasing, Holding, Binding
  <2>8. Counted' /\ Usable'
    BY <1>1, <2>2, <2>3 DEF StrippedOf, NoShadow, Core, Custody, Counted, Usable
  <2> QED
    BY <1>2, <2>4, <2>5, <2>6, <2>7, <2>8, VacantKeeps DEF Core, Custody
<1>4. CASE ~Authoritative(bw.know) /\ Claimed(bw.know)
  <2>1. Leaves
    BY <1>0, <1>1, <1>4, UnpublishKeeps DEF DeleteShadowBucketByID, Done, IdleBucket, Leaves
  <2> QED
    BY <2>1, LeavingKeeps
<1>5. CASE ~Authoritative(bw.know) /\ ~Claimed(bw.know)
  <2>1. bw' = [bw EXCEPT !.pc = "release"] /\ UNCHANGED <<parent, shadow>>
    BY <1>5 DEF DeleteShadowBucketByID, GoTo
  <2>2. WorkerMoves("release") /\ UNCHANGED <<parent, shadow>>
    BY <1>0, <2>1 DEF Workers, WorkerMoves
  <2>3. shadow.uid # 1
    BY <1>1, <1>5 DEF Claimed, Core, Custody, Counted
  <2>4. Knowledge'
    BY <1>1, <2>2, <2>3
       DEF WorkerMoves, Knowledge, ParentKnown, ShadowKnown, PhaseKnown, BucketKnown, Ensuring, Releasing, Holding, Binding
  <2> QED
    BY <1>1, <2>2, <2>4, MovingKeeps DEF Core, Ensuring, WorkerMoves
<1> QED
  BY <1>3, <1>4, <1>5

\* The shadow of a bucket that is gone stands for none.
LEMMA DeletedStandsForNone ==
  ASSUME Core, bw.pc \in {"dropShadow", "release"}, shadow.uid = 1
  PROVE  Provided = {}
<1>1. /\ bw.know = parent.id /\ parent.id # 0 /\ garage.bucket[bw.know] # "live" /\ parent.policy = "Delete"
      /\ shadow.ann = parent.id /\ shadow.id = shadow.ann
  BY DEF Core, ShadowForm, Knowledge, ParentKnown, Releasing, Custody, Counted
<1>2. \A b \in Provided : Resolves(b) /\ garage.bucket[b] = "live"
  BY <1>1 DEF Over, Core, Custody, Tracking, Provided, Live
<1> QED
  BY <1>1, <1>2 DEF Resolves

LEMMA DropShadowKeeps ==
  ASSUME Typed, Core, DropShadow
  PROVE  Core'
<1>0. bw.pc = "dropShadow" /\ bw \in Workers /\ parent \in Parents /\ shadow \in Shadows
  BY DEF DropShadow, StepBucket, Typed
<1>1. /\ UNCHANGED <<parent, claim, garage>> /\ parent.uid # 0 /\ parent.del /\ parent.policy = "Delete" /\ ~Over
      /\ bw.know = parent.id /\ parent.id # 0 /\ garage.bucket[bw.know] # "live" /\ ~shadow.retain
      /\ shadow.uid \in {0, bw.sh.uid} /\ bw.sh.uid # 0
  BY <1>0 DEF DropShadow, Core, ShadowForm, Knowledge, ParentKnown, Releasing, Over
<1>2. Provided' = Provided
  BY <1>1 DEF Provided, Live
<1>3. WorkerMoves("release")
  BY <1>0 DEF DropShadow, GoTo, Workers, WorkerMoves
<1>4. \/ shadow.uid = 0 /\ shadow' = shadow
      \/ shadow.uid # 0 /\ ~shadow.fin /\ shadow' = NoShadow
      \/ shadow.uid # 0 /\ Marked /\ shadow'.gc = shadow.gc
  BY <1>0, <1>1, RemovalForm DEF DropShadow
<1>5. shadow'.uid = 1 => shadow'.del
  BY <1>4 DEF Marked, NoShadow
<1>6. ShadowForm' /\ ParentForm'
  BY <1>1, <1>4 DEF Marked, Core, ShadowForm, ParentForm, NoShadow, Foreign
<1>7. Knowledge'
  <2>1. ~shadow'.retain
    BY <1>1, <1>4 DEF Marked, NoShadow
  <2> QED
    BY <1>1, <1>3, <1>5, <2>1
       DEF WorkerMoves, Knowledge, ParentKnown, ShadowKnown, PhaseKnown, BucketKnown, Ensuring, Releasing, Holding, Binding
<1>8. Counted' /\ Usable'
  BY <1>1, <1>4 DEF Marked, NoShadow, Core, Custody, Counted, Usable
<1>g. Guarded' /\ Spared'
  BY <1>1, <1>2, <1>4 DEF Core, Custody, Guarded, Spared, Marked, NoShadow
<1>9. Tracking' /\ Aliases'
  <2>1. CASE shadow'.uid = shadow.uid /\ shadow'.id = shadow.id /\ shadow'.auth = shadow.auth /\ shadow'.retain = shadow.retain
    BY <1>1, <1>2, <2>1 DEF Core, Custody, Tracking, Aliases, Resolves
  <2>2. CASE ~shadow.fin /\ shadow.uid # 0
    BY <1>1, <1>2, <2>2 DEF Core, Custody, Tracking, Aliases, Guarded
  <2> QED
    BY <1>4, <2>1, <2>2 DEF Marked
<1> QED
  BY <1>6, <1>7, <1>8, <1>g, <1>9 DEF Core, Custody

LEMMA RemoveCleanupFinalizersKeeps ==
  ASSUME Typed, Core, RemoveCleanupFinalizers
  PROVE  Core'
<1>0. bw.pc = "release" /\ bw \in Workers /\ parent \in Parents /\ ReleaseParent
  BY DEF RemoveCleanupFinalizers, StepBucket, Typed
<1>1. /\ UNCHANGED <<claim, shadow, garage>> /\ parent.policy = "Delete" /\ ~shadow.retain
      /\ shadow.uid = 1 => shadow.del /\ Provided = {}
  BY <1>0, DeletedStandsForNone DEF RemoveCleanupFinalizers, Core, ShadowForm, Knowledge, ParentKnown
<1>2. /\ parent'.uid = 0 /\ ~parent'.fin /\ ~parent'.del /\ parent'.id = 0 /\ ~parent'.ready
      /\ parent'.policy = "Delete" /\ bw'.pc = "idle"
  BY <1>0, <1>1, ReleaseForm
<1>3. ShadowForm' /\ ParentForm'
  <2>1. ShadowForm'
    BY <1>1, <1>2 DEF Core, ShadowForm
  <2>2. ParentForm'
    BY <1>1, <1>2 DEF Core, ParentForm, Foreign
  <2> QED
    BY <2>1, <2>2
<1>4. Knowledge'
  BY <1>2 DEF Knowledge, ParentKnown, ShadowKnown, PhaseKnown, BucketKnown, Ensuring, Releasing, Holding, Binding
<1>5. ~Over /\ Provided' = Provided
  BY <1>1 DEF Over, Provided, Live
<1>6. Custody'
  BY <1>1, <1>2, <1>5
     DEF Core, Custody, Tracking, Aliases, Guarded, Counted, Usable, Spared, Resolves
<1> QED
  BY <1>3, <1>4, <1>6 DEF Core

-----------------------------------------------------------------------------
(* The GarageBucket controller on the shadow.                              *)

LEMMA ReconcileRetainedKeeps ==
  ASSUME Typed, Core, ReconcileRetained
  PROVE  Core'
<1>0. shadow \in Shadows /\ UNCHANGED <<parent, claim, garage, bw>>
  BY DEF ReconcileRetained, ShadowRest, Typed
<1>1. /\ shadow.uid # 0 /\ shadow.retain /\ parent.uid # 0 /\ parent.del /\ parent.policy = "Retain"
      /\ bw.pc \notin Ensuring
  BY DEF ReconcileRetained, ValidatedCOSIRetain, Core, Knowledge, ParentKnown
<1>2. UNCHANGED <<parent, claim, garage, bw>> /\ Provided' = Provided
  BY <1>0 DEF Provided, Live
<1>3. CASE shadow' = NoShadow
  <2>1. shadow' = NoShadow /\ shadow'.uid = 0
    BY <1>3 DEF NoShadow
  <2>2. Over'
    BY <1>1, <1>2, <2>1 DEF Over
  <2>3. ShadowForm' /\ ParentForm'
    BY <1>1, <1>2, <2>1 DEF Core, ShadowForm, ParentForm, NoShadow, Foreign
  <2>4. Knowledge'
    BY <1>1, <1>2, <2>1
       DEF Core, Knowledge, ParentKnown, ShadowKnown, PhaseKnown, BucketKnown, Holding, Ensuring
  <2>5. Custody'
    BY <1>1, <1>2, <2>1, <2>2
       DEF Core, Custody, Tracking, Aliases, Guarded, Counted, Usable, Spared
  <2> QED
    BY <2>3, <2>4, <2>5 DEF Core
<1>4. CASE Marked /\ shadow'.gc = shadow.gc
  <2>2. Over'
    BY <1>1, <1>2, <1>4 DEF Over, Marked
  <2>3. ShadowForm' /\ ParentForm'
    BY <1>1, <1>2, <1>4 DEF Core, ShadowForm, ParentForm, Marked
  <2>4. Knowledge'
    BY <1>1, <1>2, <1>4
       DEF Core, Knowledge, ParentKnown, ShadowKnown, PhaseKnown, BucketKnown, Holding, Ensuring, Marked
  <2>5. Custody'
    BY <1>1, <1>2, <1>4, <2>2
       DEF Core, Custody, Tracking, Aliases, Guarded, Counted, Usable, Spared, Marked
  <2> QED
    BY <2>3, <2>4, <2>5 DEF Core
<1> QED
  BY <1>0, <1>3, <1>4, RemovalForm DEF ReconcileRetained

\* Putting the finalizer back, or taking an owner, changes no identity.
Touched ==
  /\ shadow'.uid = shadow.uid /\ shadow'.del = shadow.del /\ (shadow.fin => shadow'.fin)
  /\ shadow'.state = shadow.state /\ shadow'.auth = shadow.auth /\ shadow'.ann = shadow.ann
  /\ shadow'.id = shadow.id /\ shadow'.retain = shadow.retain /\ shadow'.gc = shadow.gc
  /\ shadow'.owned => shadow.state = "Bound"
LEMMA TouchingKeeps ==
  ASSUME Core, Touched, shadow.uid # 0, UNCHANGED <<parent, claim, garage, bw>>
  PROVE  Core'
<1>1. ShadowForm' /\ ParentForm'
  BY DEF Touched, Core, ShadowForm, ParentForm
<1>2. ParentKnown' /\ PhaseKnown' /\ BucketKnown'
  BY DEF Touched, Core, Knowledge, ParentKnown, PhaseKnown, BucketKnown
<1>3. ShadowKnown'
  BY DEF Touched, Core, Knowledge, ShadowKnown
<1>4. Provided' = Provided /\ Over' = Over
  BY DEF Touched, Provided, Live, Over
<1>5. Tracking' /\ Aliases'
  BY <1>4 DEF Touched, Core, Custody, Tracking, Aliases, Resolves
<1>6. Guarded' /\ Counted' /\ Usable' /\ Spared'
  BY <1>4 DEF Touched, Core, Custody, Guarded, Counted, Usable, Spared
<1> QED
  BY <1>1, <1>2, <1>3, <1>5, <1>6 DEF Core, Knowledge, Custody

LEMMA ReconcileShadowKeeps ==
  ASSUME Typed, Core, ReconcilePendingShadow \/ ReconcileBoundShadow
  PROVE  Core'
<1>0. /\ shadow \in Shadows /\ garage \in Garages /\ bw \in Workers /\ parent \in Parents
      /\ UNCHANGED <<parent, claim, bw>> /\ shadow.uid # 0
  BY DEF ReconcilePendingShadow, ReconcileBoundShadow, ShadowRest, Typed
<1>1. CASE shadow' = [shadow EXCEPT !.fin = TRUE] /\ garage' = garage
  <2>1. Touched
    BY <1>0, <1>1 DEF Shadows, Touched, Core, ShadowForm
  <2> QED
    BY <1>0, <1>1, <2>1, TouchingKeeps
<1>2. CASE shadow' = [shadow EXCEPT !.owned = TRUE] /\ garage' = garage /\ shadow.state = "Bound"
  <2>1. Touched
    BY <1>0, <1>2 DEF Shadows, Touched
  <2> QED
    BY <1>0, <1>2, <2>1, TouchingKeeps
<1>3. CASE /\ Live(garage, shadow.id) /\ garage.alias[Pub] \in {0, shadow.id}
           /\ garage' = [garage EXCEPT !.alias[Pub] = shadow.id, !.conf[shadow.id] = TRUE]
           /\ shadow' = shadow
  <2>1. /\ garage'.bucket = garage.bucket /\ garage'.uids = garage.uids
        /\ garage'.alias = [garage.alias EXCEPT ![Pub] = shadow.id]
        /\ garage'.conf = [garage.conf EXCEPT ![shadow.id] = TRUE]
    BY <1>0, <1>3 DEF Garages
  <2>2. /\ garage'.alias[Pub] = shadow.id /\ garage.alias[Pub] \in {0, shadow.id}
        /\ \A u \in 1..MaxUID : garage'.alias[u] = garage.alias[u]
        /\ \A i \in BucketId : garage.conf[i] => garage'.conf[i]
    BY <1>0, <1>3, <2>1, CosiBucketAssumption DEF Garages, Alias, Pub, Rsv
  <2>3. /\ bw.pc \in Holding => bw.sh.uid \in 1..MaxUID
        /\ shadow.uid \in 1..MaxUID
        /\ bw.pc \in Binding => bw.id \in BucketId /\ bw.pc \in Holding
        /\ parent.id # 0 => parent.id \in BucketId
    BY <1>0, CosiBucketAssumption
       DEF Shadows, ShadowUID, Workers, Parents, IDs, Core, Knowledge, ShadowKnown, BucketKnown, Binding, Holding, Ensuring
  <2>4. UNCHANGED <<parent, claim, shadow, bw>> /\ Provided' = Provided /\ Over' = Over
    BY <1>0, <1>3, <2>1 DEF Provided, Live, Over
  <2>5. ShadowForm' /\ ParentForm'
    BY <2>4 DEF Core, ShadowForm, ParentForm
  <2>6. ParentKnown' /\ ShadowKnown' /\ PhaseKnown'
    BY <2>1, <2>4 DEF Core, Knowledge, ParentKnown, ShadowKnown, PhaseKnown
  <2>7. BucketKnown'
    <3>1. bw.pc \in Binding => garage'.alias[bw.sh.uid] = garage.alias[bw.sh.uid] /\ (garage.conf[bw.id] => garage'.conf[bw.id])
      BY <2>2, <2>3
    <3> QED
      BY <2>1, <2>2, <2>4, <3>1 DEF Core, Knowledge, BucketKnown, Binding
  <2>8. Tracking' /\ Aliases'
    BY <2>2, <2>3, <2>4 DEF Core, Custody, Tracking, Aliases, Resolves
  <2>9. Guarded' /\ Counted' /\ Usable' /\ Spared'
    BY <2>1, <2>2, <2>3, <2>4 DEF Core, Custody, Guarded, Counted, Usable, Spared
  <2> QED
    BY <2>5, <2>6, <2>7, <2>8, <2>9 DEF Core, Knowledge, Custody
<1> QED
  BY <1>1, <1>2, <1>3 DEF ReconcilePendingShadow, ReconcileBoundShadow

\* Finalizing the shadow leaves no bucket.
LEMMA FinalizingEmpties ==
  ASSUME Typed, Core, FinalizeShadow
  PROVE  \/ Provided = {} /\ garage' = garage
         \/ \E b \in Provided : garage' = DeleteBucket(garage, b)
<1> DEFINE live == {id \in FinalizationIDs(shadow) : Live(garage, id)}
<1>0. /\ shadow.uid \in 1..MaxUID /\ ~shadow.retain /\ shadow \in Shadows /\ garage \in Garages
      /\ garage' = IF live = {} THEN garage ELSE DeleteBucket(garage, CHOOSE id \in live : TRUE)
  BY CosiBucketAssumption DEF FinalizeShadow, Typed, Shadows, ShadowUID
<1>1. \A id \in live : id \in Provided
  BY <1>0 DEF FinalizationIDs, Rsv, Live, Shadows, IDs, Core, ShadowForm, Custody, Aliases, Provided
<1>2. ASSUME NEW b \in Provided PROVE b \in live
  <2>1. ~Over /\ b # 0 /\ Live(garage, b)
    BY <1>0 DEF Over, Provided, Live
  <2>2. Resolves(b)
    BY <2>1 DEF Core, Custody, Tracking
  <2> QED
    BY <2>1, <2>2 DEF Resolves, FinalizationIDs, Rsv
<1>3. CASE live = {}
  BY <1>0, <1>2, <1>3
<1>4. CASE live # {}
  <2> HIDE DEF live
  <2>1. (CHOOSE id \in live : TRUE) \in live
    BY <1>4, Zenon
  <2> QED
    BY <1>0, <1>1, <1>4, <2>1, Zenon
<1> QED
  BY <1>3, <1>4

LEMMA FinalizeShadowKeeps ==
  ASSUME Typed, Core, FinalizeShadow
  PROVE  Core'
<1>0. /\ UNCHANGED <<parent, claim, bw>> /\ (shadow' = shadow \/ shadow' = NoShadow)
      /\ shadow.uid # 0 /\ shadow.del /\ ~shadow.retain /\ garage \in Garages
  BY DEF FinalizeShadow, Typed
<1>1. /\ PhaseKnown' /\ BucketKnown' /\ Usable' /\ Provided' = {} /\ garage'.uids = garage.uids
      /\ \A u \in 1..MaxUID : garage'.alias[u] = 0
      /\ \A i \in BucketId : garage.bucket[i] # "live" => garage'.bucket[i] # "live"
  <2>1. CASE Provided = {} /\ garage' = garage
    BY <1>0, <2>1 DEF Core, Knowledge, PhaseKnown, BucketKnown, Custody, Usable, Aliases, Provided, Live
  <2>2. CASE \E b \in Provided : garage' = DeleteBucket(garage, b)
    <3>1. PICK b \in Provided : garage' = DeleteBucket(garage, b)
      BY <2>2
    <3>2. b \in BucketId
      BY DEF Provided
    <3>3. Emptied(b) /\ Provided' = {} /\ Usable' /\ \A u \in 1..MaxUID : garage'.alias[u] = 0
      BY <1>0, <3>1, DeletionEmpties
    <3>4. PhaseKnown' /\ BucketKnown'
      BY <1>0, <3>2, <3>3, DeletionIsKnown
    <3> QED
      BY <3>2, <3>3, <3>4 DEF Emptied
  <2> QED
    BY <2>1, <2>2, FinalizingEmpties
<1>2. ShadowForm' /\ ParentForm'
  BY <1>0 DEF Core, ShadowForm, ParentForm, NoShadow, Foreign
<1>3. ParentKnown'
  <2>1. bw.pc \in {"deleteShadow", "dropShadow", "release"} => bw.know \in BucketId
    BY DEF Typed, Workers, IDs, Core, Knowledge, ParentKnown, Releasing
  <2> QED
    BY <1>0, <1>1, <2>1 DEF Core, Knowledge, ParentKnown, NoShadow
<1>4. ShadowKnown'
  <2>1. CASE shadow' = shadow
    BY <1>0, <2>1 DEF Core, Knowledge, ShadowKnown
  <2>2. CASE shadow' = NoShadow
    <3>1. shadow'.uid = 0 /\ bw' = bw
      BY <1>0, <2>2 DEF NoShadow
    <3> QED
      BY <1>0, <3>1 DEF Core, Knowledge, ShadowKnown
  <2> QED
    BY <1>0, <2>1, <2>2
<1>5. Counted'
  BY <1>0, <1>1 DEF Core, Custody, Counted, NoShadow
<1> QED
  BY <1>1, <1>2, <1>3, <1>4, <1>5, VacantKeeps DEF Core, Knowledge, Custody

-----------------------------------------------------------------------------
(* Users, Kubernetes and faults.                                           *)

\* What neither the bucket nor its shadow depends on may change.
LEMMA BystandersKeep ==
  ASSUME Core, UNCHANGED <<parent, claim, shadow, bw>>,
         garage' = garage \/ garage' = [garage EXCEPT !.full = garage'.full], garage \in Garages
  PROVE  Core'
<1>1. /\ UNCHANGED <<parent, claim, shadow, bw>>
      /\ garage'.bucket = garage.bucket /\ garage'.alias = garage.alias /\ garage'.conf = garage.conf
      /\ garage'.uids = garage.uids
  BY DEF Garages
<1>2. ShadowForm' /\ ParentForm'
  BY <1>1 DEF Core, ShadowForm, ParentForm
<1>3. Knowledge'
  BY <1>1 DEF Core, Knowledge, ParentKnown, ShadowKnown, PhaseKnown, BucketKnown
<1>4. Provided' = Provided /\ Over' = Over
  BY <1>1 DEF Provided, Live, Over
<1>5. Custody'
  BY <1>1, <1>4
     DEF Core, Custody, Tracking, Aliases, Guarded, Counted, Usable, Spared, Resolves
<1> QED
  BY <1>2, <1>3, <1>5 DEF Core

LEMMA BindClaimKeeps ==
  ASSUME Typed, Core, BindClaim
  PROVE  Core'
<1>1. UNCHANGED <<parent, shadow, garage, bw>> /\ claim'.bound = TRUE /\ claim'.ready = claim.ready
  BY DEF BindClaim, Outside, Typed, Claims
<1>2. ShadowForm' /\ ParentForm'
  BY <1>1 DEF Core, ShadowForm, ParentForm
<1>3. Knowledge'
  BY <1>1 DEF Core, Knowledge, ParentKnown, ShadowKnown, PhaseKnown, BucketKnown
<1>4. Custody'
  BY <1>1
     DEF Core, Custody, Tracking, Aliases, Guarded, Counted, Usable, Spared, Resolves, Over, Provided, Live
<1> QED
  BY <1>2, <1>3, <1>4 DEF Core

LEMMA DeleteParentKeeps ==
  ASSUME Typed, Core, DeleteParent
  PROVE  Core'
<1>0. parent \in Parents /\ UNCHANGED <<claim, shadow, garage, bw>> /\ parent.uid # 0 /\ ~parent.del
  BY DEF DeleteParent, Outside, Typed
<1>1. Provided' = Provided /\ ~Over
  BY <1>0 DEF Provided, Live, Over
<1>2. CASE parent' = [parent EXCEPT !.del = TRUE]
  <2>1. /\ parent'.uid = parent.uid /\ parent'.del = TRUE /\ parent'.fin = parent.fin
        /\ parent'.policy = parent.policy /\ parent'.id = parent.id /\ parent'.ready = parent.ready
    BY <1>0, <1>2 DEF Parents
  <2>2. ShadowForm' /\ ParentForm'
    BY <1>0, <2>1 DEF Core, ShadowForm, ParentForm
  <2>3. Knowledge'
    BY <1>0, <2>1 DEF Core, Knowledge, ParentKnown, ShadowKnown, PhaseKnown, BucketKnown
  <2>4. Custody'
    BY <1>0, <1>1, <2>1
       DEF Core, Custody, Tracking, Aliases, Guarded, Counted, Usable, Spared, Resolves
  <2> QED
    BY <2>2, <2>3, <2>4 DEF Core
<1>3. CASE ~parent.fin /\ parent' = NoParent
  <2>1. /\ parent'.uid = 0 /\ ~parent'.del /\ ~parent'.fin /\ parent'.id = 0 /\ ~parent'.ready
    BY <1>3 DEF NoParent
  <2>2. shadow.uid = 0 /\ bw.pc \notin Ensuring /\ bw.pc \notin Releasing
    BY <1>0, <1>3 DEF Core, ShadowForm, Knowledge, ParentKnown
  <2>3. Provided = {} /\ \A u \in 1..MaxUID : garage'.alias[u] = 0
    BY <1>0, <1>1, <2>2 DEF Core, Custody, Tracking, Aliases, Resolves
  <2>4. ShadowForm' /\ ParentForm'
    <3>1. shadow' = NoShadow
      BY <1>0, <2>2 DEF Core, ShadowForm
    <3> QED
      BY <1>0, <2>1, <3>1 DEF Core, ShadowForm, ParentForm, NoShadow, Foreign
  <2>5. Knowledge'
    BY <1>0, <2>2
       DEF Knowledge, ParentKnown, ShadowKnown, PhaseKnown, BucketKnown, Ensuring, Releasing, Holding, Binding
  <2>6. Counted' /\ Usable'
    BY <1>0, <2>1, <2>2 DEF Counted, Usable
  <2> QED
    BY <1>1, <2>3, <2>4, <2>5, <2>6, VacantKeeps DEF Core, Custody
<1> QED
  BY <1>2, <1>3 DEF DeleteParent

LEMMA ClusterGoesKeeps ==
  ASSUME Typed, Core, ClusterGoes
  PROVE  Core'
<1>0. shadow \in Shadows /\ garage \in Garages /\ UNCHANGED <<parent, claim, garage, bw>>
  BY DEF ClusterGoes, Outside, Typed
<1>1. CASE shadow' = shadow
  BY <1>0, <1>1, BystandersKeep
<1>2. CASE shadow.owned /\ ~shadow.del /\ shadow' = [RequestDeleteShadow(shadow) EXCEPT !.gc = shadow.fin]
  <2>1. UNCHANGED <<parent, claim, garage, bw>> /\ Provided' = Provided
    BY <1>0 DEF Provided, Live
  <2>2. shadow.uid # 0 /\ shadow.ann # 0 /\ shadow.id = shadow.ann
    BY <1>2 DEF Core, ShadowForm, NoShadow
  <2>3. \/ shadow.fin /\ Marked /\ shadow'.gc = TRUE
        \/ ~shadow.fin /\ shadow' = NoShadow
    BY <1>0, <1>2, <2>2 DEF RequestDeleteShadow, Remove, Marked, Shadows, NoShadow
  <2>4. CASE shadow.fin /\ Marked /\ shadow'.gc = TRUE
    <3>1. ShadowForm' /\ ParentForm'
      BY <2>1, <2>2, <2>4 DEF Core, ShadowForm, ParentForm, Marked
    <3>2. ParentKnown' /\ PhaseKnown' /\ BucketKnown'
      BY <2>1, <2>4 DEF Core, Knowledge, ParentKnown, PhaseKnown, BucketKnown, Marked
    <3>3. ShadowKnown'
      BY <2>1, <2>2, <2>4 DEF Core, Knowledge, ShadowKnown, Marked
    <3>4. Over' = Over
      BY <2>1, <2>4 DEF Over, Marked
    <3>5. Tracking' /\ Aliases' /\ Guarded' /\ Usable' /\ Spared'
      BY <2>1, <2>4, <3>4 DEF Core, Custody, Tracking, Aliases, Guarded, Usable, Spared, Resolves, Marked
    <3>6. Counted'
      BY <2>1, <2>2, <2>4 DEF Core, Custody, Counted, Marked
    <3> QED
      BY <3>1, <3>2, <3>3, <3>5, <3>6 DEF Core, Knowledge, Custody
  <2>5. CASE ~shadow.fin /\ shadow' = NoShadow
    <3>1. shadow'.uid = 0 /\ shadow' = NoShadow
      BY <2>5 DEF NoShadow
    <3>2. Provided = {} /\ \A u \in 1..MaxUID : garage'.alias[u] = 0
      BY <2>1, <2>2, <2>5 DEF Core, Custody, Guarded, Aliases
    <3>3. ShadowForm' /\ ParentForm'
      BY <2>1, <3>1 DEF Core, ShadowForm, ParentForm, NoShadow, Foreign
    <3>4. ParentKnown' /\ PhaseKnown' /\ BucketKnown'
      <4>1. shadow'.retain = FALSE
        BY <3>1 DEF NoShadow
      <4> QED
        BY <2>1, <3>1, <4>1 DEF Core, Knowledge, ParentKnown, PhaseKnown, BucketKnown
    <3>5. ShadowKnown'
      BY <2>1, <2>2, <3>1 DEF Core, Knowledge, ShadowKnown
    <3>6. Counted' /\ Usable'
      BY <2>1, <3>1 DEF Core, Custody, Counted, Usable
    <3> QED
      BY <2>1, <3>2, <3>3, <3>4, <3>5, <3>6, VacantKeeps DEF Core, Knowledge, Custody
  <2> QED
    BY <2>3, <2>4, <2>5
<1> QED
  BY <1>1, <1>2 DEF ClusterGoes

LEMMA TakeAliasKeeps ==
  ASSUME Typed, Core, TakeAlias
  PROVE  Core'
<1>0. /\ garage \in Garages /\ bw \in Workers /\ UNCHANGED <<parent, claim, shadow, bw>> /\ garage.alias[Pub] = 0
      /\ garage' = [garage EXCEPT !.alias[Pub] = Foreign]
  BY DEF TakeAlias, Outside, Typed
<1>1. /\ garage'.bucket = garage.bucket /\ garage'.conf = garage.conf /\ garage'.uids = garage.uids
      /\ garage'.alias = [garage.alias EXCEPT ![Pub] = Foreign]
  BY <1>0 DEF Garages
<1>2. \A u \in 1..MaxUID : garage'.alias[u] = garage.alias[u]
  BY <1>0, <1>1, CosiBucketAssumption DEF Garages, Alias, Pub, Rsv
<1>3. UNCHANGED <<parent, claim, shadow, bw>> /\ Provided' = Provided /\ Over' = Over
  BY <1>0, <1>1 DEF Provided, Live, Over
<1>4. /\ bw.pc \in Holding => bw.sh.uid \in 1..MaxUID
      /\ shadow.uid # 0 => shadow.uid \in 1..MaxUID
  BY CosiBucketAssumption DEF Typed, Workers, Shadows, ShadowUID, Core, Knowledge, ShadowKnown
<1>5. ShadowForm' /\ ParentForm'
  BY <1>3 DEF Core, ShadowForm, ParentForm
<1>6. ParentKnown' /\ ShadowKnown' /\ PhaseKnown'
  BY <1>1, <1>3 DEF Core, Knowledge, ParentKnown, ShadowKnown, PhaseKnown
<1>7. BucketKnown'
  <2>1. bw.pc \in Binding => bw.pc \in Holding /\ garage'.alias[bw.sh.uid] = garage.alias[bw.sh.uid]
    BY <1>2, <1>4 DEF Binding, Holding, Ensuring
  <2>2. bw.pc \in {"unreserve", "clear", "status"} => garage.bucket[bw.id] # "live"
    BY <1>0 DEF Core, Knowledge, BucketKnown, Binding
  <2> QED
    BY <1>1, <1>3, <2>1, <2>2 DEF Core, Knowledge, BucketKnown, Binding
<1>8. Tracking' /\ Aliases'
  BY <1>2, <1>3, <1>4 DEF Core, Custody, Tracking, Aliases, Resolves
<1>9. Guarded' /\ Counted' /\ Spared'
  BY <1>1, <1>3 DEF Core, Custody, Guarded, Counted, Spared
<1>10. Usable'
  BY <1>0, <1>1, <1>3 DEF Core, Custody, Usable
<1> QED
  BY <1>5, <1>6, <1>7, <1>8, <1>9, <1>10 DEF Core, Knowledge, Custody

LEMMA LoseBucketKeeps ==
  ASSUME Typed, Core, LoseBucket
  PROVE  Core'
<1>0. UNCHANGED <<parent, claim, shadow, bw>>
  BY DEF LoseBucket, Outside
<1>1. PICK b \in Provided : garage' = DeleteBucket(garage, b)
  BY DEF LoseBucket, Provided
<1>2. b \in BucketId
  BY DEF Provided
<1>3. Emptied(b) /\ Provided' = {} /\ Usable' /\ \A u \in 1..MaxUID : garage'.alias[u] = 0
  BY <1>0, <1>1, DeletionEmpties
<1>4. PhaseKnown' /\ BucketKnown'
  BY <1>0, <1>2, <1>3, DeletionIsKnown
<1>5. ShadowForm' /\ ParentForm' /\ ShadowKnown'
  BY <1>0 DEF Core, ShadowForm, ParentForm, Knowledge, ShadowKnown
<1>6. ParentKnown'
  <2>1. bw.pc \in {"deleteShadow", "dropShadow", "release"} => bw.know \in BucketId
    BY DEF Typed, Workers, IDs, Core, Knowledge, ParentKnown, Releasing
  <2>2. \A i \in BucketId : garage.bucket[i] # "live" => garage'.bucket[i] # "live"
    BY <1>3 DEF Emptied
  <2> QED
    BY <1>0, <2>1, <2>2 DEF Core, Knowledge, ParentKnown
<1>7. Counted'
  BY <1>0, <1>3 DEF Core, Custody, Counted, Emptied
<1> QED
  BY <1>3, <1>4, <1>5, <1>6, <1>7, VacantKeeps DEF Core, Knowledge, Custody

LEMMA CrashBucketKeeps ==
  ASSUME Typed, Core, CrashBucket
  PROVE  Core'
<1>1. Leaves
  BY UnpublishKeeps DEF CrashBucket, Done, IdleBucket, Leaves, ParentKept, Typed
<1> QED
  BY <1>1, LeavingKeeps

-----------------------------------------------------------------------------
(* Types.                                                                  *)

LEMMA Constants ==
  /\ NoShadow \in Shadows /\ IdleBucket \in Workers /\ NoParent \in Parents
  /\ NewParent("Delete") \in Parents /\ NewParent("Retain") \in Parents
  /\ Foreign \in BucketId /\ Mine \in BucketId /\ Pub \in Alias
  /\ \A u \in ShadowUID : u \in Alias /\ Rsv(u) = u /\ ShadowBucket(u) \in Shadows
<1>1. 0 \in ShadowUID /\ 0 \in IDs /\ MaxUID \in Nat \ {0}
  BY CosiBucketAssumption DEF ShadowUID, IDs
<1>2. Foreign \in BucketId /\ Mine \in BucketId
  BY <1>1 DEF Foreign, Mine, BucketId
<1>3. NoShadow \in Shadows
  BY <1>1 DEF NoShadow, Shadows
<1>4. IdleBucket \in Workers
  BY <1>1, <1>3 DEF IdleBucket, Workers
<1>5. NoParent \in Parents
  BY <1>1 DEF NoParent, Parents
<1>6. NewParent("Delete") \in Parents /\ NewParent("Retain") \in Parents
  BY <1>5 DEF NewParent, Parents
<1>7. \A u \in ShadowUID : u \in Alias
  BY <1>1 DEF ShadowUID, Alias, Rsv, Pub
<1>8. \A u \in ShadowUID : ShadowBucket(u) \in Shadows
  BY <1>3 DEF ShadowBucket, Shadows
<1> QED
  BY <1>1, <1>2, <1>3, <1>4, <1>5, <1>6, <1>7, <1>8 DEF Rsv, Pub

\* The types of the records that the steps write.
TypedRecords == parent' \in Parents /\ claim' \in Claims /\ shadow' \in Shadows /\ garage' \in Garages /\ bw' \in Workers

\* What the Admin API calls leave is well formed.
LEMMA DeleteBucketType ==
  ASSUME garage \in Garages, NEW b \in BucketId
  PROVE  DeleteBucket(garage, b) \in Garages
<1> DEFINE al == [a \in DOMAIN garage.alias |-> IF garage.alias[a] = b THEN 0 ELSE garage.alias[a]]
           bu == [garage.bucket EXCEPT ![b] = "deleted"]
<1>1. al \in [Alias -> IDs] /\ bu \in [BucketId -> {"free", "live", "deleted"}]
  BY DEF Garages, IDs
<1>2. DeleteBucket(garage, b) = [garage EXCEPT !.bucket = bu, !.alias = al]
  BY DEF DeleteBucket, Garages
<1> HIDE DEF al, bu
<1> QED
  BY <1>1, <1>2 DEF Garages

LEMMA RemovalType ==
  ASSUME shadow \in Shadows
  PROVE  Remove(shadow) \in Shadows /\ RequestDeleteShadow(shadow) \in Shadows
<1>1. [shadow EXCEPT !.del = TRUE] \in Shadows
  BY DEF Shadows
<1> QED
  BY <1>1, Constants DEF Remove, RequestDeleteShadow

\* EnsureBucket up to the create.
LEMMA ReservationTypes ==
  ASSUME Typed, Core,
         \/ ReconcileBucket \/ ReserveShadowBucket \/ ResolveTracked \/ ResolveReservation
         \/ AuthorizeShadowBucketCreate
  PROVE  TypedRecords
<1>0. parent \in Parents /\ claim \in Claims /\ shadow \in Shadows /\ garage \in Garages /\ bw \in Workers
  BY DEF Typed
<1>1. FailBucket => TypedRecords
  BY <1>0, FailLeaves, Constants DEF FailBucket, Done, TypedRecords
<1>2. ASSUME ReconcileBucket, ~FailBucket PROVE TypedRecords
  <2>1. UNCHANGED <<claim, shadow, garage>>
    BY <1>2 DEF ReconcileBucket
  <2>2. parent' \in Parents
    BY <1>0, <1>2 DEF ReconcileBucket, Parents
  <2>3. bw' \in Workers
    BY ZenonT(60), <1>0, <1>2 DEF ReconcileBucket, Workers, Parents, DeletionPath, Ensuring, Releasing
  <2> QED
    BY <1>0, <2>1, <2>2, <2>3 DEF TypedRecords
<1>3. ASSUME ReserveShadowBucket, ~FailBucket PROVE TypedRecords
  <2>1. CASE shadow.uid = 0 /\ garage.uids < MaxUID
    <3>1. garage.uids + 1 \in ShadowUID /\ garage.uids + 1 \in 0..MaxUID
      BY <1>0, <2>1, CosiBucketAssumption DEF Garages, ShadowUID
    <3>2. /\ garage' = [garage EXCEPT !.uids = @ + 1] /\ shadow' = ShadowBucket(garage.uids + 1)
          /\ bw' = [bw EXCEPT !.pc = "resolve", !.sh = shadow'] /\ UNCHANGED <<parent, claim>>
      BY <1>3, <2>1 DEF ReserveShadowBucket
    <3>3. shadow' \in Shadows
      BY <3>1, <3>2, Constants
    <3>4. garage' \in Garages
      BY <1>0, <3>1, <3>2 DEF Garages
    <3>5. bw' \in Workers
      BY <1>0, <3>2, <3>3 DEF Workers, Ensuring
    <3> QED
      BY <1>0, <3>2, <3>3, <3>4, <3>5 DEF TypedRecords
  <2>2. CASE shadow.uid # 0
    <3>1. shadow' = [shadow EXCEPT !.fin = TRUE] /\ bw' = [bw EXCEPT !.pc = "resolve", !.sh = shadow']
          /\ UNCHANGED <<parent, claim, garage>>
      BY <1>3, <2>2 DEF ReserveShadowBucket
    <3>2. shadow' \in Shadows
      BY <1>0, <3>1 DEF Shadows
    <3>3. bw' \in Workers
      BY <1>0, <3>1, <3>2 DEF Workers, Ensuring
    <3> QED
      BY <1>0, <3>1, <3>2, <3>3 DEF TypedRecords
  <2> QED
    BY <1>3, <2>1, <2>2 DEF ReserveShadowBucket
<1>4. ASSUME ResolveTracked \/ ResolveReservation, ~FailBucket PROVE TypedRecords
  <2>1. UNCHANGED <<parent, claim, shadow, garage>>
    BY <1>4 DEF ResolveTracked, ResolveReservation
  <2>2. Tracked \in IDs
    BY <1>0 DEF Tracked, Workers, Shadows
  <2>3. bw' \in Workers
    BY <1>0, <1>4, <2>2 DEF ResolveTracked, ResolveReservation, GoTo, Workers, Ensuring
  <2> QED
    BY <1>0, <2>1, <2>3 DEF TypedRecords
<1>5. ASSUME AuthorizeShadowBucketCreate, ~FailBucket PROVE TypedRecords
  <2>1. /\ shadow' = [shadow EXCEPT !.auth = TRUE] /\ bw' = [bw EXCEPT !.pc = "create", !.sh = shadow']
        /\ UNCHANGED <<parent, claim, garage>>
    BY <1>5 DEF AuthorizeShadowBucketCreate
  <2>2. shadow' \in Shadows
    BY <1>0, <2>1 DEF Shadows
  <2>3. bw' \in Workers
    BY <1>0, <2>1, <2>2 DEF Workers, Ensuring
  <2> QED
    BY <1>0, <2>1, <2>2, <2>3 DEF TypedRecords
<1> QED
  BY <1>1, <1>2, <1>3, <1>4, <1>5

\* EnsureBucket from the create to the claim.
LEMMA BindingTypes ==
  ASSUME Typed, Core,
         \/ CreateOrRecover \/ BindShadowStatus \/ BindShadowMetadata \/ EnsureCOSIBucketSettings
         \/ EnsureCOSIGlobalAlias \/ RemoveReservationAlias \/ ClearShadowBucketReservationAlias
         \/ PublishBucketStatus \/ SyncBoundBucketClaimReady
  PROVE  TypedRecords
<1>0. /\ parent \in Parents /\ claim \in Claims /\ shadow \in Shadows /\ garage \in Garages /\ bw \in Workers
      /\ bw.sh \in Shadows /\ bw.id \in IDs /\ bw.sh.uid \in Alias /\ Rsv(bw.sh.uid) = bw.sh.uid
  BY Constants DEF Typed, Workers, Shadows
<1>1. FailBucket => TypedRecords
  BY <1>0, FailLeaves, Constants DEF FailBucket, Done, TypedRecords
<1>2. ASSUME CreateOrRecover, ~FailBucket PROVE TypedRecords
  <2>1. UNCHANGED <<parent, claim, shadow>>
    BY <1>2 DEF CreateOrRecover
  <2>2. CASE AliasFree(Rsv(bw.sh.uid))
    <3>1. /\ FreeBuckets # {} /\ garage' = CreateBucket(garage, FreshBucket, Rsv(bw.sh.uid))
          /\ bw' = [bw EXCEPT !.pc = "bind", !.id = FreshBucket]
      BY <1>2, <2>2 DEF CreateOrRecover
    <3>2. FreshBucket \in BucketId
      BY <3>1, FreshBucketIsFree
    <3>3. garage' \in Garages
      BY <1>0, <3>1, <3>2 DEF Garages, CreateBucket, IDs
    <3>4. bw' \in Workers
      BY <1>0, <3>1, <3>2 DEF Workers, Ensuring, IDs
    <3> QED
      BY <1>0, <2>1, <3>3, <3>4 DEF TypedRecords
  <2>3. CASE ~AliasFree(Rsv(bw.sh.uid))
    <3>1. garage' = garage /\ bw' = [bw EXCEPT !.pc = "bind", !.id = garage.alias[Rsv(bw.sh.uid)]]
      BY <1>2, <2>3 DEF CreateOrRecover
    <3>2. garage.alias[Rsv(bw.sh.uid)] \in IDs
      BY <1>0 DEF Garages
    <3>3. bw' \in Workers
      BY <1>0, <3>1, <3>2 DEF Workers, Ensuring
    <3> QED
      BY <1>0, <2>1, <3>1, <3>3 DEF TypedRecords
  <2> QED
    BY <2>2, <2>3
<1>3. ASSUME BindShadowStatus \/ BindShadowMetadata, ~FailBucket PROVE TypedRecords
  <2>1. /\ UNCHANGED <<parent, claim, garage>>
        /\ [bw.sh EXCEPT !.id = bw.id] \in Shadows
        /\ [bw.sh EXCEPT !.ann = bw.id, !.state = "Bound"] \in Shadows
    BY <1>0, <1>3 DEF BindShadowStatus, BindShadowMetadata, Shadows
  <2>2. shadow' \in Shadows
    BY <1>0, <1>3, <2>1 DEF BindShadowStatus, BindShadowMetadata
  <2>3. bw' \in Workers
    BY <1>0, <1>3, <2>1 DEF BindShadowStatus, BindShadowMetadata, Workers, Ensuring
  <2> QED
    BY <1>0, <2>1, <2>2, <2>3 DEF TypedRecords
<1>4. ASSUME EnsureCOSIBucketSettings \/ EnsureCOSIGlobalAlias, ~FailBucket PROVE TypedRecords
  <2>1. UNCHANGED <<parent, claim, shadow>>
    BY <1>4 DEF EnsureCOSIBucketSettings, EnsureCOSIGlobalAlias
  <2>2. garage' \in Garages
    <3>1. /\ bw.id \in BucketId
          /\ \/ garage' = [garage EXCEPT !.conf[bw.id] = TRUE]
             \/ garage' = [garage EXCEPT !.alias[Pub] = bw.id]
      BY <1>0, <1>4 DEF EnsureCOSIBucketSettings, EnsureCOSIGlobalAlias, Live, IDs
    <3>2. [garage EXCEPT !.conf[bw.id] = TRUE] \in Garages
      BY <1>0, <3>1 DEF Garages
    <3>3. [garage EXCEPT !.alias[Pub] = bw.id] \in Garages
      BY <1>0 DEF Garages
    <3> QED
      BY <3>1, <3>2, <3>3
  <2>3. bw' \in Workers
    BY <1>0, <1>4 DEF EnsureCOSIBucketSettings, EnsureCOSIGlobalAlias, GoTo, Workers, Ensuring
  <2> QED
    BY <1>0, <2>1, <2>2, <2>3 DEF TypedRecords
<1>5. ASSUME RemoveReservationAlias PROVE TypedRecords
  <2> DEFINE al == [a \in DOMAIN garage.alias |-> IF bw.sh.auth /\ a = Rsv(bw.sh.uid) /\ garage.alias[a] = bw.id
                                                THEN 0 ELSE garage.alias[a]]
  <2>1. UNCHANGED <<parent, claim, shadow>> /\ garage' = [garage EXCEPT !.alias = al] /\ bw' = [bw EXCEPT !.pc = "clear"]
    BY <1>0, <1>5 DEF RemoveReservationAlias, GoTo, Garages
  <2>2. al \in [Alias -> IDs]
    BY <1>0 DEF Garages, IDs
  <2> HIDE DEF al
  <2>3. garage' \in Garages
    BY <1>0, <2>1, <2>2 DEF Garages
  <2>4. bw' \in Workers
    BY <1>0, <2>1 DEF Workers, Ensuring
  <2> QED
    BY <1>0, <2>1, <2>3, <2>4 DEF TypedRecords
<1>6. ASSUME ClearShadowBucketReservationAlias, ~FailBucket PROVE TypedRecords
  <2>1. /\ UNCHANGED <<parent, claim, garage>>
        /\ shadow' \in {shadow, [shadow EXCEPT !.auth = FALSE]}
        /\ bw' = [bw EXCEPT !.sh.auth = FALSE, !.pc = "status"]
    BY <1>6 DEF ClearShadowBucketReservationAlias
  <2>2. shadow' \in Shadows
    BY <1>0, <2>1 DEF Shadows
  <2>3. bw' = [bw EXCEPT !.sh = [bw.sh EXCEPT !.auth = FALSE], !.pc = "status"]
    BY <1>0, <2>1 DEF Workers
  <2>4. [bw.sh EXCEPT !.auth = FALSE] \in Shadows
    BY <1>0 DEF Shadows
  <2>5. bw' \in Workers
    BY <1>0, <2>3, <2>4 DEF Workers, Ensuring
  <2> QED
    BY <1>0, <2>1, <2>2, <2>5 DEF TypedRecords
<1>7. ASSUME PublishBucketStatus PROVE TypedRecords
  <2>1. UNCHANGED <<claim, shadow, garage>>
    BY <1>7 DEF PublishBucketStatus, FailBucket
  <2>2. parent' \in Parents
    BY <1>0, <1>7, UnpublishKeeps DEF PublishBucketStatus, FailBucket, Parents
  <2>3. bw' \in Workers
    BY <1>0, <1>7, Constants DEF PublishBucketStatus, FailBucket, GoTo, Done, Workers, Ensuring
  <2> QED
    BY <1>0, <2>1, <2>2, <2>3 DEF TypedRecords
<1>8. ASSUME SyncBoundBucketClaimReady PROVE TypedRecords
  <2>1. UNCHANGED <<parent, shadow, garage>> /\ bw' \in Workers
    BY <1>8, Constants DEF SyncBoundBucketClaimReady, Done
  <2>2. claim' \in Claims
    BY <1>0, <1>8 DEF SyncBoundBucketClaimReady, Claims
  <2> QED
    BY <1>0, <2>1, <2>2 DEF TypedRecords
<1> QED
  BY <1>1, <1>2, <1>3, <1>4, <1>5, <1>6, <1>7, <1>8

\* What gives a reservation or a Bucket up.
LEMMA ReleaseTypes ==
  ASSUME Typed, Core,
         \/ StripStale \/ StripRejected \/ DropReservation \/ DropStatusTracked
         \/ CancelBucketProvisioning \/ ForgetShadowBucket \/ DeleteRetainedShadow \/ DeleteRemoteBucket
         \/ DeleteShadowBucketByID \/ DropShadow \/ RemoveCleanupFinalizers
  PROVE  TypedRecords
<1>0. /\ parent \in Parents /\ claim \in Claims /\ shadow \in Shadows /\ garage \in Garages /\ bw \in Workers
      /\ bw.sh \in Shadows /\ bw.know \in IDs
  BY DEF Typed, Workers
<1>1. /\ Unpublish => parent' \in Parents
      /\ ReleaseParent => parent' \in Parents
      /\ Done \/ ReleaseParent => bw' \in Workers
  BY <1>0, UnpublishKeeps, ReleaseForm, Constants DEF Done, ReleaseParent
<1>2. \A pc \in Ensuring \cup Releasing : GoTo(pc) => bw' \in Workers
  BY <1>0 DEF GoTo, Workers
<1>3. ASSUME StripStale \/ StripRejected PROVE TypedRecords
  <2>1. UNCHANGED <<parent, claim, garage>> /\ GoTo("staleDelete") /\ shadow' \in {shadow, Strip(shadow)}
    BY <1>3 DEF StripStale, StripRejected, DeleteShadowSteps
  <2>2. shadow' \in Shadows
    BY <1>0, <2>1, Constants DEF Strip, Shadows
  <2> QED
    BY <1>0, <1>2, <2>1, <2>2 DEF TypedRecords, Ensuring
<1>4. ASSUME DropReservation PROVE TypedRecords
  <2>1. claim' = claim /\ Done /\ Unpublish /\ shadow' \in Shadows
    BY <1>0, <1>4, RemovalType DEF DropReservation
  <2>2. Tracked = 0 /\ ~bw.sh.auth /\ shadow.uid = bw.sh.uid => garage.uids # 0
    BY <1>0, <1>4, CosiBucketAssumption
       DEF DropReservation, StepBucket, Tracked, Core, Knowledge, ShadowKnown, Holding, Ensuring, Custody, Counted,
           Shadows, ShadowUID, Garages
  <2>3. \E n \in 0..MaxUID : garage' = [garage EXCEPT !.uids = n]
    <3>1. garage.uids \in 0..MaxUID /\ (garage.uids # 0 => garage.uids - 1 \in 0..MaxUID)
      BY <1>0, CosiBucketAssumption DEF Garages
    <3> QED
      BY <1>0, <1>4, <2>2, <3>1 DEF DropReservation, Garages
  <2>4. garage' \in Garages
    BY <1>0, <2>3 DEF Garages
  <2> QED
    BY <1>0, <1>1, <2>1, <2>4 DEF TypedRecords
<1>5. ASSUME DropStatusTracked \/ CancelBucketProvisioning \/ DeleteRetainedShadow PROVE TypedRecords
  <2>1. /\ UNCHANGED <<claim, garage>> /\ (Done \/ ReleaseParent) /\ (Unpublish \/ ReleaseParent \/ parent' = parent)
        /\ shadow' \in Shadows
    BY <1>0, <1>5, RemovalType DEF DropStatusTracked, CancelBucketProvisioning, DeleteRetainedShadow
  <2> QED
    BY <1>0, <1>1, <2>1 DEF TypedRecords
<1>6. ASSUME ForgetShadowBucket PROVE TypedRecords
  <2>1. /\ UNCHANGED <<claim, garage>> /\ (Done \/ ReleaseParent \/ GoTo("forgetDelete"))
        /\ (Unpublish \/ ReleaseParent \/ parent' = parent)
        /\ shadow' \in {shadow, [shadow EXCEPT !.id = IF @ = 0 THEN bw.know ELSE @, !.retain = TRUE]}
    BY <1>6 DEF ForgetShadowBucket
  <2>2. shadow' \in Shadows
    BY <1>0, <2>1 DEF Shadows
  <2> QED
    BY <1>0, <1>1, <1>2, <2>1, <2>2 DEF TypedRecords, Releasing
<1>7. ASSUME DeleteRemoteBucket PROVE TypedRecords
  <2>1. /\ UNCHANGED <<claim, shadow>> /\ (Unpublish \/ parent' = parent)
        /\ Done \/ GoTo("deleteShadow")
    BY <1>7 DEF DeleteRemoteBucket
  <2>2. bw' \in Workers
    BY <1>0, <1>1, <1>2, <2>1 DEF Releasing
  <2>3. garage' \in Garages
    BY <1>0, <1>7, DeleteBucketType DEF DeleteRemoteBucket, Live, IDs
  <2> QED
    BY <1>0, <1>1, <2>1, <2>2, <2>3 DEF TypedRecords
<1>8. ASSUME DeleteShadowBucketByID PROVE TypedRecords
  <2>1. /\ UNCHANGED <<claim, garage>> /\ (Unpublish \/ parent' = parent) /\ shadow' \in {shadow, Strip(shadow)}
        /\ Done \/ GoTo("release") \/ bw' = [bw EXCEPT !.pc = "dropShadow", !.sh = shadow]
    BY <1>8 DEF DeleteShadowBucketByID
  <2>2. shadow' \in Shadows
    BY <1>0, <2>1, Constants DEF Strip, Shadows
  <2>3. bw' \in Workers
    BY <1>0, <1>1, <1>2, <2>1 DEF Workers, Releasing
  <2> QED
    BY <1>0, <1>1, <2>1, <2>2, <2>3 DEF TypedRecords
<1>9. ASSUME DropShadow \/ RemoveCleanupFinalizers PROVE TypedRecords
  <2>1. /\ UNCHANGED <<claim, garage>> /\ (ReleaseParent \/ (GoTo("release") /\ parent' = parent))
        /\ shadow' \in {shadow, Remove(shadow)}
    BY <1>9 DEF DropShadow, RemoveCleanupFinalizers
  <2>2. shadow' \in Shadows
    BY <1>0, <2>1, RemovalType
  <2> QED
    BY <1>0, <1>1, <1>2, <2>1, <2>2 DEF TypedRecords, Releasing
<1> QED
  BY <1>3, <1>4, <1>5, <1>6, <1>7, <1>8, <1>9

\* The GarageBucket controller on the shadow, users, Kubernetes and faults.
LEMMA OutsideTypes ==
  ASSUME Typed, Core, ShadowWorker \/ BucketEnvironment
  PROVE  TypedRecords
<1>0. /\ parent \in Parents /\ claim \in Claims /\ shadow \in Shadows /\ garage \in Garages /\ bw \in Workers
  BY DEF Typed
<1>1. ASSUME ShadowWorker PROVE TypedRecords
  <2>1. UNCHANGED <<parent, claim, bw>>
    BY <1>1 DEF ShadowWorker, ReconcileRetained, ReconcilePendingShadow, ReconcileBoundShadow, FinalizeShadow, ShadowRest
  <2>2. shadow' \in Shadows
    <3>1. [shadow EXCEPT !.fin = TRUE] \in Shadows /\ [shadow EXCEPT !.owned = TRUE] \in Shadows
      BY <1>0 DEF Shadows
    <3> QED
      BY <1>0, <1>1, <3>1, RemovalType, Constants
         DEF ShadowWorker, ReconcileRetained, ReconcilePendingShadow, ReconcileBoundShadow, FinalizeShadow
  <2>3. garage' \in Garages
    <3>1. CASE FinalizeShadow
      <4>1. \A b \in Provided : DeleteBucket(garage, b) \in Garages
        BY <1>0, DeleteBucketType DEF Provided
      <4> QED
        BY <1>0, <3>1, <4>1, FinalizingEmpties
    <3>2. CASE ReconcileBoundShadow /\ garage' # garage
      <4>1. /\ shadow.id \in BucketId
            /\ garage' = [garage EXCEPT !.alias[Pub] = shadow.id, !.conf[shadow.id] = TRUE]
        BY <1>0, <3>2 DEF ReconcileBoundShadow, Live, Shadows, IDs
      <4> QED
        BY <1>0, <4>1 DEF Garages, IDs
    <3> QED
      BY <1>0, <1>1, <3>1, <3>2 DEF ShadowWorker, ReconcileRetained, ReconcilePendingShadow
  <2> QED
    BY <1>0, <2>1, <2>2, <2>3 DEF TypedRecords
<1>2. ASSUME BindClaim \/ DeleteParent \/ ClusterReturns \/ Rescope \/ CrashBucket PROVE TypedRecords
  <2>1. UNCHANGED <<shadow, garage>>
    BY <1>2 DEF BindClaim, DeleteParent, ClusterReturns, Rescope, CrashBucket
  <2>2. parent' \in Parents
    <3>1. [parent EXCEPT !.del = TRUE] \in Parents
      BY <1>0 DEF Parents
    <3> QED
      BY <1>0, <1>2, <3>1, UnpublishKeeps, Constants DEF BindClaim, DeleteParent, ClusterReturns, Rescope, CrashBucket
  <2>3. claim' \in Claims
    BY <1>0, <1>2 DEF BindClaim, DeleteParent, ClusterReturns, Rescope, CrashBucket, Claims
  <2>4. bw' \in Workers
    BY <1>0, <1>2, Constants DEF BindClaim, DeleteParent, ClusterReturns, Rescope, CrashBucket, Outside, Done
  <2> QED
    BY <1>0, <2>1, <2>2, <2>3, <2>4 DEF TypedRecords
<1>3. ASSUME WriteObjects \/ EmptyBucket \/ TakeAlias PROVE TypedRecords
  <2>1. UNCHANGED <<parent, claim, shadow, bw>>
    BY <1>3 DEF WriteObjects, EmptyBucket, TakeAlias, Outside
  <2>2. /\ [garage EXCEPT !.full = TRUE] \in Garages /\ [garage EXCEPT !.full = FALSE] \in Garages
        /\ [garage EXCEPT !.alias[Pub] = Foreign] \in Garages
    BY <1>0, Constants DEF Garages, IDs
  <2> QED
    BY <1>0, <1>3, <2>1, <2>2 DEF WriteObjects, EmptyBucket, TakeAlias, TypedRecords
<1>4. ASSUME LoseBucket PROVE TypedRecords
  BY <1>0, <1>4, DeleteBucketType DEF LoseBucket, Outside, TypedRecords
<1>5. ASSUME ClusterGoes PROVE TypedRecords
  <2>1. [RequestDeleteShadow(shadow) EXCEPT !.gc = shadow.fin] \in Shadows
    BY <1>0, RemovalType DEF Shadows
  <2> QED
    BY <1>0, <1>5, <2>1 DEF ClusterGoes, Outside, TypedRecords
<1> QED
  BY <1>1, <1>2, <1>3, <1>4, <1>5 DEF BucketEnvironment

-----------------------------------------------------------------------------
(* The specification.                                                      *)

\* The accesses read the bucket's side and change none of it.
LEMMA AccessesReadOnly ==
  ASSUME AccessStep
  PROVE  UNCHANGED <<scene, cluster, parent, claim, shadow, garage, bw, scope>> /\ (faults' = faults \/ Fault)
<1>1. CASE \E a \in Access : ReconcileAccess(a)
  BY <1>1 DEF ReconcileAccess, StepAccess, AccessRest, cosiBucketVars
<1>2. CASE GrantAccess
  BY <1>2
     DEF GrantAccess, ReserveShadowKey, LookupKey, StripStaleShadowKey, DeleteStaleShadowKey, GiveUpKnown,
         DropTombstonedMaterial, RedrawKey, EnsureKeyReservationSecret, AnnotateReservation, ImportReservedKey,
         BindShadowKey, ReconcileCOSIKeyPermissions, DeleteKeyReservationSecret, StepAccess, AccessRest,
         cosiBucketVars
<1>3. CASE AccessSteps /\ ~GrantAccess
  BY <1>3
     DEF AccessSteps, RefuseAccess, AddAccessFinalizer, ReserveAccessSecret, ResolveBuckets, PopulateSecret,
         PublishAccessStatus, CancelAccessProvisioning, RevokeRemoteKey, DeleteShadowKeyByID, DropRevokedShadowKey,
         CompleteCleanupHandoff, CleanupDuplicateAccessIdentity, DeleteDuplicateSecret, StripDuplicate,
         DropDuplicate, StepAccess, AccessRest, cosiBucketVars
<1>4. CASE KeyWorker
  BY <1>4
     DEF KeyWorker, ReconcilePendingKey, RestoreKeyFinalizer, ReconcileBoundKey, FinalizeShadowKey, KeyWorkerRest,
         cosiBucketVars
<1>5. CASE AccessEnvironment
  BY <1>5
     DEF AccessEnvironment, DeleteAccess, UpstreamReleases, ReplaceSecret, LoseKey, CrashAccess, cosiBucketVars
<1> QED
  BY <1>1, <1>2, <1>3, <1>4, <1>5 DEF AccessStep

\* What the steps on the bucket's side do to the scene, the cluster and the faults.
LEMMA BucketStepForm ==
  ASSUME BucketStep
  PROVE  /\ scene' = scene /\ (faults' = faults \/ Fault)
         /\ cluster' \in {cluster, "Running", "NotReady", "gone"}
<1>1. CASE BucketWorker
  BY <1>1
     DEF BucketWorker, ReconcileBucket, EnsureBucket, ReleaseBucket, ReserveShadowBucket, ResolveTracked,
         ResolveReservation, AuthorizeShadowBucketCreate, CreateOrRecover, BindShadowStatus, BindShadowMetadata,
         EnsureCOSIBucketSettings, EnsureCOSIGlobalAlias, RemoveReservationAlias, ClearShadowBucketReservationAlias,
         PublishBucketStatus, SyncBoundBucketClaimReady, StripStale, StripRejected, DeleteShadowSteps,
         DropReservation, DropStatusTracked, CancelBucketProvisioning, ForgetShadowBucket, DeleteRetainedShadow,
         DeleteRemoteBucket, DeleteShadowBucketByID, DropShadow, RemoveCleanupFinalizers, StepBucket, BucketRest
<1>2. CASE ShadowWorker
  BY <1>2
     DEF ShadowWorker, ReconcileRetained, ReconcilePendingShadow, ReconcileBoundShadow, FinalizeShadow, ShadowRest
<1>3. CASE BucketEnvironment
  BY <1>3
     DEF BucketEnvironment, BindClaim, DeleteParent, WriteObjects, EmptyBucket, ClusterGoes, ClusterReturns,
         TakeAlias, LoseBucket, Rescope, CrashBucket, Outside
<1> QED
  BY <1>1, <1>2, <1>3 DEF BucketStep

\* Faults stay within their bound.
LEMMA FaultsAreBounded ==
  ASSUME Typed, scene' = scene, faults' = faults \/ Fault
  PROVE  faults' \in 0..MaxFaults[scene']
<1>1. MaxFaults[scene] \in Nat
  BY CosiAssumption, CosiBucketAssumption DEF Typed
<1> QED
  BY <1>1 DEF Typed, Fault

LEMMA StepKeepsTypes ==
  ASSUME Typed, Core, Next
  PROVE  Typed'
<1>1. CASE BucketStep
  <2>1. TypedRecords
    BY <1>1, ReservationTypes, BindingTypes, ReleaseTypes, OutsideTypes DEF BucketStep, BucketWorker, EnsureBucket, ReleaseBucket
  <2> QED
    BY <1>1, <2>1, BucketStepForm, FaultsAreBounded DEF Typed, TypedRecords
<1>2. CASE AccessStep
  BY <1>2, AccessesReadOnly, FaultsAreBounded DEF Typed
<1> QED
  BY <1>1, <1>2 DEF Next

LEMMA StepKeepsCore ==
  ASSUME Typed, Core, Next
  PROVE  Core'
<1>0. garage \in Garages
  BY DEF Typed
<1>1. CASE ReconcileBucket \/ EnsureBucket
  BY <1>1, ReconcileBucketKeeps, ReserveShadowBucketKeeps, ResolveKeeps, AuthorizeShadowBucketCreateKeeps,
     CreateOrRecoverKeeps, BindShadowStatusKeeps, BindShadowMetadataKeeps, EnsureCOSIBucketSettingsKeeps,
     EnsureCOSIGlobalAliasKeeps, RemoveReservationAliasKeeps, ClearShadowBucketReservationAliasKeeps,
     PublishBucketStatusKeeps, StripKeeps, DropReservationKeeps, DropStatusTrackedKeeps
     DEF EnsureBucket
<1>2. CASE ReleaseBucket
  BY <1>2, CancelBucketProvisioningKeeps, ForgetShadowBucketKeeps, DeleteRetainedShadowKeeps,
     DeleteRemoteBucketKeeps, DeleteShadowBucketByIDKeeps, DropShadowKeeps, RemoveCleanupFinalizersKeeps
     DEF ReleaseBucket
<1>3. CASE ShadowWorker
  BY <1>3, ReconcileRetainedKeeps, ReconcileShadowKeeps, FinalizeShadowKeeps DEF ShadowWorker
<1>4. CASE WriteObjects \/ EmptyBucket \/ ClusterReturns \/ Rescope
  <2>1. /\ UNCHANGED <<parent, claim, shadow, bw>>
        /\ \/ garage' = garage
           \/ garage' = [garage EXCEPT !.full = garage'.full]
    BY <1>0, <1>4 DEF WriteObjects, EmptyBucket, ClusterReturns, Rescope, Outside, Garages
  <2> QED
    BY <1>0, <2>1, BystandersKeep
<1>5. CASE BindClaim \/ DeleteParent \/ ClusterGoes \/ TakeAlias \/ LoseBucket \/ CrashBucket
  BY <1>5, BindClaimKeeps, DeleteParentKeeps, ClusterGoesKeeps, TakeAliasKeeps, LoseBucketKeeps, CrashBucketKeeps
<1>6. CASE AccessStep
  BY <1>0, <1>6, AccessesReadOnly, BystandersKeep
<1> QED
  BY <1>1, <1>2, <1>3, <1>4, <1>5, <1>6 DEF Next, BucketStep, BucketWorker, BucketEnvironment

\* A Bucket that is provisioned already.
LEMMA ProvisionedStart ==
  ASSUME Init, Provisioned
  PROVE  IndInv
<1>0. 1 \in 1..MaxUID /\ 1 \in ShadowUID /\ 1 \in 0..MaxUID /\ MaxUID \in Nat \ {0}
  BY CosiBucketAssumption DEF ShadowUID
<1>1. /\ parent \in Parents /\ parent.uid = 1 /\ parent.del = FALSE /\ parent.fin = TRUE /\ parent.id = Mine
      /\ parent.ready = TRUE
  <2>1. PICK p \in {"Delete", "Retain"}, ok, ref \in BOOLEAN : parent = [ReadyParent(p) EXCEPT !.ok = ok, !.ref = ref]
    BY DEF Provisioned
  <2>2. /\ ReadyParent(p) \in Parents /\ ReadyParent(p).uid = 1 /\ ReadyParent(p).del = FALSE
        /\ ReadyParent(p).fin = TRUE /\ ReadyParent(p).id = Mine /\ ReadyParent(p).ready = TRUE
    BY Constants DEF ReadyParent, NewParent, NoParent, Parents, IDs
  <2> QED
    BY <2>1, <2>2 DEF Parents
<1>2. /\ shadow \in Shadows /\ shadow.uid = 1 /\ shadow.del = FALSE /\ shadow.fin = TRUE /\ shadow.state = "Bound"
      /\ shadow.auth = FALSE /\ shadow.ann = Mine /\ shadow.id = Mine /\ shadow.retain = FALSE /\ shadow.owned = TRUE
      /\ shadow.gc = FALSE
  <2>1. /\ ShadowBucket(1) \in Shadows /\ ShadowBucket(1).uid = 1 /\ ShadowBucket(1).del = FALSE
        /\ ShadowBucket(1).fin = TRUE /\ ShadowBucket(1).auth = FALSE /\ ShadowBucket(1).retain = FALSE
        /\ ShadowBucket(1).gc = FALSE
    BY <1>0, Constants DEF ShadowBucket, NoShadow
  <2>2. shadow = [ShadowBucket(1) EXCEPT !.state = "Bound", !.ann = Mine, !.id = Mine, !.owned = TRUE]
    BY DEF Provisioned, BoundShadow
  <2> QED
    BY <2>1, <2>2, Constants DEF Shadows, IDs
<1>3. /\ garage \in Garages /\ garage.uids = 1
      /\ \A b \in BucketId : garage.bucket[b] = IF b \in {Foreign, Mine} THEN "live" ELSE "free"
      /\ \A a \in Alias : garage.alias[a] = IF a = Pub THEN Mine ELSE 0
      /\ garage.conf[Mine]
  <2> DEFINE bu == [b \in BucketId |-> IF b \in {Foreign, Mine} THEN "live" ELSE "free"]
             al == [a \in Alias |-> IF a = Pub THEN Mine ELSE 0]
             co == [b \in BucketId |-> b = Mine]
  <2>1. /\ bu \in [BucketId -> {"free", "live", "deleted"}] /\ al \in [Alias -> IDs] /\ co \in [BucketId -> BOOLEAN]
        /\ co[Mine]
    BY Constants DEF IDs
  <2>2. garage = [bucket |-> bu, alias |-> al, conf |-> co, full |-> FALSE, uids |-> 1]
    BY DEF Provisioned
  <2>3. garage.bucket = bu /\ garage.alias = al
    BY <2>2
  <2>4. /\ \A b \in BucketId : garage.bucket[b] = IF b \in {Foreign, Mine} THEN "live" ELSE "free"
        /\ \A a \in Alias : garage.alias[a] = IF a = Pub THEN Mine ELSE 0
    BY <2>3
  <2> HIDE DEF bu, al, co
  <2> QED
    BY <1>0, <2>1, <2>2, <2>4 DEF Garages
<1>4. claim \in Claims /\ claim.bound = TRUE /\ claim.ready = TRUE
  BY DEF Provisioned, Claims
<1>5. bw \in Workers /\ bw.pc = "idle"
  BY Constants DEF Init, IdleBucket
<1>6. Typed
  <2>1. MaxFaults[scene] \in Nat
    BY CosiAssumption, CosiBucketAssumption DEF Init
  <2> QED
    BY <1>1, <1>2, <1>3, <1>4, <1>5, <2>1 DEF Init, Typed
<1>7. \A u \in 1..MaxUID : garage.alias[u] = 0
  BY <1>0, <1>3 DEF Alias, Rsv, Pub
<1>8. Provided = {Mine}
  BY <1>3, Constants DEF Provided, Live, Mine, Foreign
<1>9. ShadowForm /\ ParentForm
  BY <1>1, <1>2, <1>4 DEF ShadowForm, ParentForm, Mine, Foreign
<1>10. Knowledge
  BY <1>5 DEF Knowledge, ParentKnown, ShadowKnown, PhaseKnown, BucketKnown, Ensuring, Releasing, Holding, Binding
<1>11. Tracking /\ Aliases /\ Guarded /\ Spared
  BY <1>1, <1>2, <1>7, <1>8 DEF Tracking, Aliases, Guarded, Spared, Resolves
<1>12. Counted /\ Usable
  BY <1>1, <1>2, <1>3, Constants DEF Counted, Usable, Mine, Foreign
<1> QED
  BY <1>6, <1>9, <1>10, <1>11, <1>12 DEF IndInv, Core, Custody

\* A Bucket that nothing was done for yet.
LEMMA UnprovisionedStart ==
  ASSUME Init, Unprovisioned
  PROVE  IndInv
<1>0. 0 \in 0..MaxUID /\ MaxUID \in Nat \ {0}
  BY CosiBucketAssumption
<1>1. /\ parent \in Parents /\ parent.uid = 1 /\ parent.del = FALSE /\ parent.id = 0 /\ parent.ready = FALSE
  BY Constants DEF Unprovisioned, NewParent, NoParent
<1>2. shadow \in Shadows /\ shadow = NoShadow /\ shadow.uid = 0 /\ shadow.retain = FALSE
  BY Constants DEF Unprovisioned, NoShadow
<1>3. /\ garage \in Garages /\ garage.uids = 0
      /\ \A b \in BucketId : garage.bucket[b] = IF b = Foreign THEN "live" ELSE "free"
      /\ \A a \in Alias : a # Pub => garage.alias[a] = 0
  <2>1. PICK taken \in {0, Foreign} :
          garage = [bucket |-> [b \in BucketId |-> IF b = Foreign THEN "live" ELSE "free"],
                    alias |-> [a \in Alias |-> IF a = Pub THEN taken ELSE 0],
                    conf |-> [b \in BucketId |-> FALSE], full |-> FALSE, uids |-> 0]
    BY DEF Unprovisioned
  <2> DEFINE bu == [b \in BucketId |-> IF b = Foreign THEN "live" ELSE "free"]
             al == [a \in Alias |-> IF a = Pub THEN taken ELSE 0]
             co == [b \in BucketId |-> FALSE]
  <2>2. /\ bu \in [BucketId -> {"free", "live", "deleted"}] /\ al \in [Alias -> IDs] /\ co \in [BucketId -> BOOLEAN]
    BY Constants DEF IDs
  <2>3. garage.bucket = bu /\ garage.alias = al
    BY <2>1
  <2>4. /\ \A b \in BucketId : garage.bucket[b] = IF b = Foreign THEN "live" ELSE "free"
        /\ \A a \in Alias : a # Pub => garage.alias[a] = 0
    BY <2>3
  <2>5. garage = [bucket |-> bu, alias |-> al, conf |-> co, full |-> FALSE, uids |-> 0]
    BY <2>1
  <2> HIDE DEF bu, al, co
  <2> QED
    BY <1>0, <2>2, <2>4, <2>5 DEF Garages
<1>4. claim \in Claims /\ claim.bound = FALSE /\ claim.ready = FALSE
  BY DEF Unprovisioned, Claims
<1>5. bw \in Workers /\ bw.pc = "idle"
  BY Constants DEF Init, IdleBucket
<1>6. Typed
  <2>1. MaxFaults[scene] \in Nat
    BY CosiAssumption, CosiBucketAssumption DEF Init
  <2> QED
    BY <1>1, <1>2, <1>3, <1>4, <1>5, <2>1 DEF Init, Typed
<1>7. \A u \in 1..MaxUID : garage.alias[u] = 0
  BY <1>0, <1>3 DEF Alias, Rsv, Pub
<1>8. Provided = {}
  BY <1>3 DEF Provided, Live
<1>9. ShadowForm /\ ParentForm
  BY <1>1, <1>2, <1>4 DEF ShadowForm, ParentForm, NoShadow, Foreign
<1>10. Knowledge
  BY <1>5 DEF Knowledge, ParentKnown, ShadowKnown, PhaseKnown, BucketKnown, Ensuring, Releasing, Holding, Binding
<1>11. Tracking /\ Aliases /\ Guarded /\ Spared
  BY <1>2, <1>7, <1>8 DEF Tracking, Aliases, Guarded, Spared
<1>12. Counted /\ Usable
  BY <1>1, <1>2 DEF Counted, Usable
<1> QED
  BY <1>6, <1>9, <1>10, <1>11, <1>12 DEF IndInv, Core, Custody

\* The inductive invariant of the Bucket controller: reserve, authorise,
\* create, bind and release keep the shadow, the Bucket and Garage in step,
\* whatever crashes and whoever interferes.
THEOREM BucketInvariant == Spec => []IndInv
<1>1. Init => IndInv
  BY ProvisionedStart, UnprovisionedStart DEF Init
<1>2. IndInv /\ [Next]_vars => IndInv'
  <2>1. CASE Next
    BY <2>1, StepKeepsTypes, StepKeepsCore DEF IndInv
  <2>2. CASE UNCHANGED vars
    <3>1. ASSUME IndInv, UNCHANGED vars PROVE IndInv'
      <4>1. UNCHANGED <<scene, cluster, parent, claim, shadow, garage, bw, faults>>
        BY <3>1 DEF vars, cosiBucketVars
      <4>2. Core'
        BY <3>1, <4>1, BystandersKeep DEF IndInv, Typed
      <4>3. Typed'
        BY <3>1, <4>1 DEF IndInv, Typed
      <4> QED
        BY <4>2, <4>3 DEF IndInv
    <3> QED
      BY <2>2, <3>1
  <2> QED
    BY <2>1, <2>2
<1> QED
  BY <1>1, <1>2, PTL DEF Spec

\* A Bucket whose status says ready can be used: its ID names a configured
\* bucket that is not somebody else's and that the public name resolves to,
\* and only a bound claim is ready (buildBucketResult, EnsureCOSIGlobalAlias,
\* SyncBoundBucketClaimReady).
THEOREM ReadyIsUsable == Spec => []ReadyMeansUsable
<1>1. IndInv => ReadyMeansUsable
  BY DEF IndInv, Core, ParentForm, Custody, Usable, ReadyMeansUsable, Live
<1> QED
  BY <1>1, BucketInvariant, PTL

\* Whatever crashes between two calls, a bucket the driver made is the only
\* one and either is what its shadow's finalization resolves or is retained
\* for good (ReserveShadowBucket, AuthorizeShadowBucketCreate, BindShadowBucket).
THEOREM BucketsAreTracked == Spec => []BucketIsTracked
<1>1. ASSUME IndInv, NEW b \in Provided PROVE Kept \/ (shadow.uid # 0 /\ FinalizationIDs(shadow) = {b})
  <2>1. Over => Kept
    BY DEF Over, Kept
  <2>2. b # 0
    BY <1>1 DEF Provided, Live
  <2>3. Resolves(b) => shadow.uid # 0 /\ FinalizationIDs(shadow) = {b}
    BY <2>2 DEF Resolves, FinalizationIDs, Rsv
  <2> QED
    BY <1>1, <2>1, <2>3 DEF IndInv, Core, Custody, Tracking
<1>2. ASSUME IndInv PROVE Cardinality(Provided) <= 1
  <2>1. CASE Provided = {}
    BY <2>1, FS_EmptySet
  <2>2. ASSUME NEW b \in Provided PROVE Cardinality(Provided) <= 1
    <3>1. Provided = {b}
      BY <1>2 DEF IndInv, Core, Custody, Tracking
    <3> QED
      BY SMTT(60), <3>1, FS_Singleton
  <2> QED
    BY <2>1, <2>2
<1>3. IndInv => BucketIsTracked
  BY <1>1, <1>2 DEF BucketIsTracked
<1> QED
  BY <1>3, BucketInvariant, PTL

\* A Bucket that is released leaves no shadow of its first bucket behind,
\* unless one that is being deleted and stands for no bucket of Garage
\* (CancelBucketProvisioning, DeleteShadowBucketByID, ForgetShadowBucket).
THEOREM NoShadowOutlives == Spec => []NoShadowIsLeft
<1>1. ASSUME IndInv, parent.uid = 0, shadow.uid = 1
      PROVE  shadow.del /\ \A b \in FinalizationIDs(shadow) : ~Live(garage, b)
  <2>1. shadow.del /\ Provided = {} /\ 1 \in 1..MaxUID
    BY <1>1, CosiBucketAssumption DEF IndInv, Core, ShadowForm, Custody, Guarded
  <2>2. garage.alias[1] = 0
    BY <1>1, <2>1 DEF IndInv, Core, Custody, Aliases
  <2>3. shadow.id \in IDs /\ shadow.id # Foreign
    BY <1>1 DEF IndInv, Typed, Shadows, Core, ShadowForm
  <2>4. FinalizationIDs(shadow) \subseteq {shadow.id} \ {0}
    BY <1>1, <2>2 DEF FinalizationIDs, Rsv
  <2> QED
    BY <2>1, <2>3, <2>4 DEF IDs, Provided
<1>2. IndInv => NoShadowIsLeft
  BY <1>1 DEF NoShadowIsLeft
<1> QED
  BY <1>2, BucketInvariant, PTL

\* What a step does to the buckets of a Retain Bucket.
LEMMA RetainedIsSpared ==
  ASSUME IndInv, Next, parent.policy = "Retain", ~shadow.gc, ~LoseBucket, NEW b \in Provided
  PROVE  garage'.bucket[b] = "live"
<1>0. /\ garage \in Garages /\ bw \in Workers /\ garage.bucket[b] = "live" /\ b \in BucketId /\ Typed /\ Core
      /\ garage' = garage => garage'.bucket[b] = "live"
      /\ garage'.bucket = garage.bucket => garage'.bucket[b] = "live"
  BY DEF IndInv, Typed, Provided, Live
<1>1. CASE CreateOrRecover /\ garage' # garage
  <2>1. FreeBuckets # {} /\ garage' = CreateBucket(garage, FreshBucket, Rsv(bw.sh.uid))
    BY <1>1 DEF CreateOrRecover, FailBucket
  <2>2. garage'.bucket = [garage.bucket EXCEPT ![FreshBucket] = "live"]
    BY <1>0, <2>1 DEF CreateBucket, Garages
  <2> QED
    BY <1>0, <2>2 DEF Garages
<1>2. CASE DeleteRemoteBucket
  BY <1>2 DEF DeleteRemoteBucket, StepBucket, IndInv, Core, Knowledge, ParentKnown
<1>3. CASE FinalizeShadow
  BY <1>3 DEF FinalizeShadow, IndInv, Core, Custody, Spared
<1>4. CASE ReserveShadowBucket \/ EnsureCOSIBucketSettings \/ EnsureCOSIGlobalAlias \/ DropReservation
  BY <1>0, <1>4
     DEF ReserveShadowBucket, EnsureCOSIBucketSettings, EnsureCOSIGlobalAlias, DropReservation, FailBucket, Garages
<1>5. CASE RemoveReservationAlias
  <2>1. \E al : garage' = [garage EXCEPT !.alias = al]
    BY <1>0, <1>5 DEF RemoveReservationAlias, Garages
  <2> QED
    BY <1>0, <2>1 DEF Garages
<1>6. CASE ReconcileBoundShadow \/ WriteObjects \/ EmptyBucket \/ TakeAlias
  BY <1>0, <1>6 DEF ReconcileBoundShadow, WriteObjects, EmptyBucket, TakeAlias, Garages
<1>7. CASE AccessStep
  BY <1>0, <1>7, AccessesReadOnly
<1>8. CASE \/ ReconcileBucket \/ ResolveTracked \/ ResolveReservation \/ AuthorizeShadowBucketCreate
           \/ BindShadowStatus \/ BindShadowMetadata \/ ClearShadowBucketReservationAlias
           \/ PublishBucketStatus \/ SyncBoundBucketClaimReady \/ StripStale \/ StripRejected \/ DropStatusTracked
  BY <1>0, <1>8
     DEF ReconcileBucket, ResolveTracked, ResolveReservation, AuthorizeShadowBucketCreate, BindShadowStatus,
         BindShadowMetadata, ClearShadowBucketReservationAlias, PublishBucketStatus, SyncBoundBucketClaimReady,
         StripStale, StripRejected, DeleteShadowSteps, DropStatusTracked, FailBucket
<1>9. CASE \/ CancelBucketProvisioning \/ ForgetShadowBucket \/ DeleteRetainedShadow \/ DeleteShadowBucketByID
           \/ DropShadow \/ RemoveCleanupFinalizers \/ ReconcileRetained \/ ReconcilePendingShadow
           \/ BindClaim \/ DeleteParent \/ ClusterGoes \/ ClusterReturns \/ Rescope \/ CrashBucket
  BY <1>0, <1>9
     DEF CancelBucketProvisioning, ForgetShadowBucket, DeleteRetainedShadow, DeleteShadowBucketByID, DropShadow,
         RemoveCleanupFinalizers, ReconcileRetained, ReconcilePendingShadow, BindClaim, DeleteParent, ClusterGoes,
         ClusterReturns, Rescope, CrashBucket
<1> QED
  BY <1>0, <1>1, <1>2, <1>3, <1>4, <1>5, <1>6, <1>7, <1>8, <1>9
     DEF Next, BucketStep, BucketWorker, EnsureBucket, ReleaseBucket, ShadowWorker, BucketEnvironment

\* With deletion policy Retain no step of the operator deletes the bucket,
\* except that the shadow is garbage collected with the cluster that owns it
\* (ForgetShadowBucket, validatedCOSIRetain).
THEOREM RetainedBucketsAreKept == Spec => RetainedBucketIsKept
<1>1. ASSUME IndInv, [Next]_vars
      PROVE  [parent.policy = "Retain" /\ ~shadow.gc /\ ~LoseBucket
                => \A b \in Provided : garage'.bucket[b] = "live"]_vars
  <2>1. CASE Next
    BY <1>1, <2>1, RetainedIsSpared
  <2>2. CASE UNCHANGED vars
    BY <2>2
  <2> QED
    BY <1>1, <2>1, <2>2
<1> QED
  BY <1>1, BucketInvariant, PTL DEF Spec, RetainedBucketIsKept

-----------------------------------------------------------------------------
(* The BucketAccess controller.                                            *)

\* Where the reconcile is on its way to a shadow, and where it holds one.
Entering == {"finalizer", "secret", "buckets", "reserve"}
Drawing == {"tombstone", "redraw", "material", "annotate", "import"}
Bounding == {"perms", "unreserve", "populate", "status"}
Granting == {"lookup", "stale", "giveUp", "bind"} \cup Drawing \cup Bounding
Revoking == {"revoke", "revokeShadow", "revokeDelete"}
Duplicate == {"dup", "dupSecret", "dupStrip", "dupDelete"}

KIDs == {0} \cup KeyId
Accesses ==
  [st : {"none", "live", "del", "gone"}, fin : BOOLEAN, id : KIDs, ready : BOOLEAN, handed : BOOLEAN,
   ok : BOOLEAN]
ShadowKeys ==
  [uid : 0..4, del : BOOLEAN, fin : BOOLEAN, state : {"Pending", "Bound"}, ann : KIDs, id : KIDs,
   label : BOOLEAN, owner : {0} \cup Access]
Secrets == [by : 0..Name, id : KIDs]
Accounts == [key : [KeyId -> {"free", "live", "tombstone"}], perm : [KeyId -> SUBSET AllPerms]]
AccessWorkers ==
  [pc : {"idle", "cancel", "handoff", "refuse", "annotateKnown", "staleDelete"} \cup Duplicate \cup Entering
          \cup Granting \cup Revoking,
   a : Access, who : Identity, known : KIDs, sh : ShadowKeys, id : KIDs, absent : BOOLEAN, del : BOOLEAN]

\* The types of the variables.
TypedAccess ==
  /\ access \in [Access -> Accesses] /\ keys \in [Identity -> ShadowKeys] /\ rsv \in [Identity -> KIDs]
  /\ secret \in [Access -> Secrets] /\ accounts \in Accounts /\ aw \in AccessWorkers

There(i) == keys[i].uid # 0
Bound(i) == keys[i].state = "Bound"
Owns(a) == Exists(a) /\ ~access[a].handed
\* A shadow on its way out, with nothing in Garage.
Doomed(i) == keys[i].del /\ ~LiveKey(keys[i].id)

\* A shadow key that is bound says so in annotation, label, state and status
\* alike; a key is live only where annotation and status agree on it; the
\* finalizer is taken off only when the key is gone.
KeyForm ==
  \A i \in Identity :
    /\ keys[i].uid = 0 => keys[i] = NoShadowKey
    /\ There(i) /\ ~keys[i].fin => ~keys[i].del /\ ~LiveKey(keys[i].id)
    /\ Bound(i) <=> keys[i].label = TRUE
    /\ Bound(i) => keys[i].ann # 0 /\ keys[i].id = keys[i].ann /\ accounts.key[keys[i].id] # "free"
    /\ keys[i].ann # 0 => keys[i].id # 0
    /\ LiveKey(keys[i].id) => keys[i].ann = keys[i].id
    /\ i \in Access => keys[i].owner = 0 /\ Legacy \notin Ids(keys[i])

\* No two shadows name the same key, and the shadow of an access names
\* only keys that no other access uses.
KeysDiffer ==
  /\ \A i, j \in Identity : i # j => Ids(keys[i]) \cap Ids(keys[j]) = {}
  /\ \A i, a \in Access : i # a => access[a].id \notin Ids(keys[i]) /\ secret[a].id \notin Ids(keys[i])
  /\ \A i \in Identity : keys[i].state = "Pending" =>
       \A a \in Access : access[a].id \notin Ids(keys[i]) /\ secret[a].id \notin Ids(keys[i])
  /\ \A a \in Access : access[a].id \in Ids(keys[a]) => ~keys[a].del \/ ~LiveKey(access[a].id)

\* A live key is in the status of a shadow.
KeyTracking == \A k \in KeyId : LiveKey(k) => \E i \in Identity : There(i) /\ keys[i].id = k

\* An access that is gone or was handed off has no shadow of its own, but
\* one on its way out.
AccessForm ==
  \A a \in Access :
    /\ access[a].handed => access[a].st = "del"
    /\ ~Owns(a) /\ There(a) => Doomed(a)
    /\ ~Exists(a) => access[a].id = 0
    /\ access[a].id # 0 => accounts.key[access[a].id] # "free"

\* Two accesses share a key only if an earlier release left it to them.
Sharing ==
  access[1].id = access[2].id /\ access[1].id # 0 =>
    access[1].id = Legacy /\ (There(Name) => Bound(Name) /\ keys[Name].id = Legacy)

\* Credentials are where they belong.
SecretForm ==
  \A a \in Access : secret[a].id # 0 =>
    /\ secret[a].by = a /\ Exists(a)
    /\ accounts.key[secret[a].id] # "free" /\ accounts.perm[secret[a].id] \subseteq Want
    /\ \A b \in Access : access[b].id = secret[a].id => access[a].id = secret[a].id

\* A legacy reservation is given up only for the access that is recorded as
\* its owner, a bound shadow when no live access uses its key; one without
\* an owner is still needed, or was never looked at.
GivenUp ==
  IF Bound(Name)
  THEN ~LiveKey(keys[Name].id) /\ \A a \in Access : access[a].st = "live" => access[a].id # keys[Name].id
  ELSE keys[Name].owner # 0 /\ access[keys[Name].owner].st # "live"
LegacyForm ==
  /\ keys[Name].del => GivenUp
  /\ There(Name) /\ ~Doomed(Name) /\ keys[Name].owner = 0 =>
       IF Bound(Name) THEN \E a \in Access : Owns(a) /\ access[a].id = keys[Name].id
       ELSE aw.pc = "idle" /\ \A a \in Access : Owns(a) /\ access[a].id = 0 /\ ~There(a)

\* What a reconcile knows of its access, and which shadow it turned to.
AccessKnown ==
  /\ aw.pc # "idle" =>
       /\ aw.who \in {aw.a, Name} /\ Owns(aw.a) /\ access[aw.a].id = aw.known
       /\ aw.who = Name => ~There(aw.a)
  /\ aw.pc \in Revoking \cup {"dup"} => aw.known # 0
  /\ aw.pc \in Duplicate => aw.who = aw.a
  /\ aw.pc = "dup" /\ There(aw.a) => Ids(keys[aw.a]) # {aw.known}
  /\ aw.pc \in {"dupSecret", "dupStrip", "dupDelete"} /\ There(aw.a) => ~LiveKey(keys[aw.a].id)
  /\ aw.pc \in {"cancel", "handoff"} \cup Revoking => access[aw.a].st = "del"
  /\ aw.pc = "cancel" =>
       aw.known = 0 /\ (aw.who = Name /\ There(Name) => ~Bound(Name) /\ keys[Name].owner = aw.a)
  /\ aw.pc \in Revoking =>
       /\ There(aw.a) => Authority(aw.a, aw.known)
       /\ LiveKey(aw.known) => \A b \in Access : access[b].st = "live" => access[b].id # aw.known
       /\ There(Name) /\ ~Doomed(Name) /\ keys[Name].owner = 0 =>
            \/ Authority(Name, aw.known)
            \/ \E b \in Access \ {aw.a} : Owns(b) /\ access[b].id = keys[Name].id
  /\ aw.pc \in {"revokeShadow", "revokeDelete"} => ~LiveKey(aw.known)
  /\ aw.pc = "revokeDelete" =>
       /\ There(aw.who) => Authority(aw.who, aw.known) /\ keys[aw.who].uid = aw.sh.uid
       /\ Authority(Name, aw.known) => aw.who = Name
  /\ aw.pc = "handoff" =>
       /\ There(aw.a) => Doomed(aw.a)
       /\ There(Name) /\ ~Doomed(Name) /\ keys[Name].owner = 0 => \E b \in Access \ {aw.a} : Owns(b) /\ access[b].id = keys[Name].id
  /\ aw.pc # "annotateKnown"

\* What it knows of the shadow it is about to use.
TurnKnown ==
  aw.pc \in Entering \cup Granting =>
    /\ aw.who = Name => There(Name) /\ ~keys[Name].del
    /\ aw.who = Name /\ aw.known # 0 => Bound(Name) /\ keys[Name].id = aw.known
    /\ aw.who = Name /\ aw.known = 0 =>
         \A b \in Access \ {aw.a} : access[b].id \notin Ids(keys[Name]) /\ secret[b].id \notin Ids(keys[Name])
    /\ aw.who = aw.a /\ LiveKey(aw.known) => aw.known \in Ids(keys[aw.a])

\* What it knows of the shadow it holds.
HoldKnown ==
  /\ aw.pc \in Granting => There(aw.who) /\ ~keys[aw.who].del /\ keys[aw.who].fin /\ aw.sh = keys[aw.who]
  /\ aw.pc \in Drawing => aw.known = 0 /\ aw.sh.state = "Pending"
  /\ aw.pc = "stale" => aw.id # 0 /\ ~LiveKey(aw.id) /\ aw.sh.ann = aw.id
  /\ aw.pc = "staleDelete" /\ There(aw.who) => Bound(aw.who) /\ ~LiveKey(keys[aw.who].id)
  /\ aw.pc = "giveUp" => aw.sh.ann = 0 /\ aw.known # 0
  /\ aw.pc \in {"tombstone", "redraw"} => ~LiveKey(aw.sh.id)
  /\ aw.pc \in {"annotate", "import", "bind"} \cup Bounding => aw.id # 0 /\ aw.sh.id = aw.id
  /\ aw.pc \in {"import", "bind"} \cup Bounding => aw.sh.ann = aw.id
  /\ aw.pc \in {"bind"} \cup Bounding => accounts.key[aw.id] # "free" /\ (aw.known # 0 => aw.id = aw.known)
  /\ aw.pc \in Bounding => aw.sh.state = "Bound"
  /\ aw.pc \in {"unreserve", "populate", "status"} => accounts.perm[aw.id] \subseteq Want

AccessCore ==
  /\ KeyForm /\ KeysDiffer /\ KeyTracking /\ AccessForm /\ Sharing /\ SecretForm /\ LegacyForm
  /\ AccessKnown /\ TurnKnown /\ HoldKnown

\* Only an earlier release made a legacy shadow.  No key is lost there, and
\* the key of an access that is not deleted stays.
LegacyServed ==
  scene = "legacy" =>
    /\ \A a \in Access : access[a].st = "live" /\ access[a].id # 0 => LiveKey(access[a].id)
    /\ aw.pc \in {"bind"} \cup Bounding => LiveKey(aw.id)
LegacyScene == (There(Name) => scene = "legacy") /\ LegacyServed
AccessInv == TypedAccess /\ AccessCore /\ LegacyScene

-----------------------------------------------------------------------------
(* What every step relies on.                                              *)

LEMMA Names ==
  /\ Access \subseteq Identity /\ Name \in Identity /\ Name \notin Access
  /\ \A i \in Identity : i \in Access \/ i = Name
  /\ 1 \in Access /\ 2 \in Access /\ \A a \in Access : a = 1 \/ a = 2
  BY DEF Access, Identity, Name

\* Where the worker is.
LEMMA Points ==
  /\ "idle" \notin Entering \cup Granting \cup Revoking
  /\ \A p \in {"cancel", "handoff", "refuse", "staleDelete"} \cup Duplicate \cup Revoking : p \notin Entering \cup Granting
  BY DEF Entering, Granting, Drawing, Bounding, Revoking, Duplicate

\* The accesses are who they were, and use the keys they used.
AccessesKept ==
  \A a \in Access : access'[a].st = access[a].st /\ access'[a].id = access[a].id /\ access'[a].handed = access[a].handed

\* What the invariant says of the objects does not depend on the reconcile.
ObjectForms == KeyForm /\ KeysDiffer /\ KeyTracking /\ AccessForm /\ Sharing /\ SecretForm
LEMMA StayingKeeps ==
  ASSUME TypedAccess, AccessCore, AccessesKept, UNCHANGED <<keys, secret, accounts>>
  PROVE  ObjectForms' /\ (aw'.pc = "idle" \/ aw.pc # "idle" => LegacyForm')
<1>1. KeyForm' /\ KeyTracking'
  BY DEF AccessCore, KeyForm, KeyTracking, LiveKey, There, Bound
<1>2. KeysDiffer'
  BY DEF AccessCore, KeysDiffer, AccessesKept, LiveKey
<1>3. AccessForm' /\ Sharing'
  BY Names DEF AccessCore, AccessForm, Sharing, AccessesKept, Owns, Exists, There, Bound, Doomed, LiveKey
<1>4. SecretForm'
  BY DEF AccessCore, SecretForm, AccessesKept, Exists
<1>5. ASSUME aw'.pc = "idle" \/ aw.pc # "idle" PROVE LegacyForm'
  <2>1. keys[Name].owner # 0 => access'[keys[Name].owner].st = access[keys[Name].owner].st
    BY Names DEF TypedAccess, ShadowKeys, AccessesKept
  <2>2. \A a \in Access : (Owns(a) <=> Owns(a)') /\ access'[a].id = access[a].id
    BY DEF AccessesKept, Owns, Exists
  <2>3. There(Name)' = There(Name) /\ Bound(Name)' = Bound(Name) /\ Doomed(Name)' = Doomed(Name)
    BY DEF There, Bound, Doomed, LiveKey
  <2>4. GivenUp => GivenUp'
    BY <2>1, <2>3 DEF GivenUp, AccessesKept, LiveKey
  <2> QED
    BY <1>5, <2>1, <2>2, <2>3, <2>4 DEF AccessCore, LegacyForm, There
<1> QED
  BY <1>1, <1>2, <1>3, <1>4, <1>5 DEF ObjectForms

\* A reconcile that ends, or is cut off, without an effect.
LEMMA LeavingIsSafe ==
  ASSUME TypedAccess, AccessCore, AccessesKept, UNCHANGED <<keys, secret, accounts>>, aw'.pc = "idle"
  PROVE  AccessCore'
<1>1. AccessKnown' /\ TurnKnown' /\ HoldKnown'
  BY Points DEF AccessKnown, TurnKnown, HoldKnown, Entering, Granting, Drawing, Bounding, Revoking, Duplicate
<1> QED
  BY <1>1, StayingKeeps DEF AccessCore, ObjectForms

\* One access, or one shadow key, is written.
LEMMA AccessUpdate ==
  ASSUME access \in [Access -> Accesses], NEW a \in Access, NEW r \in Accesses, access' = [access EXCEPT ![a] = r]
  PROVE  /\ access' \in [Access -> Accesses] /\ access'[a] = r
         /\ \A b \in Access \ {a} : access'[b] = access[b]
  OBVIOUS
LEMMA KeyUpdate ==
  ASSUME keys \in [Identity -> ShadowKeys], NEW i \in Identity, NEW r \in ShadowKeys, keys' = [keys EXCEPT ![i] = r]
  PROVE  /\ keys' \in [Identity -> ShadowKeys] /\ keys'[i] = r
         /\ \A j \in Identity \ {i} : keys'[j] = keys[j]
  OBVIOUS

LEMMA AUnpublishKeeps ==
  ASSUME TypedAccess, AUnpublish
  PROVE  AccessesKept /\ access' \in [Access -> Accesses]
<1>1. aw.a \in Access /\ access \in [Access -> Accesses]
  BY DEF TypedAccess, AccessWorkers
<1> DEFINE r == [access[aw.a] EXCEPT !.ready = FALSE]
<1>2. access' = access \/ access' = [access EXCEPT ![aw.a] = r]
  BY <1>1 DEF AUnpublish
<1>3. r \in Accesses /\ r.st = access[aw.a].st /\ r.id = access[aw.a].id /\ r.handed = access[aw.a].handed
  BY <1>1 DEF Accesses
<1> HIDE DEF r
<1>4. ASSUME access' = [access EXCEPT ![aw.a] = r] PROVE AccessesKept /\ access' \in [Access -> Accesses]
  BY <1>1, <1>3, <1>4, AccessUpdate DEF AccessesKept
<1> QED
  BY <1>1, <1>2, <1>4 DEF AccessesKept

\* A step that fails leaves everything as it is.
LEMMA AFailKeeps ==
  ASSUME TypedAccess, AccessCore, FailAccess
  PROVE  AccessCore' /\ access' \in [Access -> Accesses]
<1>1. aw'.pc = "idle" /\ UNCHANGED <<keys, secret, accounts>>
  BY DEF FailAccess, ADone, IdleAccess
<1> QED
  BY <1>1, AUnpublishKeeps, LeavingIsSafe DEF FailAccess

-----------------------------------------------------------------------------
(* Shadows that go, are given up, or lose their finalizer and regain it.   *)

SameShadow(i) ==
  /\ keys'[i].uid = keys[i].uid /\ keys'[i].state = keys[i].state /\ keys'[i].ann = keys[i].ann
  /\ keys'[i].id = keys[i].id /\ keys'[i].label = keys[i].label /\ keys'[i].owner = keys[i].owner
DeadNext(i) == keys[i].id # 0 => accounts'.key[keys[i].id] # "live"
\* A shadow that may be deleted.
Expendable(i) ==
  /\ i \in Access => access[i].id \notin Ids(keys[i]) \/ ~LiveKey(keys[i].id)
  /\ i = Name => GivenUp
Moved(i) ==
  \/ keys'[i] = NoShadowKey /\ DeadNext(i)
  \/ /\ SameShadow(i) /\ (keys[i].uid = 0 => keys'[i] = keys[i])
     /\ keys'[i].uid # 0 /\ ~keys'[i].fin => ~keys'[i].del /\ DeadNext(i)
     /\ keys[i].del => keys'[i].del = TRUE
     /\ keys'[i].del => keys[i].del = TRUE \/ Expendable(i)
\* Keys go or lose permissions.
AccountsShrink ==
  \A k \in KeyId : /\ accounts.key[k] # "free" => accounts'.key[k] # "free"
                   /\ accounts'.perm[k] = accounts.perm[k] \/ accounts'.perm[k] \subseteq Want
                   /\ accounts'.key[k] = "live" => accounts.key[k] = "live"
MovesShadows == (\A i \in Identity : Moved(i)) /\ AccountsShrink /\ UNCHANGED secret /\ AccessesKept

\* A live key that a shadow names is the one of its status.
LEMMA LiveIsStatus ==
  ASSUME TypedAccess, AccessCore, NEW i \in Identity, NEW k \in Ids(keys[i]), LiveKey(k)
  PROVE  keys[i].id = k
<1>1. k \in KeyId
  BY DEF TypedAccess, ShadowKeys, KIDs, Ids
<1>2. PICK j \in Identity : There(j) /\ keys[j].id = k
  BY <1>1 DEF AccessCore, KeyTracking
<1>3. k \in Ids(keys[j])
  BY <1>2 DEF LiveKey, Ids
<1> QED
  BY <1>2, <1>3 DEF AccessCore, KeysDiffer

LEMMA MovedForm ==
  ASSUME TypedAccess, MovesShadows
  PROVE  /\ \A i \in Identity : There(i)' => There(i) /\ SameShadow(i)
         /\ \A i \in Identity : Ids(keys[i])' \subseteq Ids(keys[i])
         /\ \A i \in Identity : Bound(i)' => Bound(i) /\ SameShadow(i)
         /\ \A i \in Identity : LiveKey(keys[i].id) => LiveKey(keys[i].id)' \/ DeadNext(i)
         /\ \A k \in KIDs : LiveKey(k)' => LiveKey(k)
         /\ \A i \in Identity : keys[i].id \in KIDs
         /\ \A i \in Identity : SameShadow(i) => (There(i)' = There(i)) /\ (Bound(i)' = Bound(i)) /\ (Ids(keys[i])' = Ids(keys[i]))
         /\ \A i \in Identity : Doomed(i) /\ There(i)' => Doomed(i)'
         /\ \A a \in Access : access[a].id \in KIDs /\ secret[a].id \in KIDs /\ Owns(a)' = Owns(a) /\ Exists(a)' = Exists(a)
         /\ \A k \in KIDs : k # 0 => k \in KeyId
         /\ secret' = secret
<1>1. /\ NoShadowKey.uid = 0 /\ NoShadowKey.state = "Pending" /\ NoShadowKey.ann = 0 /\ NoShadowKey.id = 0
      /\ NoShadowKey.label = FALSE /\ NoShadowKey.owner = 0 /\ ~NoShadowKey.del
  BY DEF NoShadowKey
<1>2. ASSUME NEW i \in Identity
      PROVE  /\ There(i)' => There(i) /\ SameShadow(i)
             /\ Ids(keys[i])' \subseteq Ids(keys[i])
             /\ Bound(i)' => Bound(i) /\ SameShadow(i)
             /\ SameShadow(i) => (There(i)' = There(i)) /\ (Bound(i)' = Bound(i)) /\ (Ids(keys[i])' = Ids(keys[i]))
             /\ There(i)' /\ keys[i].del => keys'[i].del
  <2>1. Moved(i)
    BY DEF MovesShadows
  <2>2. CASE keys'[i] = NoShadowKey
    BY <1>1, <2>2 DEF There, Bound, Ids, SameShadow
  <2>3. CASE SameShadow(i)
    BY <1>1, <2>1, <2>3 DEF Moved, There, Bound, Ids, SameShadow
  <2> QED
    BY <2>1, <2>2, <2>3 DEF Moved
<1>3. /\ \A k \in KIDs : LiveKey(k)' => LiveKey(k)
      /\ \A i \in Identity : keys[i].id \in KIDs
      /\ \A a \in Access : access[a].id \in KIDs /\ secret[a].id \in KIDs /\ Owns(a)' = Owns(a) /\ Exists(a)' = Exists(a)
      /\ \A k \in KIDs : k # 0 => k \in KeyId
      /\ secret' = secret
  BY DEF MovesShadows, AccountsShrink, LiveKey, KIDs, TypedAccess, ShadowKeys, Accesses, Secrets, AccessesKept, Owns, Exists
<1>4. ASSUME NEW i \in Identity, Doomed(i), There(i)' PROVE Doomed(i)'
  <2>1. keys'[i].del /\ keys'[i].id = keys[i].id
    BY <1>2, <1>4 DEF Doomed, SameShadow
  <2>2. ~LiveKey(keys[i].id)'
    BY <1>3, <1>4, <2>1 DEF Doomed, LiveKey
  <2> QED
    BY <2>1, <2>2 DEF Doomed
<1>5. ASSUME NEW i \in Identity, LiveKey(keys[i].id), ~DeadNext(i) PROVE LiveKey(keys[i].id)'
  <2>1. Moved(i)
    BY DEF MovesShadows
  <2>2. keys'[i].id = keys[i].id
    BY <1>5, <2>1 DEF Moved, SameShadow
  <2> QED
    BY <1>5, <2>2 DEF LiveKey, DeadNext
<1> QED
  BY <1>2, <1>3, <1>4, <1>5

LEMMA ShadowsMovingKeep ==
  ASSUME TypedAccess, AccessCore, MovesShadows
  PROVE  ObjectForms' /\ (aw'.pc = "idle" \/ aw.pc # "idle" => LegacyForm')
<1>0. /\ NoShadowKey.uid = 0 /\ NoShadowKey.state = "Pending" /\ NoShadowKey.ann = 0 /\ NoShadowKey.id = 0
      /\ NoShadowKey.label = FALSE /\ NoShadowKey.owner = 0 /\ ~NoShadowKey.del
  BY DEF NoShadowKey
<1>1. /\ \A i \in Identity : There(i)' => There(i) /\ SameShadow(i)
      /\ \A i \in Identity : Ids(keys[i])' \subseteq Ids(keys[i])
      /\ \A i \in Identity : Bound(i)' => Bound(i) /\ SameShadow(i)
      /\ \A i \in Identity : Moved(i)
  BY MovedForm DEF MovesShadows
<1>2. /\ \A i \in Identity : SameShadow(i) => (There(i)' = There(i)) /\ (Bound(i)' = Bound(i)) /\ (Ids(keys[i])' = Ids(keys[i]))
      /\ \A i \in Identity : Doomed(i) /\ There(i)' => Doomed(i)'
  BY MovedForm
<1>3. /\ \A k \in KIDs : LiveKey(k)' => LiveKey(k)
      /\ \A i \in Identity : keys[i].id \in KIDs
      /\ \A a \in Access : access[a].id \in KIDs /\ secret[a].id \in KIDs /\ Owns(a)' = Owns(a) /\ Exists(a)' = Exists(a)
      /\ \A k \in KIDs : k # 0 => k \in KeyId
      /\ secret' = secret
  BY MovedForm
<1>4. KeyForm'
  <2>1. ASSUME NEW i \in Identity, keys'[i] = NoShadowKey
        PROVE  /\ keys'[i] = NoShadowKey /\ ~There(i)' /\ (Bound(i)' <=> keys'[i].label = TRUE) /\ ~Bound(i)'
               /\ keys'[i].ann = 0 /\ ~LiveKey(keys[i].id)' /\ keys'[i].owner = 0 /\ Ids(keys[i])' = {}
    BY <1>0, <2>1 DEF There, LiveKey, Bound, Ids
  <2>2. ASSUME NEW i \in Identity, keys'[i] # NoShadowKey
        PROVE  /\ keys'[i].uid = 0 => keys'[i] = NoShadowKey
               /\ There(i)' /\ ~keys'[i].fin => ~keys'[i].del /\ ~LiveKey(keys[i].id)'
               /\ Bound(i)' <=> keys'[i].label = TRUE
               /\ Bound(i)' => keys'[i].ann # 0 /\ keys'[i].id = keys'[i].ann /\ accounts'.key[keys'[i].id] # "free"
               /\ keys'[i].ann # 0 => keys'[i].id # 0
               /\ LiveKey(keys[i].id)' => keys'[i].ann = keys'[i].id
               /\ i \in Access => keys'[i].owner = 0 /\ Legacy \notin Ids(keys[i])'
    <3>1. SameShadow(i) /\ (keys[i].uid = 0 => keys'[i] = keys[i])
          /\ (keys'[i].uid # 0 /\ ~keys'[i].fin => ~keys'[i].del /\ DeadNext(i))
      BY <1>1, <2>2 DEF Moved
    <3>2. (There(i)' = There(i)) /\ (Bound(i)' = Bound(i)) /\ (Ids(keys[i])' = Ids(keys[i]))
      BY <1>2, <3>1
    <3>3. LiveKey(keys[i].id)' => LiveKey(keys[i].id)
      BY <1>3, <2>2, <3>1 DEF LiveKey, SameShadow
    <3>4. keys[i].id # 0 /\ accounts.key[keys[i].id] # "free" => accounts'.key[keys[i].id] # "free"
      BY <1>3, <2>2 DEF MovesShadows, AccountsShrink
    <3>5. DeadNext(i) => ~LiveKey(keys[i].id)'
      BY <3>1 DEF DeadNext, LiveKey, SameShadow
    <3>6. /\ keys[i].uid = 0 => keys[i] = NoShadowKey
          /\ Bound(i) <=> keys[i].label = TRUE
          /\ Bound(i) => keys[i].ann # 0 /\ keys[i].id = keys[i].ann /\ accounts.key[keys[i].id] # "free"
          /\ keys[i].ann # 0 => keys[i].id # 0
          /\ LiveKey(keys[i].id) => keys[i].ann = keys[i].id
          /\ i \in Access => keys[i].owner = 0 /\ Legacy \notin Ids(keys[i])
      BY <2>2 DEF AccessCore, KeyForm
    <3> QED
      BY <3>1, <3>2, <3>3, <3>4, <3>5, <3>6 DEF SameShadow, There
  <2>3. NoShadowKey.uid = 0 /\ (\A i \in Identity : ~There(i)' => keys'[i] = NoShadowKey)
    BY <1>0, <2>2 DEF There
  <2> QED
    BY <2>1, <2>2, <2>3, <1>0 DEF KeyForm
<1>5. KeysDiffer'
  <2>1. \A i \in Identity, a \in Access : access'[a].id \in Ids(keys[i])' \/ secret'[a].id \in Ids(keys[i])' =>
           keys'[i].state = keys[i].state /\ (access[a].id \in Ids(keys[i]) \/ secret[a].id \in Ids(keys[i]))
    <3>1. \A i \in Identity : Ids(keys[i])' # {} => SameShadow(i)
      BY <1>0, <1>1 DEF Moved, Ids
    <3> QED
      BY <1>1, <1>3, <3>1 DEF MovesShadows, AccessesKept, SameShadow
  <2>2. \A a \in Access : access'[a].id = access[a].id
    BY DEF MovesShadows, AccessesKept
  <2>3. ASSUME NEW a \in Access, access[a].id \in Ids(keys[a])', keys'[a].del PROVE ~LiveKey(access[a].id)'
    <3>1. a \in Identity /\ Moved(a) /\ access[a].id \in Ids(keys[a]) /\ keys'[a] # NoShadowKey
      BY <1>0, <1>1, <2>3, Names
    <3>2. keys[a].del \/ Expendable(a)
      BY <2>3, <3>1 DEF Moved
    <3>3. keys[a].del => ~LiveKey(access[a].id)
      BY <3>1 DEF AccessCore, KeysDiffer
    <3>4. Expendable(a) => ~LiveKey(keys[a].id)
      BY <3>1 DEF Expendable
    <3>5. ~LiveKey(access[a].id)
      BY <3>1, <3>2, <3>3, <3>4, LiveIsStatus
    <3> QED
      BY <1>3, <2>2, <3>5 DEF LiveKey
  <2>4. \A i, j \in Identity : i # j => Ids(keys[i])' \cap Ids(keys[j])' = {}
    BY <1>1 DEF AccessCore, KeysDiffer
  <2>5. \A i, a \in Access : i # a => access'[a].id \notin Ids(keys[i])' /\ secret'[a].id \notin Ids(keys[i])'
    BY <2>1, Names DEF AccessCore, KeysDiffer
  <2>6. \A i \in Identity : keys'[i].state = "Pending" =>
          \A a \in Access : access'[a].id \notin Ids(keys[i])' /\ secret'[a].id \notin Ids(keys[i])'
    BY <2>1 DEF AccessCore, KeysDiffer
  <2>7. \A a \in Access : access'[a].id \in Ids(keys[a])' => ~keys'[a].del \/ ~LiveKey(access[a].id)'
    BY <2>2, <2>3
  <2> QED
    BY <2>4, <2>5, <2>6, <2>7 DEF KeysDiffer
<1>6. KeyTracking'
  <2>1. ASSUME NEW k \in KeyId, LiveKey(k)' PROVE \E i \in Identity : There(i)' /\ keys'[i].id = k
    <3>1. LiveKey(k)
      BY <1>3, <2>1 DEF KIDs
    <3>2. PICK i \in Identity : There(i) /\ keys[i].id = k
      BY <2>1, <3>1 DEF AccessCore, KeyTracking
    <3>3. ~DeadNext(i)
      BY <2>1, <3>2 DEF DeadNext, LiveKey
    <3>4. SameShadow(i)
      BY <1>1, <3>3 DEF Moved
    <3> QED
      BY <3>2, <3>4 DEF SameShadow, There
  <2> QED
    BY <2>1 DEF KeyTracking
<1>7. AccessForm' /\ Sharing' /\ SecretForm'
  <2>1. /\ \A a \in Access : access'[a].id = access[a].id /\ access'[a].st = access[a].st /\ access'[a].handed = access[a].handed
        /\ \A a \in Access : access[a].id # 0 => access[a].id \in KeyId
        /\ \A a \in Access : secret[a].id # 0 => secret[a].id \in KeyId
    BY <1>3 DEF MovesShadows, AccessesKept
  <2>2. AccessForm'
    <3>1. \A a \in Access : ~Owns(a)' /\ There(a)' => Doomed(a)'
      BY <1>1, <1>2, <1>3, Names DEF AccessCore, AccessForm
    <3> QED
      BY <1>3, <2>1, <3>1 DEF AccessCore, AccessForm, MovesShadows, AccountsShrink
  <2>3. Sharing'
    BY <1>1, <1>2, <2>1, Names DEF AccessCore, Sharing, SameShadow
  <2>4. SecretForm'
    <3>1. ASSUME NEW a \in Access, secret[a].id # 0
          PROVE  /\ secret[a].by = a /\ Exists(a)' /\ accounts'.key[secret[a].id] # "free"
                 /\ accounts'.perm[secret[a].id] \subseteq Want
                 /\ \A b \in Access : access'[b].id = secret[a].id => access'[a].id = secret[a].id
      BY <1>3, <2>1, <3>1 DEF AccessCore, SecretForm, MovesShadows, AccountsShrink
    <3> QED
      BY <1>3, <3>1 DEF SecretForm
  <2> QED
    BY <2>2, <2>3, <2>4
<1>8. ASSUME aw'.pc = "idle" \/ aw.pc # "idle" PROVE LegacyForm'
  <2>1. CASE keys'[Name] = NoShadowKey
    BY <1>0, <2>1 DEF LegacyForm, There
  <2>2. CASE keys'[Name] # NoShadowKey
    <3>1. Moved(Name) /\ SameShadow(Name)
      BY <1>1, <2>2, Names DEF Moved
    <3>2. (There(Name)' = There(Name)) /\ (Bound(Name)' = Bound(Name)) /\ keys'[Name].owner = keys[Name].owner
          /\ keys'[Name].id = keys[Name].id
      BY <1>2, <3>1, Names DEF SameShadow
    <3>3. keys[Name].owner # 0 => access'[keys[Name].owner].st = access[keys[Name].owner].st
      BY Names DEF TypedAccess, ShadowKeys, MovesShadows, AccessesKept
    <3>4. \A a \in Access : access'[a].id = access[a].id /\ access'[a].st = access[a].st /\ (There(a)' => There(a))
      BY <1>1, Names DEF MovesShadows, AccessesKept
    <3>5. LiveKey(keys[Name].id)' => LiveKey(keys[Name].id)
      BY <1>3, <3>2, Names DEF LiveKey
    <3>6. keys'[Name].del => GivenUp
      BY <2>2, <3>1, Names DEF Moved, Expendable, AccessCore, LegacyForm
    <3>7. keys'[Name].del => GivenUp'
      BY <3>2, <3>3, <3>4, <3>5, <3>6 DEF GivenUp
    <3>8. Doomed(Name) /\ There(Name)' => Doomed(Name)'
      BY <1>2, Names
    <3>9. ASSUME There(Name), ~Doomed(Name), keys[Name].owner = 0
          PROVE  IF Bound(Name) THEN \E a \in Access : Owns(a)' /\ access'[a].id = keys[Name].id
                 ELSE aw'.pc = "idle" /\ \A a \in Access : Owns(a)' /\ access'[a].id = 0 /\ ~There(a)'
      BY <1>3, <1>8, <3>4, <3>9 DEF AccessCore, LegacyForm
    <3> QED
      BY <3>2, <3>7, <3>8, <3>9 DEF LegacyForm
  <2> QED
    BY <2>1, <2>2
<1> QED
  BY <1>4, <1>5, <1>6, <1>7, <1>8 DEF ObjectForms

-----------------------------------------------------------------------------
(* Steps on the way to the shadow.                                         *)

LEMMA TurningKeeps ==
  ASSUME TypedAccess, AccessCore,
         RefuseAccess \/ AddAccessFinalizer \/ ReserveAccessSecret \/ ResolveBuckets
  PROVE  AccessCore'
<1>0. aw.a \in Access /\ aw \in AccessWorkers /\ access \in [Access -> Accesses] /\ secret \in [Access -> Secrets]
  BY DEF TypedAccess, AccessWorkers
<1>1. CASE FailAccess
  BY <1>1, AFailKeeps
<1>2. CASE AddAccessFinalizer
  <2>1. /\ aw'.pc = "idle" /\ UNCHANGED <<keys, secret, accounts>>
        /\ \/ access' = access
           \/ access' = [access EXCEPT ![aw.a] = [access[aw.a] EXCEPT !.fin = TRUE]]
    BY <1>0, <1>2 DEF AddAccessFinalizer, ADone, IdleAccess, Accesses
  <2>2. AccessesKept
    BY <1>0, <2>1 DEF AccessesKept, Accesses
  <2> QED
    BY <2>1, <2>2, LeavingIsSafe
<1>3. ASSUME ReserveAccessSecret, ~FailAccess PROVE AccessCore'
  <2>1. /\ aw.pc = "secret" /\ secret[aw.a].by \in {0, aw.a}
        /\ secret' = [secret EXCEPT ![aw.a].by = aw.a] /\ aw' = [aw EXCEPT !.pc = "buckets"]
        /\ UNCHANGED <<access, keys, accounts>>
    BY <1>3 DEF ReserveAccessSecret, StepAccess, AGoTo
  <2>2. /\ aw'.pc = "buckets" /\ aw'.a = aw.a /\ aw'.who = aw.who /\ aw'.known = aw.known
        /\ UNCHANGED <<access, keys, accounts>>
    BY <1>0, <2>1 DEF AccessWorkers
  <2>3. /\ \A a \in Access : secret'[a].id = secret[a].id
        /\ \A a \in Access : secret'[a].by = secret[a].by \/ secret'[a].by = a
    BY <1>0, <2>1 DEF Secrets
  <2>4. KeyForm' /\ KeyTracking' /\ AccessForm' /\ Sharing'
    BY <2>2 DEF AccessCore, KeyForm, KeyTracking, AccessForm, Sharing, LiveKey, There, Bound, Owns, Exists, Doomed
  <2>5. KeysDiffer' /\ SecretForm'
    BY SMTT(60), <2>2, <2>3 DEF AccessCore, KeysDiffer, SecretForm, Exists, LiveKey
  <2>6. LegacyForm'
    BY <2>1, <2>2 DEF AccessCore, LegacyForm, GivenUp, Doomed, LiveKey, Owns, Exists, There, Bound
  <2>7. AccessKnown' /\ TurnKnown' /\ HoldKnown'
    BY <2>1, <2>2, <2>3, Names
       DEF AccessCore, AccessKnown, TurnKnown, HoldKnown, Entering, Granting, Drawing, Bounding, Revoking, Duplicate,
           Owns, Exists, There, Bound, LiveKey
  <2> QED
    BY <2>4, <2>5, <2>6, <2>7 DEF AccessCore
<1>4. ASSUME ResolveBuckets, ~FailAccess PROVE AccessCore'
  <2>1. aw.pc = "buckets" /\ aw' = [aw EXCEPT !.pc = "reserve"] /\ UNCHANGED <<access, keys, secret, accounts>>
    BY <1>4 DEF ResolveBuckets, StepAccess, AGoTo
  <2>2. /\ aw'.pc = "reserve" /\ aw'.a = aw.a /\ aw'.who = aw.who /\ aw'.known = aw.known
        /\ UNCHANGED <<access, keys, secret, accounts>>
    BY <1>0, <2>1 DEF AccessWorkers
  <2>3. AccessesKept
    BY <2>2 DEF AccessesKept
  <2>4. AccessKnown' /\ TurnKnown' /\ HoldKnown'
    BY <2>1, <2>2, Names
       DEF AccessCore, AccessKnown, TurnKnown, HoldKnown, Entering, Granting, Drawing, Bounding, Revoking, Duplicate,
           Owns, Exists, There, Bound, LiveKey
  <2> QED
    BY <2>1, <2>2, <2>3, <2>4, StayingKeeps DEF AccessCore, ObjectForms
<1> QED
  BY <1>1, <1>2, <1>3, <1>4 DEF RefuseAccess

-----------------------------------------------------------------------------
(* ResolveBucketAccessIdentity.                                            *)

LEMMA LowestIsIn ==
  ASSUME NEW S \in SUBSET Nat, S # {}
  PROVE  Lowest(S) \in S
<1>1. PICK x \in S : \A y \in S : ~(<<y, x>> \in OpToRel(<, Nat))
  BY NatLessThanWellFounded, WFMin
<1>2. \A y \in S : ~(y < x)
  BY <1>1 DEF OpToRel
<1>3. \A y \in S : x <= y
  BY <1>2
<1>4. \E z \in S : \A y \in S : z <= y
  BY <1>3
<1> QED
  BY <1>4, Zenon DEF Lowest

LEMMA PairIsTwo ==
  ASSUME NEW S \in SUBSET Access, NEW a \in S, NEW b \in S, a # b
  PROVE  Cardinality(S) > 1
<1>1. \A x \in Access : x = a \/ x = b
  BY Names
<1>2. S = {a} \cup {b} /\ b \notin {a}
  BY <1>1
<1>3. IsFiniteSet({a}) /\ Cardinality({a}) = 1
  BY FS_Singleton
<1>4. Cardinality({a} \cup {b}) = 2
  BY <1>2, <1>3, FS_AddElement
<1> QED
  BY <1>2, <1>4

\* The three outcomes: the access's own shadow, the legacy one with the key
\* the access uses, a legacy reservation that is pending.
OwnOutcome(a, r) ==
  /\ r.who = a /\ ~r.shared /\ r.win = 0
  /\ There(a) \/ ~There(Name) \/ (access[a].id = 0 /\ Bound(Name)) \/ (access[a].id # 0 /\ ~Authority(Name, access[a].id))
LegacyOutcome(a, r) ==
  /\ access[a].id # 0 /\ Authority(Name, access[a].id) /\ r.win = 0 /\ (There(a) => r.dup)
  /\ IF access[a].st = "del"
     THEN \/ r.who = Name /\ ~r.shared /\ \A b \in Access : access[b].st = "live" => access[b].id # access[a].id
          \/ r.who = a /\ r.shared /\ \E b \in Access \ {a} : Owns(b) /\ access[b].id = access[a].id
     ELSE r.who = Name \/ (r.who = a /\ r.shared /\ ~r.owns)
PendingOutcome(a, r) ==
  /\ access[a].id = 0 /\ There(Name) /\ ~Bound(Name) /\ ~There(a) /\ ~r.shared
  /\ r.win \in Access /\ (keys[Name].owner # 0 => r.win = keys[Name].owner)
  /\ r.who = IF r.win = a THEN Name ELSE a

LEMMA LegacyOwnerForm ==
  ASSUME TypedAccess, AccessCore, NEW a \in Access, Owns(a), NEW dup \in BOOLEAN,
         access[a].id # 0, Authority(Name, access[a].id), There(a) => dup
  PROVE  LegacyOutcome(a, LegacyOwner(a, dup)) /\ LegacyOwner(a, dup).dup = dup
<1> DEFINE r       == LegacyOwner(a, dup)
           sharers == {b \in Access : Exists(b) /\ access[b].id = access[a].id}
           live    == {b \in sharers : access[b].st = "live"}
           pending == {b \in sharers : ~access[b].handed}
<1>0. Access \subseteq Nat
  BY DEF Access
<1>1. live \in SUBSET Access /\ pending \in SUBSET Access /\ a \in pending
  BY DEF Owns
<1>2. \A b \in live : Owns(b) /\ access[b].id = access[a].id
  BY DEF AccessCore, AccessForm, Owns, Exists
<1>3. CASE access[a].st = "del"
  <2>1. r = IF live = {} /\ pending # {} /\ Lowest(pending) = a
            THEN Resolved(Name, TRUE, FALSE, dup) ELSE Resolved(a, FALSE, TRUE, dup)
    BY <1>3 DEF LegacyOwner
  <2>2. CASE live = {} /\ pending # {} /\ Lowest(pending) = a
    <3>1. r.who = Name /\ ~r.shared /\ r.win = 0 /\ r.dup = dup
      BY <2>1, <2>2 DEF Resolved
    <3>2. \A b \in Access : access[b].st = "live" => access[b].id # access[a].id
      BY <2>2 DEF Exists
    <3> QED
      BY <1>3, <3>1, <3>2 DEF LegacyOutcome
  <2>3. CASE ~(live = {} /\ pending # {} /\ Lowest(pending) = a)
    <3>1. r.who = a /\ r.shared /\ r.win = 0 /\ r.dup = dup
      BY <2>1, <2>3 DEF Resolved
    <3>2. \E b \in Access \ {a} : Owns(b) /\ access[b].id = access[a].id
      <4>1. CASE live # {}
        <5>1. \A b \in live : b # a
          BY <1>3
        <5> QED
          BY <1>1, <1>2, <4>1, <5>1
      <4>2. CASE live = {}
        <5>1. Lowest(pending) \in pending /\ Lowest(pending) # a
          BY <1>1, <1>0, <2>3, <4>2, LowestIsIn
        <5> QED
          BY <5>1 DEF Owns
      <4> QED
        BY <4>1, <4>2
    <3> QED
      BY <1>3, <3>1, <3>2 DEF LegacyOutcome
  <2> QED
    BY <2>2, <2>3
<1>4. CASE access[a].st # "del"
  <2> DEFINE owner == IF keys[Name].owner \in live THEN keys[Name].owner ELSE Lowest(live)
  <2>1. r = Resolved(IF a = owner THEN Name ELSE a, a = owner, Cardinality(live) > 1, dup)
    BY <1>4 DEF LegacyOwner
  <2>2. a \in live
    BY <1>4 DEF Owns, Exists
  <2>3. owner \in live
    BY <1>0, <1>1, <2>2, LowestIsIn
  <2>4. r.win = 0 /\ r.dup = dup /\ (a = owner => r.who = Name)
    <3> HIDE DEF owner, live
    <3> QED
      BY <2>1 DEF Resolved
  <2>5. ASSUME a # owner PROVE r.who = a /\ r.shared /\ ~r.owns
    <3>1. Cardinality(live) > 1
      BY <1>1, <2>2, <2>3, <2>5, PairIsTwo
    <3> DEFINE several == Cardinality(live) > 1
               first   == a = owner
    <3>2. several = TRUE /\ first = FALSE /\ r = Resolved(IF first THEN Name ELSE a, first, several, dup)
      BY <2>1, <2>5, <3>1
    <3> HIDE DEF several, first
    <3> QED
      BY <3>2 DEF Resolved
  <2>6. r.who = Name \/ (r.who = a /\ r.shared /\ ~r.owns)
    BY <2>4, <2>5
  <2> HIDE DEF owner, live, r
  <2>7. LegacyOutcome(a, r)
    BY <1>4, <2>4, <2>6 DEF LegacyOutcome
  <2> QED
    BY <2>4, <2>7 DEF r
<1> QED
  BY <1>3, <1>4

LEMMA PendingOwnerForm ==
  ASSUME TypedAccess, AccessCore, NEW a \in Access, Owns(a), NEW dup \in BOOLEAN,
         access[a].id = 0, There(Name), ~Bound(Name), ~There(a)
  PROVE  PendingOutcome(a, PendingOwner(a, dup)) /\ PendingOwner(a, dup).dup = dup
<1> DEFINE r       == PendingOwner(a, dup)
           waiting == {b \in Access : Exists(b) /\ access[b].id = 0}
           owner   == IF keys[Name].owner # 0 THEN keys[Name].owner ELSE Lowest(waiting)
<1>1. owner \in Access
  <2>1. waiting \in SUBSET Access /\ waiting # {}
    BY DEF Owns
  <2>2. Lowest(waiting) \in Access
    BY <2>1, LowestIsIn DEF Access
  <2>3. keys[Name].owner \in {0} \cup Access
    BY Names DEF TypedAccess, ShadowKeys
  <2> QED
    BY <2>2, <2>3
<1>2. r = [Resolved(IF owner = a THEN Name ELSE a, owner = a, FALSE, dup) EXCEPT !.win = owner]
  BY DEF PendingOwner
<1>3. keys[Name].owner # 0 => owner = keys[Name].owner
  OBVIOUS
<1> HIDE DEF owner
<1>4. r.win = owner /\ r.who = (IF owner = a THEN Name ELSE a) /\ ~r.shared /\ r.dup = dup
  BY <1>2 DEF Resolved
<1> QED
  BY <1>1, <1>3, <1>4 DEF PendingOutcome

\* What the resolution says.
LEMMA ResolutionForm ==
  ASSUME TypedAccess, AccessCore, NEW a \in Access, Owns(a),
         NEW r, r = ResolveBucketAccessIdentity(a)
  PROVE  /\ OwnOutcome(a, r) \/ LegacyOutcome(a, r) \/ PendingOutcome(a, r)
         /\ r.dup => There(a) /\ access[a].id # 0 /\ Ids(keys[a]) # {access[a].id}
         /\ There(a) /\ ~r.dup => access[a].id = 0 \/ Ids(keys[a]) = {access[a].id}
<1> DEFINE known == access[a].id
           has   == keys[a].uid # 0
           mine  == known = 0 \/ Ids(keys[a]) = {known}
           dup   == has /\ ~mine
           leg   == keys[Name]
<1>1. /\ dup \in BOOLEAN /\ (dup => There(a) /\ known # 0 /\ Ids(keys[a]) # {known})
      /\ There(a) /\ ~dup => known = 0 \/ Ids(keys[a]) = {known}
  BY DEF There
<1>2. r = IF (has /\ mine) \/ leg.uid = 0 THEN Resolved(a, FALSE, FALSE, dup)
          ELSE IF known # 0 /\ leg.id = known /\ leg.ann = known THEN LegacyOwner(a, dup)
          ELSE IF known = 0 /\ leg.state = "Pending" THEN PendingOwner(a, dup)
          ELSE Resolved(a, FALSE, FALSE, dup)
  BY DEF ResolveBucketAccessIdentity
<1>3. Resolved(a, FALSE, FALSE, dup).dup = dup /\ Resolved(a, FALSE, FALSE, dup).who = a
      /\ ~Resolved(a, FALSE, FALSE, dup).shared /\ Resolved(a, FALSE, FALSE, dup).win = 0
  BY SMTT(60) DEF Resolved
<1>4. CASE (has /\ mine) \/ leg.uid = 0
  BY <1>1, <1>2, <1>3, <1>4 DEF OwnOutcome, There
<1>5. CASE ~((has /\ mine) \/ leg.uid = 0) /\ known # 0 /\ leg.id = known /\ leg.ann = known
  <2>1. r = LegacyOwner(a, dup)
    BY <1>2, <1>5
  <2>2. Authority(Name, known)
    BY <1>5, Names DEF Authority, AccessCore, KeysDiffer, KeyForm, Bound, Ids, TypedAccess, ShadowKeys
  <2>3. There(a) => dup
    BY <1>5 DEF There
  <2> HIDE DEF dup
  <2> QED
    BY <1>1, <1>5, <2>1, <2>2, <2>3, LegacyOwnerForm
<1>6. CASE ~((has /\ mine) \/ leg.uid = 0) /\ known = 0 /\ leg.state = "Pending"
  <2>1. r = PendingOwner(a, dup) /\ ~There(a) /\ There(Name) /\ ~Bound(Name)
    BY <1>2, <1>6 DEF There, Bound
  <2> HIDE DEF dup
  <2> QED
    BY <1>1, <1>6, <2>1, PendingOwnerForm
<1>7. CASE /\ ~((has /\ mine) \/ leg.uid = 0) /\ ~(known # 0 /\ leg.id = known /\ leg.ann = known)
           /\ ~(known = 0 /\ leg.state = "Pending")
  <2>1. r = Resolved(a, FALSE, FALSE, dup)
    BY <1>2, <1>7
  <2>2. known # 0 => ~Authority(Name, known)
    BY <1>7 DEF Authority
  <2>3. known = 0 => Bound(Name)
    BY <1>7, Names DEF Bound, TypedAccess, ShadowKeys
  <2> QED
    BY <1>1, <1>3, <2>1, <2>2, <2>3 DEF OwnOutcome
<1> QED
  BY <1>4, <1>5, <1>6, <1>7

\* Only the owner of the legacy shadow may be written.
OwnerWritten ==
  /\ \A i \in Identity : /\ keys'[i].uid = keys[i].uid /\ keys'[i].del = keys[i].del /\ keys'[i].fin = keys[i].fin
                         /\ keys'[i].state = keys[i].state /\ keys'[i].ann = keys[i].ann
                         /\ keys'[i].id = keys[i].id /\ keys'[i].label = keys[i].label
  /\ \A i \in Access : keys'[i] = keys[i]
  /\ ~There(Name) => keys'[Name] = keys[Name]
LEMMA OwnerWrittenKeeps ==
  ASSUME TypedAccess, AccessCore, OwnerWritten, UNCHANGED <<access, secret, accounts>>
  PROVE  ObjectForms'
<1>1. \A i \in Identity : There(i)' = There(i) /\ Bound(i)' = Bound(i) /\ Ids(keys'[i]) = Ids(keys[i])
  BY DEF There, Bound, Ids, OwnerWritten
<1>2. \A k : LiveKey(k)' = LiveKey(k)
  BY DEF LiveKey
<1>3. \A i \in Identity : /\ keys'[i].uid = 0 => keys'[i] = NoShadowKey
                         /\ Doomed(i)' = Doomed(i)
  BY Names DEF AccessCore, KeyForm, OwnerWritten, There, Doomed, LiveKey
<1>4. KeyForm'
  BY <1>1, <1>2, <1>3, Names DEF AccessCore, KeyForm, OwnerWritten
<1>5. KeysDiffer'
  BY <1>1, Names DEF AccessCore, KeysDiffer, OwnerWritten, LiveKey
<1>6. KeyTracking'
  BY <1>1, <1>2 DEF AccessCore, KeyTracking, OwnerWritten
<1>7. AccessForm' /\ Sharing' /\ SecretForm'
  BY <1>1, <1>3, Names DEF AccessCore, AccessForm, Sharing, SecretForm, OwnerWritten, Owns, Exists
<1> QED
  BY <1>4, <1>5, <1>6, <1>7 DEF ObjectForms

\* A key an access records is live only if its own shadow, or the legacy
\* one, holds it as bound.
LEMMA LiveKeyIsHeld ==
  ASSUME TypedAccess, AccessCore, NEW a \in Access, LiveKey(access[a].id)
  PROVE  Authority(a, access[a].id) \/ Authority(Name, access[a].id)
<1>1. access[a].id \in KeyId
  BY DEF TypedAccess, Accesses, KIDs, LiveKey
<1>2. PICK i \in Identity : There(i) /\ keys[i].id = access[a].id
  BY <1>1 DEF AccessCore, KeyTracking
<1>3. keys[i].ann = access[a].id /\ access[a].id \in Ids(keys[i])
  BY <1>2 DEF AccessCore, KeyForm, LiveKey, Ids
<1>4. keys[i].state # "Pending" /\ (i \in Access => i = a)
  BY <1>3 DEF AccessCore, KeysDiffer
<1>5. Authority(i, access[a].id)
  BY <1>2, <1>3, <1>4 DEF AccessCore, KeyForm, Authority, There, Bound, TypedAccess, ShadowKeys
<1> QED
  BY <1>4, <1>5, Names

\* An access whose own shadow is all there is to find.
LEMMA OwnKeyIsKnown ==
  ASSUME TypedAccess, AccessCore, NEW a \in Access, Owns(a), NEW r, OwnOutcome(a, r), access[a].id # 0,
         There(a) => Ids(keys[a]) = {access[a].id}
  PROVE  /\ There(a) => Authority(a, access[a].id)
         /\ LiveKey(access[a].id) => There(a)
<1>1. ASSUME There(a) PROVE Authority(a, access[a].id)
  <2>1. access[a].id \in Ids(keys[a])
    BY <1>1
  <2>2. keys[a].state # "Pending"
    BY <2>1, Names DEF AccessCore, KeysDiffer
  <2>3. Bound(a)
    BY <2>2, Names DEF TypedAccess, ShadowKeys, Bound
  <2>4. keys[a].label /\ keys[a].ann # 0 /\ keys[a].id = keys[a].ann
    BY <2>3, Names DEF AccessCore, KeyForm
  <2> QED
    BY <1>1, <2>1, <2>4 DEF Authority, There, Ids
<1>2. LiveKey(access[a].id) => There(a)
  BY LiveKeyIsHeld DEF OwnOutcome, Authority, There
<1> QED
  BY <1>1, <1>2

LEMMA ReconcileAccessKeeps ==
  ASSUME TypedAccess, AccessCore, NEW a \in Access, ReconcileAccess(a)
  PROVE  AccessCore'
<1> DEFINE r == ResolveBucketAccessIdentity(a)
           w == IF r.dup THEN a ELSE r.who
<1>1. /\ aw.pc = "idle" /\ Owns(a) /\ UNCHANGED <<access, rsv, secret, accounts>>
      /\ aw' = [IdleAccess EXCEPT !.pc = Next1(a, r), !.a = a, !.who = w, !.known = access[a].id,
                                  !.del = access[a].st = "del"]
      /\ keys' = IF r.win # 0 THEN [keys EXCEPT ![Name].owner = r.win] ELSE keys
  BY DEF ReconcileAccess, StepAccess, Owns
<1>2. /\ OwnOutcome(a, r) \/ LegacyOutcome(a, r) \/ PendingOutcome(a, r)
      /\ r.dup => There(a) /\ access[a].id # 0 /\ Ids(keys[a]) # {access[a].id}
      /\ There(a) /\ ~r.dup => access[a].id = 0 \/ Ids(keys[a]) = {access[a].id}
  BY <1>1, ResolutionForm
<1> HIDE DEF r
<1>3. aw'.pc = Next1(a, r) /\ aw'.a = a /\ aw'.who = w /\ aw'.known = access[a].id
  BY <1>1 DEF IdleAccess
<1>4. r.win # 0 => PendingOutcome(a, r)
  BY <1>2 DEF OwnOutcome, LegacyOutcome
<1>5. OwnerWritten /\ (r.win # 0 => keys'[Name].owner = r.win) /\ (r.win = 0 => keys' = keys)
  BY <1>1, <1>4, Names DEF OwnerWritten, PendingOutcome, TypedAccess, ShadowKeys
<1>6. ObjectForms'
  BY <1>1, <1>5, OwnerWrittenKeeps
<1>7. /\ \A i \in Identity : /\ There(i)' = There(i) /\ Bound(i)' = Bound(i) /\ Ids(keys'[i]) = Ids(keys[i])
                             /\ keys'[i].id = keys[i].id /\ keys'[i].del = keys[i].del
                             /\ Doomed(i)' = Doomed(i)
      /\ \A i \in Identity, k \in KIDs : Authority(i, k)' = Authority(i, k)
      /\ \A k : LiveKey(k)' = LiveKey(k)
      /\ \A b \in Access : Owns(b)' = Owns(b)
  BY <1>1, <1>5 DEF OwnerWritten, There, Bound, Ids, Authority, LiveKey, Owns, Exists, Doomed
<1>8. keys[Name].owner # 0 => keys' = keys /\ (r.win # 0 => r.win = keys[Name].owner)
  BY <1>1, <1>4, <1>5, Names DEF PendingOutcome, TypedAccess, ShadowKeys
<1>9. ASSUME There(Name), keys'[Name].owner = 0 PROVE keys' = keys /\ Bound(Name)
  <2>1. keys' = keys
    BY <1>4, <1>5, <1>9, Names DEF PendingOutcome
  <2>2. ASSUME ~Bound(Name) PROVE FALSE
    <3>1. access[a].id = 0 /\ ~There(a)
      BY <1>9, <2>1, <2>2 DEF AccessCore, LegacyForm, GivenUp, Doomed
    <3>2. PendingOutcome(a, r)
      BY <1>2, <1>9, <2>2, <3>1 DEF OwnOutcome, LegacyOutcome
    <3> QED
      BY <1>5, <1>9, <3>2, Names DEF PendingOutcome
  <2> QED
    BY <2>1, <2>2
<1>10. LegacyForm'
  <2>1. ASSUME keys'[Name].del PROVE GivenUp'
    <3>1. GivenUp /\ (Bound(Name)' = Bound(Name)) /\ keys'[Name].id = keys[Name].id
      BY <1>7, <2>1, Names DEF AccessCore, LegacyForm
    <3>2. ~Bound(Name) => keys' = keys
      BY <1>8, <3>1 DEF GivenUp
    <3> QED
      BY <1>1, <3>1, <3>2 DEF GivenUp, LiveKey
  <2>2. There(Name)' /\ ~Doomed(Name)' /\ keys'[Name].owner = 0 =>
          Bound(Name)' /\ \E b \in Access : Owns(b)' /\ access'[b].id = keys'[Name].id
    BY <1>1, <1>7, <1>9, Names DEF AccessCore, LegacyForm
  <2> QED
    BY <2>1, <2>2 DEF LegacyForm
<1>11. /\ \A p \in {"dup", "cancel", "handoff", "refuse", "finalizer", "secret"} : p \notin Granting \cup Revoking
       /\ "revoke" \notin Entering \cup Granting /\ "revoke" \in Revoking
       /\ {"dup", "cancel", "handoff", "refuse"} \cap Entering = {} /\ {"finalizer", "secret"} \subseteq Entering
  BY DEF Entering, Granting, Drawing, Bounding, Revoking
<1>12. w \in {a, Name} /\ (w = Name => ~There(a))
  <2>1. a # Name
    BY Names
  <2>2. r.who \in {a, Name}
    BY <1>2 DEF OwnOutcome, LegacyOutcome, PendingOutcome
  <2>3. ~r.dup /\ r.who = Name => ~There(a)
    BY <1>2, <2>1 DEF OwnOutcome, LegacyOutcome, PendingOutcome
  <2> QED
    BY <2>1, <2>2, <2>3
<1>13. HoldKnown' /\ (aw'.pc \notin Entering => TurnKnown')
  <2>1. aw'.pc \in {"dup", "cancel", "handoff", "revoke", "refuse", "finalizer", "secret"}
    BY <1>3 DEF Next1
  <2> QED
    BY <1>11, <2>1 DEF HoldKnown, TurnKnown, Granting, Drawing, Bounding
<1> HIDE DEF w
<1>14. ASSUME aw'.pc \in {"refuse", "finalizer", "secret"} PROVE AccessKnown'
  <2>1. Owns(aw.a)' /\ access'[aw'.a].id = aw'.known
    BY <1>1, <1>3, <1>7
  <2> QED
    BY <1>3, <1>7, <1>12, <1>14, <2>1, Names DEF AccessKnown, Revoking, Duplicate
<1>15. CASE r.dup
  <2>1. aw'.pc = "dup" /\ w = a
    BY <1>3, <1>15 DEF Next1, w
  <2>2. AccessKnown'
    BY <1>1, <1>2, <1>3, <1>7, <1>12, <1>15, <2>1, Names DEF AccessKnown, Revoking, Duplicate
  <2> QED
    BY <1>6, <1>10, <1>11, <1>13, <2>1, <2>2 DEF AccessCore, ObjectForms
<1>16. CASE ~r.dup /\ access[a].st = "del" /\ access[a].id = 0
  <2>1. aw'.pc = "cancel" /\ w = r.who
    BY <1>3, <1>16 DEF Next1, w
  <2>2. w = Name /\ There(Name) => ~Bound(Name) /\ keys'[Name].owner = a
    BY <1>2, <1>5, <1>16, <2>1, Names DEF OwnOutcome, LegacyOutcome, PendingOutcome
  <2>3. AccessKnown'
    BY <1>1, <1>3, <1>7, <1>12, <1>16, <2>1, <2>2, Names DEF AccessKnown, Revoking, Duplicate
  <2> QED
    BY <1>6, <1>10, <1>11, <1>13, <2>1, <2>3 DEF AccessCore, ObjectForms
<1>17. CASE ~r.dup /\ access[a].st = "del" /\ access[a].id # 0 /\ r.shared
  <2>1. aw'.pc = "handoff" /\ w = r.who
    BY <1>3, <1>17 DEF Next1, w
  <2>2. LegacyOutcome(a, r)
    BY <1>2, <1>17 DEF OwnOutcome, PendingOutcome
  <2>3. ~There(a) /\ keys[Name].id = access[a].id /\ \E b \in Access \ {a} : Owns(b) /\ access[b].id = access[a].id
    BY <1>17, <2>2, Names DEF LegacyOutcome, Authority
  <2>4. AccessKnown'
    BY <1>1, <1>3, <1>7, <1>12, <1>17, <2>1, <2>3, Names DEF AccessKnown, Revoking, Duplicate
  <2> QED
    BY <1>6, <1>10, <1>11, <1>13, <2>1, <2>4 DEF AccessCore, ObjectForms
<1>18. CASE ~r.dup /\ access[a].st = "del" /\ access[a].id # 0 /\ ~r.shared
  <2>1. aw'.pc = "revoke" /\ w = r.who
    BY <1>3, <1>18 DEF Next1, w
  <2>2. OwnOutcome(a, r) \/ (LegacyOutcome(a, r) /\ r.who = Name)
    BY <1>2, <1>18, Names DEF LegacyOutcome, PendingOutcome
  <2>3. There(a) => Authority(a, access[a].id)
    BY <1>1, <1>2, <1>18, <2>2, OwnKeyIsKnown DEF LegacyOutcome
  <2>4. ASSUME LiveKey(access[a].id), NEW b \in Access, access[b].st = "live" PROVE access[b].id # access[a].id
    <3>1. CASE OwnOutcome(a, r)
      <4>1. Authority(a, access[a].id)
        BY <1>1, <1>2, <1>18, <2>4, <3>1, OwnKeyIsKnown
      <4>2. access[a].id \in Ids(keys[a]) /\ a # b
        BY <1>18, <2>4, <4>1 DEF Authority, Ids
      <4> QED
        BY <4>2 DEF AccessCore, KeysDiffer
    <3>2. CASE LegacyOutcome(a, r) /\ r.who = Name
      BY <1>18, <2>4, <3>2, Names DEF LegacyOutcome
    <3> QED
      BY <2>2, <3>1, <3>2
  <2>5. ASSUME There(Name), ~Doomed(Name), keys'[Name].owner = 0
        PROVE  \/ Authority(Name, access[a].id)
               \/ \E b \in Access \ {a} : Owns(b) /\ access[b].id = keys[Name].id
    <3>1. keys' = keys /\ Bound(Name)
      BY <1>9, <2>5
    <3>2. PICK b \in Access : Owns(b) /\ access[b].id = keys[Name].id
      BY <2>5, <3>1 DEF AccessCore, LegacyForm
    <3>3. keys[Name].label /\ keys[Name].ann = keys[Name].id
      BY <3>1, Names DEF AccessCore, KeyForm
    <3> QED
      BY <2>5, <3>2, <3>3 DEF Authority, There
  <2>6. access[a].id \in KIDs
    BY DEF TypedAccess, Accesses
  <2>7. /\ There(a)' => Authority(a, access[a].id)'
        /\ LiveKey(access[a].id)' => \A b \in Access : access'[b].st = "live" => access'[b].id # access[a].id
        /\ There(Name)' /\ ~Doomed(Name)' /\ keys'[Name].owner = 0 =>
             \/ Authority(Name, access[a].id)'
             \/ \E b \in Access \ {a} : Owns(b)' /\ access'[b].id = keys'[Name].id
    BY <1>1, <1>7, <2>3, <2>4, <2>5, <2>6, Names
  <2>8. AccessKnown'
    BY <1>1, <1>3, <1>7, <1>12, <1>18, <2>1, <2>7, Names DEF AccessKnown, Revoking, Duplicate
  <2> QED
    BY <1>6, <1>10, <1>11, <1>13, <2>1, <2>8 DEF AccessCore, ObjectForms
<1>19. CASE ~r.dup /\ access[a].st # "del"
  <2>1. aw'.pc \in {"refuse", "finalizer", "secret"} /\ w = r.who
    BY <1>3, <1>19 DEF Next1, w
  <2>2. AccessKnown'
    BY <1>14, <2>1
  <2>3. ASSUME aw'.pc \in Entering PROVE TurnKnown'
    <3>1. ~(r.shared /\ ~r.owns) /\ access[a].st = "live"
      BY <1>1, <1>3, <1>11, <1>19, <2>3 DEF Next1, Owns, Exists
    <3>2. w = Name => There(Name) /\ ~keys'[Name].del
      <4>1. LegacyOutcome(a, r) => There(Name) /\ Bound(Name) /\ keys[Name].id = access[a].id
        BY Names DEF LegacyOutcome, Authority, There, AccessCore, KeyForm
      <4>2. keys[Name].del => GivenUp
        BY DEF AccessCore, LegacyForm
      <4>3. LegacyOutcome(a, r) => ~keys[Name].del
        BY <3>1, <4>1, <4>2 DEF GivenUp
      <4>4. PendingOutcome(a, r) /\ w = Name => There(Name) /\ ~keys[Name].del
        BY <2>1, <3>1, <4>2, Names DEF PendingOutcome, GivenUp
      <4> QED
        BY <1>2, <1>7, <2>1, <4>1, <4>3, <4>4, Names DEF OwnOutcome
    <3>3. w = Name /\ access[a].id # 0 => Bound(Name) /\ keys[Name].id = access[a].id
      BY <1>2, <2>1, Names DEF OwnOutcome, LegacyOutcome, PendingOutcome, Authority, AccessCore, KeyForm
    <3>4. ASSUME w = Name, access[a].id = 0, NEW b \in Access
          PROVE  access[b].id \notin Ids(keys[Name]) /\ secret[b].id \notin Ids(keys[Name])
      <4>1. ~Bound(Name)
        BY <1>2, <2>1, <3>4, Names DEF OwnOutcome, LegacyOutcome, PendingOutcome
      <4>2. keys[Name].state = "Pending"
        BY <4>1, Names DEF Bound, TypedAccess, ShadowKeys
      <4> QED
        BY <4>2, Names DEF AccessCore, KeysDiffer
    <3>5. ASSUME w = a, LiveKey(access[a].id) PROVE access[a].id \in Ids(keys[a])
      <4>1. OwnOutcome(a, r) /\ access[a].id # 0
        BY <1>2, <1>19, <2>1, <3>1, <3>5, Names DEF LegacyOutcome, PendingOutcome, LiveKey
      <4>2. Authority(a, access[a].id)
        BY <1>1, <1>2, <1>19, <3>5, <4>1, OwnKeyIsKnown
      <4> QED
        BY <4>1, <4>2 DEF Authority, Ids
    <3> QED
      BY <1>1, <1>3, <1>7, <1>12, <3>2, <3>3, <3>4, <3>5, Names DEF TurnKnown
  <2> QED
    BY <1>6, <1>10, <1>13, <2>2, <2>3 DEF AccessCore, ObjectForms
<1> QED
  BY <1>15, <1>16, <1>17, <1>18, <1>19

-----------------------------------------------------------------------------
(* GrantAccess: steps that only look.                                      *)

\* The reconcile goes on with the same access and the same shadow.
SameAccess == aw'.a = aw.a /\ aw'.who = aw.who /\ aw'.known = aw.known
LEMMA GoingOn ==
  ASSUME TypedAccess, AccessCore, aw.pc \in Entering \cup Granting, aw'.pc \in Entering \cup Granting,
         SameAccess, UNCHANGED access, \A a \in Access : aw.who = Name /\ There(a)' => There(a)
  PROVE  AccessKnown'
<1>1. aw.pc # "idle" /\ aw.a \in Access
  BY Points DEF TypedAccess, AccessWorkers
<1>2. /\ aw'.pc # "idle" /\ aw'.pc # "annotateKnown"
      /\ aw'.pc \notin {"cancel", "handoff"} \cup Duplicate \cup Revoking
  BY Points DEF Entering, Granting, Drawing, Bounding
<1>3. aw.who \in {aw.a, Name} /\ Owns(aw.a) /\ access[aw.a].id = aw.known /\ (aw.who = Name => ~There(aw.a))
  BY <1>1 DEF AccessCore, AccessKnown
<1> QED
  BY <1>1, <1>2, <1>3 DEF AccessKnown, SameAccess, Owns, Exists, There, Duplicate, Revoking

LEMMA LookingKeeps ==
  ASSUME TypedAccess, AccessCore, aw.pc \in Entering \cup Granting, aw'.pc \in Granting, SameAccess,
         UNCHANGED <<access, keys, secret, accounts>>, HoldKnown'
  PROVE  AccessCore'
<1>1. AccessKnown'
  BY GoingOn DEF There
<1>2. AccessesKept /\ aw.pc # "idle"
  BY Points DEF AccessesKept
<1>3. TurnKnown'
  BY DEF AccessCore, TurnKnown, SameAccess, There, Bound, LiveKey
<1> QED
  BY <1>1, <1>2, <1>3, StayingKeeps DEF AccessCore, ObjectForms

\* What the worker holds.
Held ==
  /\ aw.a \in Access /\ aw.who \in {aw.a, Name} /\ aw.who \in Identity /\ aw.known \in KIDs
  /\ aw.sh = keys[aw.who] /\ aw.sh \in ShadowKeys /\ There(aw.who) /\ ~aw.sh.del /\ aw.sh.fin
  /\ access[aw.a].id = aw.known /\ Owns(aw.a) /\ (aw.who = Name => ~There(aw.a))
  /\ aw.sh.state = "Pending" => aw.known \notin Ids(aw.sh)
  /\ aw.sh.state # "Pending" => aw.sh.ann # 0 /\ aw.sh.id = aw.sh.ann /\ accounts.key[aw.sh.ann] # "free"
  /\ aw.sh.ann # 0 => aw.sh.id # 0
  /\ LiveKey(aw.sh.id) => aw.sh.ann = aw.sh.id
LEMMA HeldIsSound ==
  ASSUME TypedAccess, AccessCore, aw.pc \in Granting
  PROVE  Held
<1>1. aw.a \in Access /\ aw.pc # "idle" /\ aw.known \in KIDs
  BY Points DEF TypedAccess, AccessWorkers
<1>2. /\ aw.who \in {aw.a, Name} /\ Owns(aw.a) /\ access[aw.a].id = aw.known /\ (aw.who = Name => ~There(aw.a))
      /\ aw.sh = keys[aw.who] /\ There(aw.who) /\ ~keys[aw.who].del /\ keys[aw.who].fin
  BY <1>1 DEF AccessCore, AccessKnown, HoldKnown
<1>3. aw.who \in Identity
  BY <1>1, <1>2, Names
<1>4. keys[aw.who] \in ShadowKeys
  BY <1>3 DEF TypedAccess
<1>5. keys[aw.who].state = "Pending" => aw.known \notin Ids(keys[aw.who])
  BY <1>1, <1>2, <1>3 DEF AccessCore, KeysDiffer
<1>6. keys[aw.who].state # "Pending" => Bound(aw.who)
  BY <1>4 DEF Bound, ShadowKeys
<1> QED
  BY <1>1, <1>2, <1>3, <1>4, <1>5, <1>6 DEF AccessCore, KeyForm, Held

LEMMA LookupKeyKeeps ==
  ASSUME TypedAccess, AccessCore, LookupKey
  PROVE  AccessCore'
<1>1. aw.pc = "lookup" /\ aw.pc \in Granting
  BY DEF LookupKey, StepAccess, Granting
<1>2. CASE Contradicts
  BY <1>2, AFailKeeps DEF LookupKey
<1>3. ASSUME ~Contradicts PROVE AccessCore'
  <2>a. Held
    BY <1>1, HeldIsSound
  <2>0. Held /\ aw \in AccessWorkers
    BY <2>a DEF TypedAccess
  <2>3. aw.sh.ann # 0 /\ aw.known # 0 => aw.sh.ann = aw.known
    BY <1>3 DEF Contradicts
  <2>4. aw.sh.state = "Pending" /\ aw.sh.ann # 0 => aw.known = 0
    BY <2>0, <2>3 DEF Held, Ids
  <2>1. /\ UNCHANGED <<access, keys, secret, accounts>>
        /\ \/ /\ aw.sh.ann # 0 /\ LiveKey(aw.sh.ann) /\ (aw.sh.state = "Pending" => ~Replacing)
              /\ aw' = [aw EXCEPT !.pc = "bind", !.id = aw.sh.ann]
           \/ aw.sh.ann # 0 /\ ~LiveKey(aw.sh.ann) /\ aw' = [aw EXCEPT !.pc = "stale", !.id = aw.sh.ann]
           \/ /\ aw.sh.state = "Pending" /\ aw.sh.ann # 0 /\ aw.sh.id = aw.sh.ann /\ ~LiveKey(aw.sh.id)
              /\ aw' = [aw EXCEPT !.pc = "tombstone", !.absent = TRUE]
           \/ aw.sh.state = "Pending" /\ aw.sh.ann # 0 /\ aw' = [aw EXCEPT !.pc = "material", !.absent = TRUE]
           \/ aw.sh.ann = 0 /\ aw.known # 0 /\ LiveKey(aw.known)
           \/ aw.sh.ann = 0 /\ aw.known # 0 /\ aw' = [aw EXCEPT !.pc = "giveUp"]
           \/ aw.sh.ann = 0 /\ aw.known = 0 /\ aw' = [aw EXCEPT !.pc = "material", !.absent = FALSE]
    <3>1. CASE aw.sh.state = "Pending" /\ aw.sh.ann # 0 /\ ~Replacing
      BY <1>3, <3>1 DEF LookupKey, Found, Replacing
    <3>2. CASE aw.sh.state # "Pending" /\ aw.sh.ann # 0
      BY <1>3, <3>2 DEF LookupKey, Found, Replacing
    <3>3. CASE aw.sh.ann = 0
      <4>1. Replacing = FALSE
        BY <3>3 DEF Replacing
      <4> QED
        BY <1>3, <3>3, <4>1 DEF LookupKey, AGoTo
    <3>4. CASE aw.sh.state = "Pending" /\ aw.sh.ann # 0 /\ Replacing
      <4>1. Replacing = TRUE /\ aw.known = 0
        BY <2>4, <3>4 DEF Replacing
      <4> QED
        BY <1>3, <3>4, <4>1 DEF LookupKey
    <3> QED
      BY <3>1, <3>2, <3>3, <3>4
  <2>2. ~(aw.sh.ann = 0 /\ aw.known # 0 /\ LiveKey(aw.known))
    <3>1. ASSUME aw.sh.ann = 0, aw.known # 0, LiveKey(aw.known) PROVE FALSE
      <4>1. aw.who = aw.a /\ aw.known \in Ids(aw.sh)
        BY <1>1, <2>0, <3>1 DEF AccessCore, TurnKnown, Held, Bound
      <4>2. aw.sh.id = aw.known
        BY <3>1, <4>1 DEF Ids
      <4> QED
        BY <2>0, <3>1, <4>2 DEF Held
    <3> QED
      BY <3>1
  <2>5. aw'.pc \in {"bind", "stale", "tombstone", "material", "giveUp"} /\ SameAccess /\ aw'.sh = aw.sh
    BY <2>0, <2>1, <2>2 DEF SameAccess, AccessWorkers
  <2>6. /\ aw'.pc = "bind" => aw'.id = aw.sh.ann /\ aw.sh.ann # 0 /\ LiveKey(aw.sh.ann) /\ aw.sh.id = aw.sh.ann
        /\ aw'.pc = "stale" => aw'.id = aw.sh.ann /\ aw.sh.ann # 0 /\ ~LiveKey(aw.sh.ann)
        /\ aw'.pc \in {"tombstone", "material"} => aw.known = 0 /\ aw.sh.state = "Pending"
        /\ aw'.pc = "tombstone" => ~LiveKey(aw.sh.id)
        /\ aw'.pc = "giveUp" => aw.sh.ann = 0 /\ aw.known # 0
    BY ZenonT(60), <2>0, <2>1, <2>2, <2>4 DEF AccessWorkers, Held, Replacing, ShadowKeys
  <2>7. aw'.pc \in Granting
    BY <2>5 DEF Granting, Drawing
  <2>8. aw'.pc = "bind" => accounts.key[aw.sh.ann] # "free" /\ (aw.known # 0 => aw.sh.ann = aw.known)
    BY <2>3, <2>6 DEF LiveKey
  <2>9. aw'.pc \notin Bounding /\ aw'.pc \notin Drawing \ {"tombstone", "material"}
    BY <2>5 DEF Bounding, Drawing
  <2>10. HoldKnown'
    <3>1. aw'.sh = keys'[aw'.who] /\ There(aw.who)' /\ ~keys'[aw'.who].del /\ keys'[aw'.who].fin
      BY <2>0, <2>1, <2>5 DEF Held, SameAccess, There
    <3> QED
      BY <2>1, <2>5, <2>6, <2>8, <2>9, <3>1 DEF HoldKnown, SameAccess, LiveKey
  <2> QED
    BY <1>1, <2>1, <2>2, <2>5, <2>7, <2>10, LookingKeeps
<1> QED
  BY <1>2, <1>3

LEMMA MaterialKeeps ==
  ASSUME TypedAccess, AccessCore,
         \/ DropTombstonedMaterial
         \/ EnsureKeyReservationSecret /\ aw.sh.id # 0
         \/ DeleteKeyReservationSecret
  PROVE  AccessCore'
<1>1. CASE FailAccess
  BY <1>1, AFailKeeps
<1>2. ASSUME ~FailAccess PROVE AccessCore'
  <2>1. /\ UNCHANGED <<access, keys, secret, accounts>>
        /\ \/ aw.pc = "tombstone" /\ aw' = [aw EXCEPT !.pc = "redraw"]
           \/ aw.pc = "material" /\ aw.sh.id # 0 /\ aw' = [aw EXCEPT !.pc = "annotate", !.id = aw.sh.id]
           \/ aw.pc = "unreserve" /\ aw' = [aw EXCEPT !.pc = "populate"]
    BY <1>2 DEF DropTombstonedMaterial, EnsureKeyReservationSecret, DeleteKeyReservationSecret, StepAccess, AGoTo
  <2>2. aw \in AccessWorkers
    BY DEF TypedAccess
  <2>3. /\ SameAccess /\ aw'.sh = aw.sh
        /\ \/ aw.pc = "tombstone" /\ aw'.pc = "redraw"
           \/ aw.pc = "material" /\ aw'.pc = "annotate" /\ aw'.id = aw.sh.id /\ aw.sh.id # 0
           \/ aw.pc = "unreserve" /\ aw'.pc = "populate" /\ aw'.id = aw.id
    BY <2>1, <2>2 DEF SameAccess, AccessWorkers
  <2>4. aw.pc \in Granting /\ aw'.pc \in Granting
    BY <2>3 DEF Granting, Drawing, Bounding
  <2>6. HoldKnown'
    BY <2>1, <2>3, <2>4 DEF HoldKnown, AccessCore, SameAccess, Granting, Drawing, Bounding, There, LiveKey
  <2> QED
    BY <2>1, <2>3, <2>4, <2>6, LookingKeeps
<1> QED
  BY <1>1, <1>2

-----------------------------------------------------------------------------
(* GrantAccess: steps that write the shadow the worker holds.              *)

\* A key that nothing refers to.
Untouched(k) == k # 0 /\ k # Legacy /\ accounts.key[k] = "free" /\ \A i \in Identity : k \notin Ids(keys[i])

\* The shadow gets other IDs or is bound: what is live or bound stays named.
WritesHeld(sh) ==
  /\ keys' = [keys EXCEPT ![aw.who] = sh] /\ UNCHANGED <<access, secret, accounts>>
  /\ sh.uid = aw.sh.uid /\ sh.del = aw.sh.del /\ sh.fin = aw.sh.fin /\ sh.owner = aw.sh.owner
  /\ sh.state = "Bound" <=> sh.label = TRUE
  /\ sh.state = "Bound" => sh.ann # 0 /\ sh.id = sh.ann /\ accounts.key[sh.id] # "free"
  /\ sh.ann # 0 => sh.id # 0
  /\ LiveKey(sh.id) => sh.ann = sh.id
  /\ aw.sh.state = "Bound" => sh.state = "Bound" /\ sh.id = aw.sh.id
  /\ LiveKey(aw.sh.id) => sh.id = aw.sh.id
  /\ \A k \in Ids(sh) : k \in Ids(aw.sh) \/ Untouched(k)

LEMMA UntouchedIsForeign ==
  ASSUME TypedAccess, AccessCore, NEW k, Untouched(k), NEW a \in Access
  PROVE  access[a].id # k /\ secret[a].id # k
  BY DEF AccessCore, AccessForm, SecretForm, Untouched

LEMMA WritingKeeps ==
  ASSUME TypedAccess, AccessCore, aw.pc \in Granting, aw'.pc \in Granting, SameAccess,
         NEW sh \in ShadowKeys, WritesHeld(sh), HoldKnown'
  PROVE  AccessCore'
<1>1. Held
  BY HeldIsSound
<1>0. PICK who \in Identity : who = aw.who
  BY <1>1 DEF Held
<1>2. /\ keys'[who] = sh /\ \A i \in Identity \ {who} : keys'[i] = keys[i]
      /\ keys[who] = aw.sh /\ aw.sh.uid # 0 /\ sh.uid # 0
  BY <1>0, <1>1, KeyUpdate DEF WritesHeld, Held, TypedAccess, There
<1>3. /\ \A i \in Identity : There(i)' = There(i) /\ (Bound(i) => Bound(i)' /\ keys'[i].id = keys[i].id)
      /\ \A k : LiveKey(k)' = LiveKey(k)
      /\ \A a \in Access : (Owns(a)' = Owns(a)) /\ (Exists(a)' = Exists(a))
      /\ \A i \in Identity : keys'[i].del = keys[i].del /\ keys'[i].owner = keys[i].owner
      /\ \A i \in Identity : Doomed(i)' = Doomed(i)
      /\ who \in Access => Owns(who)
  <2>1. \A k : LiveKey(k)' = LiveKey(k)
    BY DEF WritesHeld, LiveKey
  <2>2. \A a \in Access : (Owns(a)' = Owns(a)) /\ (Exists(a)' = Exists(a))
    BY DEF WritesHeld, Owns, Exists
  <2>3. /\ There(who)' = There(who) /\ (Bound(who) => Bound(who)' /\ keys'[who].id = keys[who].id)
        /\ keys'[who].del = keys[who].del /\ keys'[who].owner = keys[who].owner
    BY <1>2 DEF WritesHeld, There, Bound
  <2>4. ASSUME NEW i \in Identity, i # who
        PROVE  There(i)' = There(i) /\ Bound(i)' = Bound(i) /\ keys'[i] = keys[i] /\ Doomed(i)' = Doomed(i)
    BY <1>2, <2>1, <2>4 DEF There, Bound, Doomed
  <2>5. Doomed(who)' = Doomed(who) /\ ~Doomed(who)
    BY <1>1, <1>2, <2>3 DEF Held, Doomed
  <2>6. who \in Access => Owns(who)
    BY <1>0, <1>1, Names DEF Held
  <2> QED
    BY <2>1, <2>2, <2>3, <2>4, <2>5, <2>6
<1>4. /\ \A k \in Ids(sh) : k \in Ids(keys[who]) \/ Untouched(k)
      /\ \A i \in Identity \ {who} : Ids(keys'[i]) = Ids(keys[i])
      /\ \A k, a : Untouched(k) /\ a \in Access => access[a].id # k /\ secret[a].id # k
  BY <1>2, UntouchedIsForeign DEF WritesHeld
<1>5. KeyForm'
  <2>1. ASSUME NEW i \in Identity, i # who
        PROVE  /\ keys'[i].uid = 0 => keys'[i] = NoShadowKey
               /\ There(i)' /\ ~keys'[i].fin => ~keys'[i].del /\ ~LiveKey(keys[i].id)'
               /\ Bound(i)' <=> keys'[i].label = TRUE
               /\ Bound(i)' => keys'[i].ann # 0 /\ keys'[i].id = keys'[i].ann /\ accounts'.key[keys'[i].id] # "free"
               /\ keys'[i].ann # 0 => keys'[i].id # 0
               /\ LiveKey(keys[i].id)' => keys'[i].ann = keys'[i].id
               /\ i \in Access => keys'[i].owner = 0 /\ Legacy \notin Ids(keys'[i])
    <3>1. keys'[i] = keys[i] /\ accounts' = accounts /\ LiveKey(keys[i].id)' = LiveKey(keys[i].id)
      BY <1>2, <1>3, <2>1 DEF WritesHeld
    <3> QED
      BY <3>1 DEF AccessCore, KeyForm, There, Bound
  <2>2. who \in Access => sh.owner = 0 /\ Legacy \notin Ids(sh)
    BY <1>2, <1>4 DEF AccessCore, KeyForm, WritesHeld, Untouched
  <2>3. sh.uid # 0 /\ sh.fin /\ accounts' = accounts /\ (LiveKey(sh.id)' = LiveKey(sh.id))
    BY <1>1, <1>2, <1>3 DEF WritesHeld, Held
  <2>4. /\ keys'[who].uid # 0 /\ keys'[who].fin
        /\ Bound(who)' <=> keys'[who].label = TRUE
        /\ Bound(who)' => keys'[who].ann # 0 /\ keys'[who].id = keys'[who].ann /\ accounts'.key[keys'[who].id] # "free"
        /\ keys'[who].ann # 0 => keys'[who].id # 0
    BY <1>2, <2>3 DEF WritesHeld, Bound
  <2>5. LiveKey(keys[who].id)' => keys'[who].ann = keys'[who].id
    BY <1>2, <1>3 DEF WritesHeld
  <2> QED
    BY <1>2, <2>1, <2>2, <2>4, <2>5 DEF KeyForm
<1>6. KeysDiffer'
  <2>1. ASSUME NEW i \in Identity, i # who PROVE Ids(sh) \cap Ids(keys[i]) = {}
    BY <1>4, <2>1 DEF AccessCore, KeysDiffer, Untouched
  <2>2. ASSUME NEW i \in Access, NEW a \in Access, i # a
        PROVE  access[a].id \notin Ids(keys'[i]) /\ secret[a].id \notin Ids(keys'[i])
    BY <1>2, <1>4, <2>2, Names DEF AccessCore, KeysDiffer
  <2>3. ASSUME NEW i \in Identity, keys'[i].state = "Pending", NEW a \in Access
        PROVE  access[a].id \notin Ids(keys'[i]) /\ secret[a].id \notin Ids(keys'[i])
    <3>1. keys[i] \in ShadowKeys /\ keys[i].state = "Pending"
      BY <1>2, <2>3 DEF TypedAccess, WritesHeld, ShadowKeys
    <3>2. access[a].id \notin Ids(keys[i]) /\ secret[a].id \notin Ids(keys[i])
      BY <2>3, <3>1 DEF AccessCore, KeysDiffer
    <3> QED
      BY <1>2, <1>4, <2>3, <3>2
  <2>4. ASSUME NEW a \in Access, access[a].id \in Ids(keys'[a]) PROVE ~keys'[a].del \/ ~LiveKey(access[a].id)'
    <3>1. CASE a = who
      BY <1>1, <1>2, <1>3, <3>1 DEF Held
    <3>2. CASE a # who
      <4>1. ~keys'[a].del \/ ~LiveKey(access[a].id)
        BY <1>2, <2>4, <3>2, Names DEF AccessCore, KeysDiffer
      <4> QED
        BY <4>1 DEF WritesHeld, LiveKey
    <3> QED
      BY <3>1, <3>2
  <2>5. \A i, j \in Identity : i # j => Ids(keys'[i]) \cap Ids(keys'[j]) = {}
    BY <1>2, <1>4, <2>1 DEF AccessCore, KeysDiffer
  <2>6. \A i \in Identity : Ids(keys[i])' = Ids(keys'[i])
    BY DEF Ids
  <2> QED
    BY <2>2, <2>3, <2>4, <2>5, <2>6, Names DEF KeysDiffer, WritesHeld, Ids
<1>7. KeyTracking'
  BY <1>2, <1>3 DEF AccessCore, KeyTracking, WritesHeld, LiveKey
<1>8. AccessForm' /\ Sharing' /\ SecretForm'
  BY <1>3, Names DEF AccessCore, AccessForm, Sharing, SecretForm, WritesHeld
<1>9. LegacyForm'
  <2>1. keys'[Name].del => GivenUp'
    <3>1. CASE who = Name
      BY <1>1, <1>2, <1>3, <3>1 DEF Held
    <3>2. CASE who # Name
      BY <1>2, <3>2, Names DEF AccessCore, LegacyForm, GivenUp, LiveKey, WritesHeld, Bound
    <3> QED
      BY <3>1, <3>2
  <2>2. ASSUME There(Name)', ~Doomed(Name)', keys'[Name].owner = 0
        PROVE  Bound(Name)' /\ \E a \in Access : Owns(a)' /\ access'[a].id = keys'[Name].id
    <3>1. There(Name) /\ ~Doomed(Name) /\ keys[Name].owner = 0
      BY <1>3, <2>2, Names
    <3>2. aw.pc # "idle"
      BY Points
    <3>3. Bound(Name) /\ \E a \in Access : Owns(a) /\ access[a].id = keys[Name].id
      BY <3>1, <3>2 DEF AccessCore, LegacyForm
    <3> QED
      BY <1>3, <3>3, Names DEF WritesHeld
  <2> QED
    BY <2>1, <2>2 DEF LegacyForm
<1>10. TurnKnown'
  <2>1. TurnKnown /\ aw'.who = who /\ aw'.a = aw.a /\ aw'.known = aw.known
    BY <1>0 DEF AccessCore, SameAccess
  <2>2. who = Name => There(Name)' /\ ~keys'[Name].del
    BY <1>0, <1>1, <1>2, <1>3, Names DEF Held
  <2>3. who = Name /\ aw.known # 0 => Bound(Name)' /\ keys'[Name].id = aw.known
    BY <1>0, <1>3, <2>1, Names DEF TurnKnown
  <2>4. ASSUME who = Name, aw.known = 0, NEW b \in Access \ {aw.a}
        PROVE  access[b].id \notin Ids(keys'[Name]) /\ secret[b].id \notin Ids(keys'[Name])
    BY <1>0, <1>2, <1>4, <2>1, <2>4 DEF TurnKnown
  <2>5. ASSUME who = aw.a, LiveKey(aw.known) PROVE aw.known \in Ids(keys'[who])
    <3>1. aw.known \in Ids(aw.sh) /\ aw.known # 0
      BY <1>0, <1>2, <2>1, <2>5 DEF TurnKnown, LiveKey
    <3>2. aw.sh.state = "Bound" /\ sh.id = aw.sh.id /\ aw.sh.ann = aw.sh.id
      BY <1>1, <3>1 DEF Held, WritesHeld, ShadowKeys
    <3> QED
      BY <1>2, <3>1, <3>2 DEF Ids
  <2>6. \A i \in Identity : Ids(keys[i])' = Ids(keys'[i])
    BY DEF Ids
  <2> QED
    BY <2>1, <2>2, <2>3, <2>4, <2>5, <1>3, Names DEF TurnKnown, WritesHeld, Ids
<1>11. AccessKnown'
  BY <1>2, <1>3, GoingOn, Names DEF WritesHeld
<1> QED
  BY <1>5, <1>6, <1>7, <1>8, <1>9, <1>10, <1>11 DEF AccessCore

LEMMA FreshKeyIsUntouched ==
  ASSUME TypedAccess, Unused # {}
  PROVE  Untouched(FreshKey) /\ FreshKey \in KeyId
<1>1. Unused \subseteq Nat
  BY CosiAccessAssumption DEF Unused, KeyId
<1>2. FreshKey \in Unused
  BY <1>1, LowestIsIn DEF FreshKey
<1> QED
  BY <1>2, CosiAccessAssumption DEF Unused, Untouched, Ids, KeyId

\* The reservation is written, the shadow is bound, or a new ID is drawn.
LEMMA HeldWritesKeep ==
  ASSUME TypedAccess, AccessCore,
         \/ AnnotateReservation
         \/ BindShadowKey
         \/ RedrawKey
         \/ EnsureKeyReservationSecret /\ aw.sh.id = 0
  PROVE  AccessCore'
<1>1. CASE FailAccess
  BY <1>1, AFailKeeps
<1>2. ASSUME ~FailAccess PROVE AccessCore'
  <2>1. aw.pc \in {"annotate", "bind", "redraw", "material"}
    BY DEF AnnotateReservation, BindShadowKey, RedrawKey, EnsureKeyReservationSecret, StepAccess, AccessCore, AccessKnown
  <2>2. aw.pc \in Granting
    BY <2>1 DEF Granting, Drawing
  <2>3. Held
    BY <2>2, HeldIsSound
  <2>4. HoldKnown /\ aw \in AccessWorkers
    BY DEF TypedAccess, AccessCore
  <2>5. /\ aw.sh \in ShadowKeys /\ (aw.sh.state = "Bound" <=> aw.sh.label = TRUE)
        /\ Sh = aw.sh /\ KFresh
    BY <2>3 DEF Held, AccessCore, KeyForm, Bound, Sh, KFresh
  <2>6. ASSUME NEW sh \in ShadowKeys, NEW pc, Hold(sh, pc), pc \in Granting
        PROVE  /\ SameAccess /\ aw'.sh = sh /\ aw'.pc = pc /\ aw'.id = aw.id
               /\ keys' = [keys EXCEPT ![aw.who] = sh]
               /\ aw'.sh = keys'[aw'.who]
    BY <2>3, <2>4, <2>6 DEF Hold, AccessWorkers, SameAccess, Held, TypedAccess
  <2>7. CASE AnnotateReservation
    <3> DEFINE sh == [aw.sh EXCEPT !.id = aw.id, !.ann = aw.id]
    <3>1. aw.pc = "annotate" /\ Hold(sh, "import") /\ UNCHANGED <<access, secret, accounts>>
      BY <1>2, <2>5, <2>7 DEF AnnotateReservation, AccessCore, AccessKnown
    <3>2. aw.id # 0 /\ aw.sh.id = aw.id /\ aw.known = 0 /\ aw.sh.state = "Pending" /\ "import" \in Granting
      BY <2>4, <3>1 DEF HoldKnown, Granting, Drawing
    <3>3. /\ sh \in ShadowKeys /\ sh.uid = aw.sh.uid /\ sh.del = aw.sh.del /\ sh.fin = aw.sh.fin
          /\ sh.owner = aw.sh.owner /\ sh.state = "Pending" /\ sh.label = aw.sh.label /\ sh.id = aw.id /\ sh.ann = aw.id
      BY <2>4, <2>5, <3>2 DEF ShadowKeys, AccessWorkers
    <3> HIDE DEF sh
    <3>4. /\ SameAccess /\ aw'.sh = sh /\ aw'.pc = "import" /\ aw'.id = aw.id /\ keys' = [keys EXCEPT ![aw.who] = sh]
          /\ aw'.sh = keys'[aw'.who]
      BY <2>6, <3>1, <3>2, <3>3
    <3>5. WritesHeld(sh)
      BY <2>5, <3>1, <3>2, <3>3, <3>4 DEF WritesHeld, Ids
    <3>7. aw'.sh = keys'[aw'.who] /\ There(aw.who)' /\ ~keys'[aw'.who].del /\ keys'[aw'.who].fin
      BY <2>3, <3>3, <3>4 DEF Held, There, SameAccess
    <3>6. HoldKnown'
      BY <3>1, <3>2, <3>3, <3>4, <3>7 DEF HoldKnown, SameAccess, Bounding, Drawing
    <3> QED
      BY <2>2, <3>2, <3>3, <3>4, <3>5, <3>6, WritingKeeps
  <2>8. CASE BindShadowKey
    <3> DEFINE sh == [aw.sh EXCEPT !.id = aw.id, !.ann = aw.id, !.state = "Bound", !.label = TRUE]
    <3>1. aw.pc = "bind" /\ Hold(sh, "perms") /\ UNCHANGED <<access, secret, accounts>>
      BY <1>2, <2>8 DEF BindShadowKey, StepAccess
    <3>2. /\ aw.id # 0 /\ aw.sh.id = aw.id /\ aw.sh.ann = aw.id /\ "perms" \in Granting
          /\ accounts.key[aw.id] # "free" /\ (aw.known # 0 => aw.id = aw.known)
      BY <2>4, <3>1 DEF HoldKnown, Granting, Bounding
    <3>3. /\ sh \in ShadowKeys /\ sh.uid = aw.sh.uid /\ sh.del = aw.sh.del /\ sh.fin = aw.sh.fin
          /\ sh.owner = aw.sh.owner /\ sh.state = "Bound" /\ sh.label = TRUE /\ sh.id = aw.id /\ sh.ann = aw.id
      BY <2>4, <2>5, <3>2 DEF ShadowKeys, AccessWorkers
    <3> HIDE DEF sh
    <3>4. /\ SameAccess /\ aw'.sh = sh /\ aw'.pc = "perms" /\ aw'.id = aw.id /\ keys' = [keys EXCEPT ![aw.who] = sh]
          /\ aw'.sh = keys'[aw'.who]
      BY <2>6, <3>1, <3>2, <3>3
    <3>5. WritesHeld(sh)
      BY <2>5, <3>1, <3>2, <3>3, <3>4 DEF WritesHeld, Ids
    <3>7. aw'.sh = keys'[aw'.who] /\ There(aw.who)' /\ ~keys'[aw'.who].del /\ keys'[aw'.who].fin
      BY <2>3, <3>3, <3>4 DEF Held, There, SameAccess
    <3>6. HoldKnown'
      BY <3>1, <3>2, <3>3, <3>4, <3>7 DEF HoldKnown, SameAccess, Bounding, Drawing
    <3> QED
      BY <2>2, <3>2, <3>3, <3>4, <3>5, <3>6, WritingKeeps
  <2>9. CASE RedrawKey \/ (EnsureKeyReservationSecret /\ aw.sh.id = 0)
    <3> DEFINE sh == [aw.sh EXCEPT !.id = FreshKey]
    <3>1. /\ aw.pc \in {"redraw", "material"} /\ (aw.pc = "material" => aw.sh.id = 0)
          /\ Unused # {} /\ Hold(sh, "material") /\ UNCHANGED <<access, secret, accounts>>
      BY <2>5, <2>9 DEF RedrawKey, EnsureKeyReservationSecret, PersistShadowKeyStatusID, StepAccess
    <3>2. aw.known = 0 /\ aw.sh.state = "Pending" /\ ~LiveKey(aw.sh.id) /\ "material" \in Granting
      BY <2>4, <3>1 DEF HoldKnown, Granting, Drawing, LiveKey
    <3>3. Untouched(FreshKey) /\ FreshKey \in KeyId /\ ~LiveKey(FreshKey) /\ FreshKey # 0
      BY <3>1, FreshKeyIsUntouched DEF Untouched, LiveKey
    <3>4. /\ sh \in ShadowKeys /\ sh.uid = aw.sh.uid /\ sh.del = aw.sh.del /\ sh.fin = aw.sh.fin
          /\ sh.owner = aw.sh.owner /\ sh.state = "Pending" /\ sh.label = aw.sh.label
          /\ sh.id = FreshKey /\ sh.ann = aw.sh.ann
      BY <2>5, <3>2, <3>3 DEF ShadowKeys, KIDs
    <3> HIDE DEF sh
    <3>5. /\ SameAccess /\ aw'.sh = sh /\ aw'.pc = "material" /\ aw'.id = aw.id /\ keys' = [keys EXCEPT ![aw.who] = sh]
          /\ aw'.sh = keys'[aw'.who]
      BY <2>6, <3>1, <3>2, <3>4
    <3>6. WritesHeld(sh)
      BY <2>5, <3>1, <3>2, <3>3, <3>4, <3>5 DEF WritesHeld, Ids
    <3>8. aw'.sh = keys'[aw'.who] /\ There(aw.who)' /\ ~keys'[aw'.who].del /\ keys'[aw'.who].fin
      BY <2>3, <3>4, <3>5 DEF Held, There, SameAccess
    <3>7. HoldKnown'
      BY <3>1, <3>2, <3>4, <3>5, <3>8 DEF HoldKnown, SameAccess, Bounding, Drawing
    <3> QED
      BY <2>2, <3>2, <3>4, <3>5, <3>6, <3>7, WritingKeeps
  <2> QED
    BY <2>7, <2>8, <2>9
<1> QED
  BY <1>1, <1>2

-----------------------------------------------------------------------------
(* Steps that write only accounts in Garage.                               *)

\* A key is imported only under an ID that some shadow's annotation and
\* status agree on; permissions only shrink to what the access asked for.
AccountsWritten ==
  /\ UNCHANGED <<access, keys, secret>>
  /\ \A k \in KeyId : /\ accounts.key[k] # "free" => accounts'.key[k] # "free"
                      /\ accounts'.perm[k] = accounts.perm[k] \/ accounts'.perm[k] \subseteq Want
                      /\ accounts'.key[k] = "live" =>
                           \/ accounts.key[k] = "live"
                           \/ \E i \in Identity : /\ There(i) /\ keys[i].id = k /\ keys[i].ann = k
                                                 /\ ~keys[i].del /\ keys[i].fin
LEMMA AccountsWrittenKeep ==
  ASSUME TypedAccess, AccessCore, AccountsWritten
  PROVE  ObjectForms' /\ (aw'.pc = "idle" \/ aw.pc # "idle" => LegacyForm')
<1>1. /\ \A i \in Identity : There(i)' = There(i) /\ Bound(i)' = Bound(i) /\ Ids(keys[i])' = Ids(keys[i])
      /\ \A a \in Access : Owns(a)' = Owns(a) /\ Exists(a)' = Exists(a)
      /\ access' = access /\ keys' = keys /\ secret' = secret
      /\ \A k \in KIDs : LiveKey(k)' => k \in KeyId /\ accounts'.key[k] = "live"
  BY DEF AccountsWritten, There, Bound, Owns, Exists, Ids, LiveKey, KIDs
<1>2. ASSUME NEW i \in Identity, LiveKey(keys[i].id)'
      PROVE  keys[i].ann = keys[i].id /\ (LiveKey(keys[i].id) \/ (~keys[i].del /\ keys[i].fin))
  <2>1. keys[i].id \in KeyId /\ keys[i].id # 0 /\ accounts'.key[keys[i].id] = "live"
    BY <1>1, <1>2 DEF TypedAccess, ShadowKeys, LiveKey
  <2>2. CASE accounts.key[keys[i].id] = "live"
    BY <2>1, <2>2 DEF AccessCore, KeyForm, LiveKey
  <2>3. ASSUME NEW j \in Identity, There(j), keys[j].id = keys[i].id, keys[j].ann = keys[i].id,
               ~keys[j].del, keys[j].fin
        PROVE  keys[i].ann = keys[i].id /\ ~keys[i].del /\ keys[i].fin
    <3>1. keys[i].id \in Ids(keys[i]) \cap Ids(keys[j])
      BY <2>3, <1>1, <1>2 DEF Ids, LiveKey
    <3> QED
      BY <2>3, <3>1 DEF AccessCore, KeysDiffer
  <2> QED
    BY <2>1, <2>2, <2>3 DEF AccountsWritten
<1>3. \A i \in Identity : keys[i].id \in KIDs /\ keys[i].id \in {0} \cup KeyId
  BY DEF TypedAccess, ShadowKeys, KIDs
<1>4. KeyForm'
  BY <1>1, <1>2, <1>3 DEF AccessCore, KeyForm, AccountsWritten
<1>0. \A i \in Identity : keys[i].del /\ ~LiveKey(keys[i].id) => Doomed(i)'
  BY <1>1, <1>2 DEF Doomed
<1>5. KeysDiffer'
  <2>1. ASSUME NEW a \in Access, access[a].id \in Ids(keys[a]), keys[a].del PROVE ~LiveKey(access[a].id)'
    <3>1. ASSUME LiveKey(access[a].id)' PROVE FALSE
      <4>1. access[a].id \in KeyId /\ accounts'.key[access[a].id] = "live" /\ ~LiveKey(access[a].id) /\ access[a].id # 0
        BY <1>1, <2>1, <3>1 DEF AccessCore, KeysDiffer, TypedAccess, Accesses, LiveKey
      <4>2. PICK i \in Identity : keys[i].id = access[a].id /\ ~keys[i].del
        BY <4>1 DEF AccountsWritten, LiveKey
      <4>3. access[a].id \in Ids(keys[i]) \cap Ids(keys[a])
        BY <2>1, <4>1, <4>2 DEF Ids
      <4> QED
        BY <2>1, <4>2, <4>3, Names DEF AccessCore, KeysDiffer
    <3> QED
      BY <3>1
  <2> QED
    BY <1>1, <2>1 DEF AccessCore, KeysDiffer
<1>6. KeyTracking'
  <2>1. ASSUME NEW k \in KeyId, LiveKey(k)' PROVE \E i \in Identity : There(i) /\ keys[i].id = k
    <3>1. accounts'.key[k] = "live" /\ k # 0
      BY <2>1 DEF LiveKey
    <3> QED
      BY <2>1, <3>1 DEF AccessCore, KeyTracking, AccountsWritten, LiveKey
  <2> QED
    BY <1>1, <2>1 DEF KeyTracking
<1>7. AccessForm' /\ Sharing' /\ SecretForm'
  <2>1. \A a \in Access : access[a].id \in {0} \cup KeyId /\ secret[a].id \in {0} \cup KeyId
    BY DEF TypedAccess, Accesses, Secrets, KIDs
  <2> QED
    BY <1>0, <1>1, <2>1, Names DEF AccessCore, AccessForm, Sharing, SecretForm, AccountsWritten, Doomed
<1>8. ASSUME aw'.pc = "idle" \/ aw.pc # "idle" PROVE LegacyForm'
  <2>1. ASSUME keys[Name].del PROVE GivenUp'
    <3>1. GivenUp
      BY <2>1 DEF AccessCore, LegacyForm
    <3>2. ~LiveKey(keys[Name].id) => ~LiveKey(keys[Name].id)'
      BY <1>2, <2>1, Names
    <3> QED
      BY <1>1, <3>1, <3>2, Names DEF GivenUp
  <2>2. Doomed(Name) => Doomed(Name)'
    BY <1>0, Names DEF Doomed
  <2> QED
    BY <1>1, <1>8, <2>1, <2>2, Names DEF AccessCore, LegacyForm
<1> QED
  BY <1>4, <1>5, <1>6, <1>7, <1>8 DEF ObjectForms

LEMMA GrantingAccountsKeep ==
  ASSUME TypedAccess, AccessCore, ImportReservedKey \/ ReconcileCOSIKeyPermissions
  PROVE  AccessCore'
<1>1. CASE FailAccess
  BY <1>1, AFailKeeps
<1>2. ASSUME ~FailAccess PROVE AccessCore'
  <2>1. UNCHANGED <<access, keys, secret>>
    BY <1>2 DEF ImportReservedKey, ReconcileCOSIKeyPermissions
  <2>2. /\ aw \in AccessWorkers /\ HoldKnown /\ accounts \in Accounts
    BY DEF TypedAccess, AccessCore
  <2>3. \/ aw.pc = "import" /\ accounts' = [accounts EXCEPT !.key[aw.id] = "live"] /\ aw' = [aw EXCEPT !.pc = "bind"]
        \/ /\ aw.pc = "perms" /\ accounts' = [accounts EXCEPT !.perm[aw.id] = Want]
           /\ aw' = [aw EXCEPT !.pc = "unreserve"]
    BY <1>2 DEF ImportReservedKey, ReconcileCOSIKeyPermissions, StepAccess, ExactKeyPermissions, AGoTo
  <2>4. /\ SameAccess /\ aw'.sh = aw.sh /\ aw'.id = aw.id
        /\ (aw.pc = "import" /\ aw'.pc = "bind") \/ (aw.pc = "perms" /\ aw'.pc = "unreserve")
    BY <2>2, <2>3 DEF SameAccess, AccessWorkers
  <2>5. aw.pc \in Granting /\ aw'.pc \in Granting /\ Held
    BY <2>4, HeldIsSound DEF Granting, Drawing, Bounding
  <2>6. aw.id # 0 /\ aw.sh.id = aw.id /\ aw.sh.ann = aw.id /\ aw.id \in KeyId
    BY <2>2, <2>4 DEF HoldKnown, Bounding, AccessWorkers, KIDs
  <2>7. /\ aw.pc = "import" => /\ accounts'.perm = accounts.perm /\ accounts'.key[aw.id] = "live"
                               /\ \A k \in KeyId \ {aw.id} : accounts'.key[k] = accounts.key[k]
        /\ aw.pc = "perms" => /\ accounts'.key = accounts.key /\ accounts'.perm[aw.id] = Want
                              /\ \A k \in KeyId \ {aw.id} : accounts'.perm[k] = accounts.perm[k]
    BY <2>2, <2>3, <2>6 DEF Accounts
  <2>8. AccountsWritten
    <3>1. aw.who \in Identity /\ There(aw.who) /\ keys[aw.who] = aw.sh /\ ~aw.sh.del /\ aw.sh.fin
      BY <2>5 DEF Held
    <3> QED
      BY <2>1, <2>4, <2>6, <2>7, <3>1 DEF AccountsWritten
  <2>9. AccessKnown'
    BY <2>1, <2>4, <2>5, GoingOn DEF There
  <2>10. TurnKnown'
    <3>1. aw.pc = "import" => aw.known = 0
      BY <2>2 DEF HoldKnown, Drawing
    <3>2. LiveKey(aw.known)' => LiveKey(aw.known)
      BY <2>4, <2>7, <3>1 DEF LiveKey, SameAccess
    <3> QED
      BY <2>1, <2>4, <2>5, <3>2, Names DEF AccessCore, TurnKnown, SameAccess, There, Bound, Ids
  <2>11. HoldKnown'
    <3>1. /\ aw'.sh = keys'[aw'.who] /\ There(aw.who)' /\ ~keys'[aw'.who].del /\ keys'[aw'.who].fin
          /\ accounts'.key[aw.id] # "free"
          /\ aw'.pc = "unreserve" => accounts'.perm[aw.id] \subseteq Want
      BY <2>1, <2>2, <2>4, <2>5, <2>7 DEF Held, There, SameAccess, HoldKnown, Bounding
    <3> QED
      BY <2>2, <2>4, <3>1 DEF HoldKnown, SameAccess, Bounding, Drawing
  <2> QED
    BY <2>5, <2>8, <2>9, <2>10, <2>11, Points, AccountsWrittenKeep DEF AccessCore, ObjectForms
<1> QED
  BY <1>1, <1>2

-----------------------------------------------------------------------------
(* The shadow is reserved.                                                 *)

LEMMA FreshUIDIsNew ==
  FreshUID \in 1..4
<1> DEFINE S == (1..4) \ {keys[i].uid : i \in Identity}
<1>1. Identity = {1, 2, 3}
  BY DEF Identity, Access, Name
<1>2. {keys[i].uid : i \in Identity} = {keys[1].uid, keys[2].uid, keys[3].uid}
  BY <1>1
<1>3. S # {}
  BY <1>2
<1>4. S \in SUBSET Nat
  OBVIOUS
<1>5. Lowest(S) \in S
  <2> HIDE DEF S
  <2> QED
    BY <1>3, <1>4, LowestIsIn
<1> QED
  BY <1>5 DEF FreshUID

LEMMA ReserveShadowKeyKeeps ==
  ASSUME TypedAccess, AccessCore, ReserveShadowKey
  PROVE  AccessCore'
<1>1. CASE FailAccess
  BY <1>1, AFailKeeps
<1>2. /\ aw.pc = "reserve" /\ "reserve" \in Entering /\ "lookup" \in Granting /\ aw \in AccessWorkers
      /\ aw.a \in Access /\ "lookup" \notin Drawing \cup Bounding
  BY DEF ReserveShadowKey, StepAccess, Entering, Granting, Drawing, Bounding, TypedAccess, AccessWorkers
<1>3. /\ aw.who \in {aw.a, Name} /\ aw.who \in Identity /\ Owns(aw.a) /\ access[aw.a].id = aw.known
      /\ aw.who = Name => There(Name) /\ ~There(aw.a)
      /\ aw.who = aw.a /\ LiveKey(aw.known) => aw.known \in Ids(keys[aw.a])
  BY <1>2, Names DEF AccessCore, AccessKnown, TurnKnown
<1>4. ASSUME Sh.uid # 0, ~Sh.del, Hold([Sh EXCEPT !.fin = TRUE], "lookup"), UNCHANGED <<access, rsv, secret, accounts>>
      PROVE  AccessCore'
  <2>1. PICK who \in Identity : who = aw.who
    BY <1>3
  <2> DEFINE sh == [keys[who] EXCEPT !.fin = TRUE]
  <2>2. /\ keys[who] \in ShadowKeys /\ sh \in ShadowKeys /\ sh.fin = TRUE /\ keys[who].uid # 0 /\ ~keys[who].del
        /\ sh.uid = keys[who].uid /\ sh.del = keys[who].del /\ sh.state = keys[who].state /\ sh.ann = keys[who].ann
        /\ sh.id = keys[who].id /\ sh.label = keys[who].label /\ sh.owner = keys[who].owner
    BY <1>4, <2>1 DEF TypedAccess, ShadowKeys, Sh
  <2>3. keys' = [keys EXCEPT ![who] = sh] /\ aw' = [aw EXCEPT !.sh = sh, !.pc = "lookup"]
    BY <1>4, <2>1 DEF Hold, Sh
  <2> HIDE DEF sh
  <2>4. keys'[who] = sh /\ \A i \in Identity \ {who} : keys'[i] = keys[i]
    BY <2>2, <2>3, KeyUpdate DEF TypedAccess
  <2>5. SameAccess /\ aw'.pc = "lookup" /\ aw'.sh = sh
    BY <1>2, <2>3 DEF SameAccess, AccessWorkers
  <2>6. ASSUME NEW i \in Identity PROVE Moved(i) /\ (There(i)' => There(i))
    <3>1. CASE i = who
      BY <2>2, <2>4, <3>1 DEF Moved, SameShadow, There
    <3>2. CASE i # who
      <4>1. keys'[i] = keys[i]
        BY <2>4, <3>2
      <4>2. keys[i].uid # 0 /\ ~keys[i].fin => ~keys[i].del /\ ~LiveKey(keys[i].id)
        BY DEF AccessCore, KeyForm, There
      <4>3. ~LiveKey(keys[i].id) => DeadNext(i)
        BY <1>4 DEF LiveKey, DeadNext
      <4> QED
        BY <4>1, <4>2, <4>3 DEF Moved, SameShadow, There
    <3> QED
      BY <3>1, <3>2
  <2>7. MovesShadows
    BY <1>4, <2>6 DEF MovesShadows, AccountsShrink, AccessesKept
  <2>8. ObjectForms' /\ LegacyForm'
    <3>1. aw.pc # "idle"
      BY <1>2
    <3> QED
      BY <2>7, <3>1, ShadowsMovingKeep
  <2>9. AccessKnown'
    BY <1>2, <1>4, <2>5, <2>6, GoingOn, Names
  <2>10. TurnKnown'
    <3>1. \A i \in Identity : /\ There(i)' = There(i) /\ Bound(i)' = Bound(i) /\ Ids(keys[i])' = Ids(keys[i])
                            /\ keys'[i].id = keys[i].id /\ keys'[i].del = keys[i].del
      BY <2>2, <2>4 DEF There, Bound, Ids
    <3>2. aw.pc \in Entering \cup Granting /\ aw.a \in Identity
      BY <1>2, Names
    <3> QED
      BY <1>4, <2>5, <3>1, <3>2, Names DEF AccessCore, TurnKnown, SameAccess, LiveKey
  <2>11. HoldKnown'
    <3>1. aw'.sh = keys'[aw'.who] /\ There(aw.who)' /\ ~keys'[aw'.who].del /\ keys'[aw'.who].fin
      BY <2>1, <2>2, <2>4, <2>5 DEF SameAccess, There
    <3> QED
      BY <1>2, <2>5, <3>1 DEF HoldKnown, SameAccess, Drawing, Bounding
  <2> QED
    BY <2>8, <2>9, <2>10, <2>11 DEF AccessCore, ObjectForms
<1>5. ASSUME Sh.uid = 0, Hold(ShadowKey(FreshUID), "lookup"), UNCHANGED <<access, rsv, secret, accounts>>
      PROVE  AccessCore'
  <2>1. PICK a \in Access : a = aw.a
    BY <1>2
  <2>2. aw.who = a /\ a \in Identity /\ a # Name /\ Sh = keys[a] /\ keys[a].uid = 0
    BY <1>3, <1>5, <2>1, Names DEF There, Sh
  <2>3. keys[a] = NoShadowKey
    BY <2>2 DEF AccessCore, KeyForm
  <2> DEFINE sh == ShadowKey(FreshUID)
  <2>4. /\ sh \in ShadowKeys /\ sh.uid # 0 /\ ~sh.del /\ sh.fin /\ sh.state = "Pending" /\ sh.label = FALSE
        /\ sh.ann = 0 /\ sh.id = 0 /\ sh.owner = 0 /\ Ids(sh) = {} /\ Ids(keys[a]) = {}
    <3>1. PICK uid \in 1..4 : uid = FreshUID
      BY FreshUIDIsNew
    <3>2. NoShadowKey \in ShadowKeys
      BY DEF NoShadowKey, ShadowKeys, KIDs
    <3>3. sh = [NoShadowKey EXCEPT !.uid = uid, !.fin = TRUE]
      BY <3>1 DEF ShadowKey
    <3> HIDE DEF sh
    <3>4. /\ NoShadowKey.del = FALSE /\ NoShadowKey.state = "Pending" /\ NoShadowKey.label = FALSE
          /\ NoShadowKey.ann = 0 /\ NoShadowKey.id = 0 /\ NoShadowKey.owner = 0
      BY DEF NoShadowKey
    <3>5. uid \in 0..4 /\ uid # 0
      OBVIOUS
    <3>6. sh \in ShadowKeys
      BY <3>2, <3>3, <3>5 DEF ShadowKeys
    <3>7. /\ sh.uid = uid /\ sh.fin = TRUE /\ sh.del = NoShadowKey.del /\ sh.state = NoShadowKey.state
          /\ sh.label = NoShadowKey.label /\ sh.ann = NoShadowKey.ann /\ sh.id = NoShadowKey.id
          /\ sh.owner = NoShadowKey.owner
      BY <3>2, <3>3 DEF ShadowKeys
    <3> QED
      BY <2>3, <3>4, <3>5, <3>6, <3>7 DEF Ids
  <2>5. keys' = [keys EXCEPT ![a] = sh] /\ aw' = [aw EXCEPT !.sh = sh, !.pc = "lookup"]
    BY <1>5, <2>2 DEF Hold
  <2> HIDE DEF sh
  <2>6. keys'[a] = sh /\ \A i \in Identity \ {a} : keys'[i] = keys[i]
    BY <2>2, <2>4, <2>5, KeyUpdate DEF TypedAccess
  <2>7. SameAccess /\ aw'.pc = "lookup" /\ aw'.sh = sh
    BY <1>2, <2>5 DEF SameAccess, AccessWorkers
  <2>8. /\ \A i \in Identity : Ids(keys[i])' = Ids(keys[i]) /\ keys'[i].state = keys[i].state
        /\ \A i \in Identity : There(i) => There(i)' /\ keys'[i] = keys[i]
        /\ There(Name)' = There(Name) /\ Bound(Name)' = Bound(Name) /\ keys'[Name] = keys[Name]
        /\ \A k : LiveKey(k)' = LiveKey(k)
    <3>1. Ids(keys[a])' = Ids(keys[a]) /\ keys'[a].state = keys[a].state /\ ~There(a)
      BY <2>2, <2>3, <2>4, <2>6 DEF NoShadowKey, Ids, There
    <3>2. ASSUME NEW i \in Identity, i # a PROVE Ids(keys[i])' = Ids(keys[i]) /\ keys'[i] = keys[i]
      BY <2>6, <3>2 DEF Ids
    <3>3. \A k : LiveKey(k)' = LiveKey(k)
      BY <1>5 DEF LiveKey
    <3> QED
      BY <2>2, <3>1, <3>2, <3>3, Names DEF There, Bound
  <2>9. KeyForm'
    <3>1. ASSUME NEW i \in Identity, i # a
          PROVE  /\ keys'[i].uid = 0 => keys'[i] = NoShadowKey
                 /\ There(i)' /\ ~keys'[i].fin => ~keys'[i].del /\ ~LiveKey(keys[i].id)'
                 /\ Bound(i)' <=> keys'[i].label = TRUE
                 /\ Bound(i)' => keys'[i].ann # 0 /\ keys'[i].id = keys'[i].ann /\ accounts'.key[keys'[i].id] # "free"
                 /\ keys'[i].ann # 0 => keys'[i].id # 0
                 /\ LiveKey(keys[i].id)' => keys'[i].ann = keys'[i].id
                 /\ i \in Access => keys'[i].owner = 0 /\ Legacy \notin Ids(keys[i])'
      <4>1. keys'[i] = keys[i] /\ accounts' = accounts /\ (LiveKey(keys[i].id)' = LiveKey(keys[i].id))
        BY <1>5, <2>6, <2>8, <3>1
      <4> QED
        BY <4>1, <2>8 DEF AccessCore, KeyForm, There, Bound
    <3>2. /\ keys'[a].uid # 0 /\ keys'[a].fin /\ ~Bound(a)' /\ keys'[a].label = FALSE /\ keys'[a].ann = 0
          /\ ~LiveKey(keys[a].id)' /\ keys'[a].owner = 0 /\ Ids(keys[a])' = {}
      BY <2>4, <2>6, <2>8 DEF Bound, LiveKey
    <3> QED
      BY <3>1, <3>2, <2>6 DEF KeyForm
  <2>10. KeysDiffer'
    <3>1. /\ \A i, j \in Identity : i # j => Ids(keys[i])' \cap Ids(keys[j])' = {}
          /\ \A i, b \in Access : i # b => access'[b].id \notin Ids(keys[i])' /\ secret'[b].id \notin Ids(keys[i])'
          /\ \A i \in Identity : keys'[i].state = "Pending" =>
               \A b \in Access : access'[b].id \notin Ids(keys[i])' /\ secret'[b].id \notin Ids(keys[i])'
      BY <1>5, <2>8, Names DEF AccessCore, KeysDiffer
    <3>2. \A b \in Access : access'[b].id \in Ids(keys[b])' => ~keys'[b].del \/ ~LiveKey(access[b].id)'
      BY <1>5, <2>4, <2>6, <2>8, Names DEF AccessCore, KeysDiffer
    <3> QED
      BY <3>1, <3>2 DEF KeysDiffer
  <2>11. KeyTracking'
    BY <2>8 DEF AccessCore, KeyTracking
  <2>12. AccessForm' /\ Sharing' /\ SecretForm' /\ LegacyForm'
    <3>1. AccessForm'
      <4>1. \A b \in Access : Owns(b)' = Owns(b)
        BY <1>5 DEF Owns, Exists
      <4>2. ASSUME NEW b \in Access, b # a PROVE There(b)' = There(b) /\ Doomed(b)' = Doomed(b)
        BY <1>5, <2>6, <4>2, Names DEF There, Doomed, LiveKey
      <4>3. Owns(a)
        BY <1>3, <2>1
      <4>4. \A b \in Access : ~Owns(b)' /\ There(b)' => Doomed(b)'
        BY <4>1, <4>2, <4>3 DEF AccessCore, AccessForm
      <4> QED
        BY <1>5, <4>4 DEF AccessCore, AccessForm, Exists
    <3>2. Sharing' /\ SecretForm'
      BY <1>5, <2>8 DEF AccessCore, Sharing, SecretForm, Exists
    <3>3. There(Name) /\ ~Doomed(Name) /\ keys[Name].owner = 0 => Bound(Name)
      BY <1>2 DEF AccessCore, LegacyForm
    <3>4. LegacyForm'
      BY <1>5, <2>8, <3>3 DEF AccessCore, LegacyForm, GivenUp, Doomed, LiveKey, Owns, Exists
    <3> QED
      BY <3>1, <3>2, <3>4
  <2>13. AccessKnown'
    BY <1>2, <1>5, <2>2, <2>7, GoingOn
  <2>14. TurnKnown'
    <3>1. ~LiveKey(aw.known)'
      BY <1>3, <1>5, <2>2, <2>4, <2>7 DEF LiveKey, SameAccess
    <3> QED
      BY <2>2, <2>7, <3>1 DEF TurnKnown, SameAccess
  <2>15. HoldKnown'
    BY <1>2, <2>2, <2>4, <2>6, <2>7 DEF HoldKnown, SameAccess, There, Drawing, Bounding
  <2> QED
    BY <2>9, <2>10, <2>11, <2>12, <2>13, <2>14, <2>15 DEF AccessCore
<1> QED
  BY <1>1, <1>4, <1>5 DEF ReserveShadowKey

-----------------------------------------------------------------------------
(* The credentials and the status are published.                           *)

\* The key of the bound shadow the worker holds is nobody else's, unless
\* the access recorded it before.
Exclusive(a, who) ==
  /\ a \in Access /\ who \in Identity /\ aw.id \in KeyId /\ aw.id \in Ids(keys[who]) /\ Bound(who)
  /\ ~keys[who].del /\ who \in {a, Name} /\ Owns(a) /\ access[a].id = aw.known
  /\ aw.known # 0 => aw.id = aw.known
  /\ accounts.key[aw.id] # "free"
  /\ \A i \in Identity \ {who} : aw.id \notin Ids(keys[i])
  /\ \A b \in Access \ {a} : access[b].id = aw.id \/ secret[b].id = aw.id => aw.known = aw.id
LEMMA BoundKeyIsExclusive ==
  ASSUME TypedAccess, AccessCore, aw.pc \in Bounding
  PROVE  Exclusive(aw.a, aw.who)
<1>1. Held /\ aw.pc \in Granting
  BY HeldIsSound DEF Granting
<1>2. aw.id # 0 /\ aw.sh.id = aw.id /\ aw.sh.state = "Bound" /\ (aw.known # 0 => aw.id = aw.known)
      /\ accounts.key[aw.id] # "free" /\ aw.id \in KeyId
  BY DEF AccessCore, HoldKnown, TypedAccess, AccessWorkers, KIDs, Bounding
<1>3. aw.id \in Ids(keys[aw.who]) /\ Bound(aw.who)
  BY <1>1, <1>2 DEF Held, Ids, Bound
<1>4. \A i \in Identity \ {aw.who} : aw.id \notin Ids(keys[i])
  BY <1>1, <1>3 DEF AccessCore, KeysDiffer, Held
<1>5. ASSUME NEW b \in Access \ {aw.a}, access[b].id = aw.id \/ secret[b].id = aw.id PROVE aw.known = aw.id
  <2>1. CASE aw.who = aw.a
    BY <1>1, <1>3, <1>5, <2>1 DEF AccessCore, KeysDiffer, Held
  <2>2. CASE aw.who = Name
    BY <1>1, <1>2, <1>3, <1>5, <2>2 DEF AccessCore, TurnKnown
  <2> QED
    BY <1>1, <2>1, <2>2 DEF Held
<1> QED
  BY <1>1, <1>2, <1>3, <1>4, <1>5 DEF Exclusive, Held

LEMMA PopulateSecretKeeps ==
  ASSUME TypedAccess, AccessCore, PopulateSecret
  PROVE  AccessCore'
<1>1. CASE FailAccess
  BY <1>1, AFailKeeps
<1>2. ASSUME ~FailAccess PROVE AccessCore'
  <2>1. /\ aw.pc = "populate" /\ secret[aw.a].by = aw.a /\ secret' = [secret EXCEPT ![aw.a].id = aw.id]
        /\ aw' = [aw EXCEPT !.pc = "status"] /\ UNCHANGED <<access, keys, accounts>>
    BY <1>2 DEF PopulateSecret, StepAccess, AGoTo
  <2>2. aw \in AccessWorkers /\ secret \in [Access -> Secrets]
    BY DEF TypedAccess
  <2>3. SameAccess /\ aw'.pc = "status" /\ aw'.sh = aw.sh /\ aw'.id = aw.id
    BY <2>1, <2>2 DEF SameAccess, AccessWorkers
  <2>4. aw.pc \in Bounding /\ aw.pc \in Granting /\ aw'.pc \in Granting
    BY <2>1, <2>3 DEF Granting, Bounding
  <2>5. PICK a, who : a = aw.a /\ who = aw.who /\ Exclusive(a, who)
    BY <2>4, BoundKeyIsExclusive
  <2>6. accounts.perm[aw.id] \subseteq Want
    BY <2>1 DEF AccessCore, HoldKnown
  <2>7. secret'[a].id = aw.id /\ secret'[a].by = a /\ \A b \in Access \ {a} : secret'[b] = secret[b]
    BY <2>1, <2>2, <2>5 DEF Exclusive, Secrets
  <2>8. KeyForm' /\ KeyTracking' /\ AccessForm' /\ Sharing' /\ LegacyForm'
    <3>1. aw.pc # "idle"
      BY <2>1
    <3> QED
      BY <2>1, <3>1
         DEF AccessCore, KeyForm, KeyTracking, AccessForm, Sharing, LegacyForm, GivenUp, Doomed, LiveKey, There, Bound,
             Owns, Exists
  <2>9. KeysDiffer'
    <3>1. \A i \in Identity : keys[i].state = "Pending" => i # who
      BY <2>5 DEF Exclusive, Bound
    <3>2. \A i, b \in Access : i # b => secret'[b].id \notin Ids(keys[i])
      BY <2>5, <2>7, Names DEF AccessCore, KeysDiffer, Exclusive
    <3>3. \A i \in Identity : keys[i].state = "Pending" => \A b \in Access : secret'[b].id \notin Ids(keys[i])
      BY <2>5, <2>7, <3>1 DEF AccessCore, KeysDiffer, Exclusive
    <3> QED
      BY <2>1, <3>2, <3>3 DEF AccessCore, KeysDiffer, LiveKey
  <2>10. SecretForm'
    <3>1. /\ Exists(a) /\ accounts.key[aw.id] # "free" /\ accounts.perm[aw.id] \subseteq Want
          /\ \A b \in Access : access[b].id = aw.id => access[a].id = aw.id
      BY <2>5, <2>6 DEF Exclusive, Owns
    <3>2. accounts' = accounts /\ access' = access /\ \A b \in Access : Exists(b)' = Exists(b)
      BY <2>1 DEF Exists
    <3>3. ASSUME NEW c \in Access, secret'[c].id # 0
          PROVE  /\ secret'[c].by = c /\ Exists(c)
                 /\ accounts.key[secret'[c].id] # "free" /\ accounts.perm[secret'[c].id] \subseteq Want
                 /\ \A b \in Access : access[b].id = secret'[c].id => access[c].id = secret'[c].id
      <4>1. CASE c = a
        BY <2>7, <3>1, <4>1
      <4>2. CASE c # a
        BY <2>7, <3>3, <4>2 DEF AccessCore, SecretForm
      <4> QED
        BY <4>1, <4>2
    <3> QED
      BY <3>2, <3>3 DEF SecretForm
  <2>11. AccessKnown'
    BY <2>1, <2>3, <2>4, GoingOn DEF There
  <2>12. TurnKnown'
    <3>1. aw'.who = who /\ aw'.a = a /\ aw'.known = aw.known /\ TurnKnown
      BY <2>3, <2>5 DEF AccessCore, SameAccess
    <3> QED
      BY <2>1, <2>4, <2>5, <2>7, <3>1, Names DEF TurnKnown, There, Bound, LiveKey
  <2>13. HoldKnown'
    <3>1. There(aw.who)' /\ ~keys'[aw'.who].del /\ keys'[aw'.who].fin /\ aw'.sh = keys'[aw'.who]
      BY <2>1, <2>3, <2>4, HeldIsSound DEF Held, SameAccess, There
    <3>2. HoldKnown /\ aw'.pc \notin Drawing
      BY <2>3 DEF AccessCore, Drawing
    <3> QED
      BY <2>1, <2>3, <2>4, <3>1, <3>2 DEF HoldKnown, SameAccess, Bounding
  <2> QED
    BY <2>8, <2>9, <2>10, <2>11, <2>12, <2>13 DEF AccessCore
<1> QED
  BY <1>1, <1>2

LEMMA PublishAccessStatusKeeps ==
  ASSUME TypedAccess, AccessCore, PublishAccessStatus
  PROVE  AccessCore'
<1>1. /\ aw.pc = "status" /\ aw'.pc = "idle" /\ UNCHANGED <<keys, secret, accounts>>
      /\ access' = IF access[aw.a].st = "live" THEN [access EXCEPT ![aw.a].id = aw.id, ![aw.a].ready = TRUE] ELSE access
  BY DEF PublishAccessStatus, StepAccess, ADone, IdleAccess
<1>2. CASE access' = access
  BY <1>1, <1>2, LeavingIsSafe DEF AccessesKept
<1>3. ASSUME access[aw.a].st = "live" PROVE AccessCore'
  <2>1. aw.pc \in Bounding
    BY <1>1 DEF Bounding
  <2>2. PICK a, who : a = aw.a /\ who = aw.who /\ Exclusive(a, who)
    BY <2>1, BoundKeyIsExclusive
  <2>3. /\ access'[a].id = aw.id /\ access'[a].st = access[a].st /\ access'[a].handed = access[a].handed
        /\ \A b \in Access \ {a} : access'[b] = access[b]
    BY <1>1, <1>3, <2>2 DEF Exclusive, TypedAccess, Accesses
  <2>4. \A b \in Access : Owns(b)' = Owns(b) /\ Exists(b)' = Exists(b) /\ access'[b].st = access[b].st
    BY <2>3 DEF Owns, Exists
  <2>5. KeyForm' /\ KeyTracking'
    BY <1>1 DEF AccessCore, KeyForm, KeyTracking, LiveKey, There, Bound
  <2>6. KeysDiffer'
    <3>1. \A i \in Identity : keys[i].state = "Pending" => i # who
      BY <2>2 DEF Exclusive, Bound
    <3>2. \A i, b \in Access : i # b => access'[b].id \notin Ids(keys[i])
      BY <2>2, <2>3, Names DEF AccessCore, KeysDiffer, Exclusive
    <3>3. \A i \in Identity : keys[i].state = "Pending" => \A b \in Access : access'[b].id \notin Ids(keys[i])
      BY <2>2, <2>3, <3>1 DEF AccessCore, KeysDiffer, Exclusive
    <3>4. \A b \in Access : access'[b].id \in Ids(keys[b]) => ~keys[b].del \/ ~LiveKey(access'[b].id)
      BY <2>2, <2>3, Names DEF AccessCore, KeysDiffer, Exclusive
    <3> QED
      BY <1>1, <3>2, <3>3, <3>4 DEF AccessCore, KeysDiffer, LiveKey
  <2>7. AccessForm'
    <3>1. /\ \A b \in Access : There(b)' = There(b)
          /\ \A b \in Access : access'[b].handed = access[b].handed
          /\ \A b \in Access : Doomed(b)' = Doomed(b)
          /\ accounts' = accounts /\ Owns(a) /\ Exists(a)
      BY <1>1, <2>2, <2>3 DEF Exclusive, There, Owns, Doomed, LiveKey
    <3>2. \A b \in Access : access'[b].id = access[b].id \/ (b = a /\ access'[b].id = aw.id)
      BY <2>3
    <3> QED
      BY <2>2, <2>4, <3>1, <3>2 DEF AccessCore, AccessForm, Exclusive
  <2>8. Sharing'
    <3>1. access'[1].id = access'[2].id => access'[1].id = access[1].id /\ access'[2].id = access[2].id
      BY <2>2, <2>3, Names DEF Exclusive
    <3> QED
      BY <1>1, <3>1 DEF AccessCore, Sharing, There, Bound
  <2>9. SecretForm'
    <3>1. ASSUME NEW c \in Access, secret[c].id # 0, NEW b \in Access, access'[b].id = secret[c].id
          PROVE  access'[c].id = secret[c].id
      BY <2>2, <2>3, <3>1 DEF AccessCore, SecretForm, Exclusive
    <3>2. ASSUME NEW c \in Access, secret[c].id # 0
          PROVE  /\ secret[c].by = c /\ Exists(c)'
                 /\ accounts.key[secret[c].id] # "free" /\ accounts.perm[secret[c].id] \subseteq Want
      BY <2>4, <3>2 DEF AccessCore, SecretForm
    <3>3. secret' = secret /\ accounts' = accounts
      BY <1>1
    <3> QED
      BY <3>1, <3>2, <3>3 DEF SecretForm
  <2>10. LegacyForm'
    <3>1. aw.pc # "idle" /\ (Bound(Name) => keys[Name].id # 0)
      BY <1>1, Names DEF AccessCore, KeyForm
    <3>2. keys[Name].owner # 0 => access'[keys[Name].owner].st = access[keys[Name].owner].st
      BY <2>4, Names DEF TypedAccess, ShadowKeys
    <3>3. \A b \in Access : access[b].id # 0 /\ access[b].id = keys[Name].id => access'[b].id = access[b].id
      BY <2>2, <2>3 DEF Exclusive
    <3>4. ASSUME keys[Name].del PROVE GivenUp'
      <4>1. GivenUp /\ Bound(Name)' = Bound(Name)
        BY <1>1, <3>4 DEF AccessCore, LegacyForm, Bound
      <4>2. Bound(Name) => keys[Name].id \in Ids(keys[Name])
        BY <3>1 DEF Ids
      <4>3. Bound(Name) => aw.id # keys[Name].id
        BY <2>2, <3>4, <4>2, Names DEF Exclusive
      <4>4. \A b \in Access : access'[b].st = "live" /\ Bound(Name) => access'[b].id # keys[Name].id
        BY <2>2, <2>3, <2>4, <4>1, <4>3 DEF GivenUp, Exclusive
      <4> QED
        BY <1>1, <2>4, <3>2, <4>1, <4>4 DEF GivenUp, LiveKey
    <3>5. There(Name)' = There(Name) /\ Bound(Name)' = Bound(Name) /\ Doomed(Name)' = Doomed(Name)
      BY <1>1 DEF There, Bound, Doomed, LiveKey
    <3> QED
      BY <1>1, <2>4, <3>1, <3>3, <3>4, <3>5 DEF AccessCore, LegacyForm
  <2>11. AccessKnown' /\ TurnKnown' /\ HoldKnown'
    BY <1>1, Points DEF AccessKnown, TurnKnown, HoldKnown, Entering, Granting, Drawing, Bounding, Revoking, Duplicate
  <2> QED
    BY <2>5, <2>6, <2>7, <2>8, <2>9, <2>10, <2>11 DEF AccessCore
<1> QED
  BY <1>1, <1>2, <1>3

-----------------------------------------------------------------------------
(* Shadows that are removed, with the key they named gone.                 *)

\* Dropping a key that is recorded somewhere leaves less of it.
LEMMA DroppedKeyForm ==
  ASSUME TypedAccess, NEW k \in KIDs, accounts' = DropKey(accounts, k)
  PROVE  /\ k # 0 => accounts'.key[k] # "live"
         /\ \A j \in KeyId : /\ accounts.key[j] # "free" => accounts'.key[j] # "free"
                             /\ accounts'.perm[j] = accounts.perm[j] \/ accounts'.perm[j] = {}
                             /\ accounts'.key[j] = "live" => accounts.key[j] = "live"
<1>1. accounts \in Accounts /\ accounts' = [accounts EXCEPT !.key[k] = IF @ = "live" THEN "tombstone" ELSE @, !.perm[k] = {}]
  BY DEF TypedAccess, DropKey
<1>2. /\ \A j \in KeyId : accounts'.key[j] = (IF j = k /\ accounts.key[j] = "live" THEN "tombstone" ELSE accounts.key[j])
      /\ \A j \in KeyId : accounts'.perm[j] = IF j = k THEN {} ELSE accounts.perm[j]
  BY <1>1 DEF Accounts
<1>3. k # 0 => accounts'.key[k] # "live"
  BY <1>2 DEF KIDs
<1> QED
  BY <1>2, <1>3

\* The worker is done.
LEMMA IdleKnowsNothing ==
  ASSUME aw'.pc = "idle"
  PROVE  AccessKnown' /\ TurnKnown' /\ HoldKnown'
  BY Points DEF AccessKnown, TurnKnown, HoldKnown, Entering, Granting, Drawing, Bounding, Revoking, Duplicate

\* The finalizer of a shadow goes, whose key is gone.
LEMMA StrippedForm ==
  ASSUME TypedAccess, AccessCore, NEW i \in Identity, NEW next, StripShadowKey(i, next),
         There(i) => ~LiveKey(keys[i].id)
  PROVE  /\ MovesShadows /\ keys'[i].uid \in {0, keys[i].uid} /\ UNCHANGED <<access, secret, accounts>>
         /\ aw'.pc = next /\ aw'.who = i /\ aw'.sh = keys[i] /\ aw'.a = aw.a /\ aw'.known = aw.known /\ aw'.id = aw.id
<1> DEFINE r == IF keys[i].del THEN NoShadowKey ELSE [keys[i] EXCEPT !.fin = FALSE]
<1>1. /\ keys' = [keys EXCEPT ![i] = r] /\ UNCHANGED <<access, secret, accounts>>
      /\ aw' = [aw EXCEPT !.pc = next, !.who = i, !.sh = keys[i]]
  BY DEF StripShadowKey
<1>2. keys[i] \in ShadowKeys /\ NoShadowKey.uid = 0 /\ NoShadowKey.id = 0
  BY DEF TypedAccess, NoShadowKey
<1>3. keys[i].uid = 0 => keys[i] = NoShadowKey
  BY DEF AccessCore, KeyForm
<1>4. DeadNext(i)
  BY <1>1, <1>2, <1>3 DEF DeadNext, LiveKey, There
<1>5. keys'[i] = r /\ \A j \in Identity \ {i} : keys'[j] = keys[j]
  BY <1>1 DEF TypedAccess
<1>6. Moved(i) /\ keys'[i].uid \in {0, keys[i].uid}
  <2>1. CASE keys[i].del
    BY <1>2, <1>4, <1>5, <2>1 DEF Moved
  <2>2. CASE ~keys[i].del
    <3>1. keys'[i] = [keys[i] EXCEPT !.fin = FALSE]
      BY <1>5, <2>2
    <3>2. keys[i].uid = 0 => keys'[i] = keys[i]
      <4>1. keys[i].uid = 0 => keys[i].fin = FALSE
        BY <1>3 DEF NoShadowKey
      <4>2. keys[i].fin = FALSE => [keys[i] EXCEPT !.fin = FALSE] = keys[i]
        BY <1>2 DEF ShadowKeys
      <4> QED
        BY <3>1, <4>1, <4>2
    <3>3. SameShadow(i) /\ keys'[i].del = keys[i].del
      BY <1>2, <3>1 DEF SameShadow, ShadowKeys
    <3> QED
      BY <1>4, <2>2, <3>2, <3>3 DEF Moved, SameShadow
  <2> QED
    BY <2>1, <2>2
<1>7. ASSUME NEW j \in Identity, j # i PROVE Moved(j)
  <2>1. keys'[j] = keys[j] /\ accounts' = accounts
    BY <1>1, <1>5, <1>7
  <2>2. keys[j].uid # 0 /\ ~keys[j].fin => ~keys[j].del /\ ~LiveKey(keys[j].id)
    BY DEF AccessCore, KeyForm, There
  <2>3. keys[j].del => keys[j].del = TRUE
    BY DEF TypedAccess, ShadowKeys
  <2> QED
    BY <2>1, <2>2, <2>3 DEF Moved, SameShadow, DeadNext, LiveKey
<1>8. aw'.pc = next /\ aw'.who = i /\ aw'.sh = keys[i] /\ aw'.a = aw.a /\ aw'.known = aw.known /\ aw'.id = aw.id
  BY <1>1 DEF TypedAccess, AccessWorkers
<1>9. AccountsShrink /\ AccessesKept
  BY <1>1 DEF AccountsShrink, AccessesKept
<1> QED
  BY <1>1, <1>6, <1>7, <1>8, <1>9 DEF MovesShadows

\* A shadow that nothing happens to.
LEMMA UnmovedShadow ==
  ASSUME TypedAccess, AccessCore, AccountsShrink, NEW j \in Identity, keys'[j] = keys[j]
  PROVE  Moved(j)
<1>1. keys[j].uid # 0 /\ ~keys[j].fin => ~keys[j].del /\ ~LiveKey(keys[j].id)
  BY DEF AccessCore, KeyForm, There
<1>2. keys[j].del => keys[j].del = TRUE
  BY DEF TypedAccess, ShadowKeys
<1>3. ~LiveKey(keys[j].id) => DeadNext(j)
  BY DEF AccountsShrink, DeadNext, LiveKey, TypedAccess, ShadowKeys, KIDs
<1> QED
  BY <1>1, <1>2, <1>3 DEF Moved, SameShadow

\* A shadow is deleted that may be: it goes, or is marked.
Deletes(i) ==
  /\ keys' = [keys EXCEPT ![i] = RemoveKey(keys[i])] /\ UNCHANGED <<secret, accounts>> /\ AccessesKept
  /\ i \in Identity /\ There(i) /\ Expendable(i)
LEMMA DeletedForm ==
  ASSUME TypedAccess, AccessCore, NEW i \in Identity, Deletes(i)
  PROVE  MovesShadows /\ (There(i)' => keys'[i].del /\ keys'[i].id = keys[i].id)
<1>1. /\ keys'[i] = RemoveKey(keys[i]) /\ \A j \in Identity \ {i} : keys'[j] = keys[j]
      /\ keys[i] \in ShadowKeys /\ keys[i].uid # 0
  BY DEF Deletes, TypedAccess, There
<1>2. AccountsShrink
  BY DEF Deletes, AccountsShrink
<1>3. CASE keys[i].fin
  <2>1. keys'[i] = [keys[i] EXCEPT !.del = TRUE]
    BY <1>1, <1>3 DEF RemoveKey
  <2>2. SameShadow(i) /\ keys'[i].del = TRUE /\ keys'[i].fin /\ keys'[i].id = keys[i].id
    BY <1>1, <1>3, <2>1 DEF SameShadow, ShadowKeys
  <2>3. Moved(i)
    BY <1>1, <2>2 DEF Moved, Deletes
  <2> QED
    BY <1>1, <1>2, <2>2, <2>3, UnmovedShadow DEF MovesShadows, Deletes
<1>4. CASE ~keys[i].fin
  <2>1. keys'[i] = NoShadowKey /\ NoShadowKey.uid = 0
    BY <1>1, <1>4 DEF RemoveKey, NoShadowKey
  <2>2. ~LiveKey(keys[i].id)
    BY <1>1, <1>4 DEF AccessCore, KeyForm, There
  <2>3. Moved(i)
    BY <2>1, <2>2 DEF Moved, DeadNext, LiveKey, Deletes
  <2> QED
    BY <1>1, <1>2, <2>1, <2>3, UnmovedShadow DEF MovesShadows, Deletes, There
<1> QED
  BY <1>3, <1>4

LEMMA StillForm ==
  ASSUME TypedAccess, AccessCore, UNCHANGED <<keys, secret, accounts>>, AccessesKept
  PROVE  MovesShadows
  BY UnmovedShadow DEF MovesShadows, AccountsShrink

\* The Delete call of deleteShadow.
LEMMA DroppedForm ==
  ASSUME TypedAccess, AccessCore, NEW i \in Identity, i = aw.who, DropShadowKey, AccessesKept,
         There(i) => ~LiveKey(keys[i].id), i = Name /\ There(i) => GivenUp
  PROVE  MovesShadows /\ (There(i)' /\ keys[i].uid = aw.sh.uid => Doomed(i)')
<1>1. /\ keys' = (IF keys[i].uid # 0 /\ keys[i].uid = aw.sh.uid THEN [keys EXCEPT ![i] = RemoveKey(@)] ELSE keys)
      /\ UNCHANGED <<secret, accounts>>
  BY DEF DropShadowKey, Sh
<1>2. CASE keys[i].uid # 0 /\ keys[i].uid = aw.sh.uid
  <2>1. There(i) /\ Expendable(i)
    BY <1>2 DEF There, Expendable
  <2>2. Deletes(i)
    BY <1>1, <1>2, <2>1 DEF Deletes
  <2>3. MovesShadows /\ (There(i)' => keys'[i].del /\ keys'[i].id = keys[i].id)
    BY <2>2, DeletedForm
  <2> QED
    BY <1>1, <2>1, <2>3 DEF Doomed, LiveKey
<1>3. CASE ~(keys[i].uid # 0 /\ keys[i].uid = aw.sh.uid)
  <2>1. keys' = keys
    BY <1>1, <1>3
  <2>2. MovesShadows
    BY <1>1, <2>1, StillForm
  <2> QED
    BY <1>3, <2>1, <2>2 DEF There
<1> QED
  BY <1>2, <1>3

\* No live access uses the key of a bound legacy shadow when it is gone.
LEMMA LegacyGivenUp ==
  ASSUME TypedAccess, AccessCore, LegacyScene, There(Name), Bound(Name), ~LiveKey(keys[Name].id)
  PROVE  GivenUp
<1>1. keys[Name].id # 0
  BY Names DEF AccessCore, KeyForm
<1> QED
  BY <1>1 DEF LegacyScene, LegacyServed, GivenUp

\* The shadows with a key of the given ID.
LEMMA AuthorityIsOne ==
  ASSUME TypedAccess, AccessCore, NEW k, k # 0, NEW i \in Identity, Authority(i, k)
  PROVE  /\ There(i) /\ Bound(i) /\ keys[i].id = k /\ k \in Ids(keys[i])
         /\ \A j \in Identity : k \in Ids(keys[j]) \/ Authority(j, k) => j = i
<1>1. There(i) /\ Bound(i) /\ keys[i].id = k /\ k \in Ids(keys[i])
  BY DEF Authority, There, AccessCore, KeyForm, Ids
<1>2. \A j \in Identity : Authority(j, k) => k \in Ids(keys[j])
  BY DEF Authority, Ids
<1> QED
  BY <1>1, <1>2 DEF AccessCore, KeysDiffer

LEMMA StripStaleShadowKeyKeeps ==
  ASSUME TypedAccess, AccessCore, StripStaleShadowKey
  PROVE  AccessCore'
<1>1. CASE FailAccess
  BY <1>1, AFailKeeps
<1>2. ASSUME ~FailAccess PROVE AccessCore'
  <2>1. aw.pc = "stale" /\ aw.pc \in Granting
    BY DEF StripStaleShadowKey, StepAccess, Granting
  <2>2. PICK i \in Identity : Authority(i, aw.id) /\ StripShadowKey(i, "staleDelete")
    BY <1>2 DEF StripStaleShadowKey
  <2>3. aw.id # 0 /\ ~LiveKey(aw.id) /\ aw.sh.ann = aw.id /\ Held
    BY <2>1, HeldIsSound DEF AccessCore, HoldKnown
  <2>4. There(i) /\ Bound(i) /\ keys[i].id = aw.id /\ \A j \in Identity : aw.id \in Ids(keys[j]) => j = i
    BY <2>2, <2>3, AuthorityIsOne
  <2>5. i = aw.who
    BY <2>3, <2>4 DEF Held, Ids
  <2>6. /\ MovesShadows /\ UNCHANGED <<access, secret, accounts>>
        /\ aw'.pc = "staleDelete" /\ aw'.who = i /\ aw'.a = aw.a /\ aw'.known = aw.known
    BY <2>2, <2>3, <2>4, StrippedForm
  <2>7. \A j \in Identity : There(j)' => There(j) /\ SameShadow(j) /\ Bound(j)' = Bound(j)
    BY <2>6, MovedForm
  <2>8. AccessKnown'
    BY <2>3, <2>5, <2>6, <2>7, Names
       DEF AccessKnown, Held, Revoking, Duplicate, Owns, Exists
  <2>9. HoldKnown' /\ TurnKnown'
    <3>1. There(i)' => Bound(i)' /\ ~LiveKey(keys[i].id)'
      BY <2>3, <2>4, <2>6, <2>7 DEF SameShadow, LiveKey
    <3>2. aw'.pc \notin Entering \cup Granting /\ aw'.who = i
      BY <2>6, Points
    <3> QED
      BY <2>6, <3>1, <3>2 DEF HoldKnown, TurnKnown, Granting, Drawing, Bounding
  <2> QED
    BY <2>1, <2>6, <2>8, <2>9, ShadowsMovingKeep DEF AccessCore, ObjectForms
<1> QED
  BY <1>1, <1>2

LEMMA DeleteStaleShadowKeyKeeps ==
  ASSUME TypedAccess, AccessCore, LegacyScene, DeleteStaleShadowKey
  PROVE  AccessCore'
<1>1. aw.pc = "staleDelete" /\ aw'.pc = "idle" /\ AUnpublish /\ DropShadowKey
  BY DEF DeleteStaleShadowKey, StepAccess, ADone, IdleAccess
<1>2. PICK i \in Identity : i = aw.who
  BY DEF TypedAccess, AccessWorkers
<1>3. There(i) => Bound(i) /\ ~LiveKey(keys[i].id)
  BY <1>1, <1>2 DEF AccessCore, HoldKnown
<1>4. i = Name /\ There(i) => GivenUp
  BY <1>3, LegacyGivenUp
<1>5. MovesShadows
  BY <1>1, <1>2, <1>3, <1>4, DroppedForm, AUnpublishKeeps
<1> QED
  BY <1>1, <1>5, ShadowsMovingKeep, IdleKnowsNothing DEF AccessCore, ObjectForms

LEMMA DeleteShadowKeyByIDKeeps ==
  ASSUME TypedAccess, AccessCore, DeleteShadowKeyByID
  PROVE  AccessCore'
<1>1. CASE FailAccess
  BY <1>1, AFailKeeps
<1>2. ASSUME ~FailAccess PROVE AccessCore'
  <2>1. aw.pc = "revokeShadow" /\ aw \in AccessWorkers /\ aw.a \in Access /\ aw.a \in Identity
    BY Names DEF DeleteShadowKeyByID, StepAccess, TypedAccess, AccessWorkers
  <2>2. /\ aw.known # 0 /\ ~LiveKey(aw.known) /\ Owns(aw.a) /\ access[aw.a].id = aw.known /\ access[aw.a].st = "del"
        /\ aw.who \in {aw.a, Name}
        /\ There(aw.a) => Authority(aw.a, aw.known)
        /\ There(Name) /\ ~Doomed(Name) /\ keys[Name].owner = 0 =>
             \/ Authority(Name, aw.known)
             \/ \E b \in Access \ {aw.a} : Owns(b) /\ access[b].id = keys[Name].id
    BY <2>1 DEF AccessCore, AccessKnown, Revoking
  <2>3. ASSUME NEW i \in Identity, Authority(i, aw.known), StripShadowKey(i, "revokeDelete") PROVE AccessCore'
    <3>1. /\ There(i) /\ Bound(i) /\ keys[i].id = aw.known /\ aw.known \in Ids(keys[i])
          /\ \A j \in Identity : Authority(j, aw.known) => j = i
      BY <2>2, <2>3, AuthorityIsOne
    <3>2. i \in {aw.a, Name}
      BY <2>1, <2>2, <3>1, Names DEF AccessCore, KeysDiffer
    <3>3. /\ MovesShadows /\ UNCHANGED <<access, secret, accounts>> /\ keys'[i].uid \in {0, keys[i].uid}
          /\ aw'.pc = "revokeDelete" /\ aw'.who = i /\ aw'.sh = keys[i] /\ aw'.a = aw.a /\ aw'.known = aw.known
      BY <2>2, <2>3, <3>1, StrippedForm
    <3>4. /\ \A j \in Identity : There(j)' => There(j) /\ SameShadow(j) /\ (Doomed(j) => Doomed(j)')
          /\ \A j \in Identity : There(j)' /\ Authority(j, aw.known) => Authority(j, aw.known)'
          /\ \A j \in Identity : Authority(j, aw.known)' => Authority(j, aw.known)
          /\ \A b \in Access : Owns(b)' = Owns(b)
      <4>1. /\ \A j \in Identity : There(j)' => There(j) /\ SameShadow(j) /\ (Doomed(j) => Doomed(j)')
            /\ \A b \in Access : Owns(b)' = Owns(b)
        BY <3>3, MovedForm
      <4> QED
        BY <3>3, <4>1 DEF Authority, There, SameShadow
    <3>5. /\ i = Name => ~There(aw.a)
          /\ There(aw.a) => i = aw.a
          /\ Authority(Name, aw.known) => i = Name
      BY <2>1, <2>2, <3>1, Names
    <3>6. /\ aw'.a = aw.a /\ aw'.who \in {aw.a, Name} /\ Owns(aw.a)' /\ access'[aw.a].id = aw'.known
          /\ aw'.who = Name => ~There(aw.a)'
          /\ aw'.known # 0 /\ access'[aw.a].st = "del" /\ ~LiveKey(aw.known)'
      BY <2>1, <2>2, <3>2, <3>3, <3>4, <3>5 DEF LiveKey
    <3>7. /\ There(aw.a)' => Authority(aw.a, aw.known)'
          /\ There(Name)' /\ ~Doomed(Name)' /\ keys'[Name].owner = 0 =>
               \/ Authority(Name, aw.known)'
               \/ \E b \in Access \ {aw.a} : Owns(b)' /\ access'[b].id = keys'[Name].id
      BY <2>1, <2>2, <3>3, <3>4, Names DEF SameShadow
    <3>8. /\ There(i)' => Authority(i, aw.known)' /\ keys'[i].uid = keys[i].uid
          /\ Authority(Name, aw.known)' => i = Name
      BY <2>3, <3>3, <3>4, <3>5, Names DEF There
    <3>9. AccessKnown'
      BY <3>3, <3>6, <3>7, <3>8 DEF AccessKnown, Revoking, Duplicate
    <3>10. TurnKnown' /\ HoldKnown'
      BY <3>3, Points DEF TurnKnown, HoldKnown, Granting, Drawing, Bounding, Revoking
    <3> QED
      BY <2>1, <3>3, <3>9, <3>10, ShadowsMovingKeep DEF AccessCore, ObjectForms
  <2>4. ASSUME \A i \in Identity : ~Authority(i, aw.known), AGoTo("handoff"), UNCHANGED <<access, keys, secret, accounts>>
        PROVE  AccessCore'
    <3>1. aw'.pc = "handoff" /\ SameAccess
      BY <2>1, <2>4 DEF AccessWorkers, SameAccess, AGoTo
    <3>2. ~There(aw.a) /\ ~Authority(Name, aw.known)
      BY <2>1, <2>2, <2>4, Names
    <3>8. access' = access /\ keys' = keys /\ accounts' = accounts /\ aw'.a = aw.a
      BY <2>4, <3>1 DEF SameAccess
    <3>3. ~There(aw.a)' /\ Owns(aw.a)' /\ (There(Name)' = There(Name)) /\ (Doomed(Name)' = Doomed(Name))
          /\ (\A b \in Access : Owns(b)' = Owns(b)) /\ access' = access /\ keys' = keys
      BY <2>2, <3>2, <3>8 DEF There, Owns, Exists, Doomed, LiveKey
    <3>4. There(Name)' /\ ~Doomed(Name)' /\ keys'[Name].owner = 0 =>
            \E b \in Access \ {aw.a} : Owns(b)' /\ access'[b].id = keys'[Name].id
      BY <2>2, <3>2, <3>3
    <3>5. AccessKnown'
      BY <2>2, <3>1, <3>2, <3>3, <3>4 DEF AccessKnown, SameAccess, Revoking, Duplicate
    <3>6. TurnKnown' /\ HoldKnown'
      BY <3>1, Points DEF TurnKnown, HoldKnown, Granting, Drawing, Bounding
    <3>7. AccessesKept
      BY <2>4 DEF AccessesKept
    <3> QED
      BY <2>1, <2>4, <3>5, <3>6, <3>7, StayingKeeps DEF AccessCore, ObjectForms
  <2> QED
    BY <1>2, <2>3, <2>4 DEF DeleteShadowKeyByID
<1> QED
  BY <1>1, <1>2

LEMMA DropRevokedShadowKeyKeeps ==
  ASSUME TypedAccess, AccessCore, LegacyScene, DropRevokedShadowKey
  PROVE  AccessCore'
<1>1. aw.pc = "revokeDelete" /\ DropShadowKey /\ aw' = [aw EXCEPT !.pc = "handoff"] /\ access' = access
  BY DEF DropRevokedShadowKey, StepAccess, AGoTo
<1>2. /\ aw \in AccessWorkers /\ aw.a \in Access /\ aw.a \in Identity /\ aw'.pc = "handoff" /\ SameAccess
      /\ UNCHANGED <<access, secret, accounts>>
  BY <1>1, Names DEF TypedAccess, AccessWorkers, SameAccess, DropShadowKey
<1>3. PICK i \in Identity : i = aw.who
  BY <1>2 DEF AccessWorkers
<1>4. /\ aw.known # 0 /\ ~LiveKey(aw.known) /\ Owns(aw.a) /\ access[aw.a].id = aw.known /\ access[aw.a].st = "del"
      /\ aw.who \in {aw.a, Name} /\ (aw.who = Name => ~There(aw.a))
      /\ There(aw.a) => Authority(aw.a, aw.known)
      /\ There(Name) /\ ~Doomed(Name) /\ keys[Name].owner = 0 =>
           \/ Authority(Name, aw.known)
           \/ \E b \in Access \ {aw.a} : Owns(b) /\ access[b].id = keys[Name].id
      /\ There(i) => Authority(i, aw.known) /\ keys[i].uid = aw.sh.uid
      /\ Authority(Name, aw.known) => aw.who = Name
  BY <1>1, <1>3 DEF AccessCore, AccessKnown, Revoking
<1>5. There(i) => Bound(i) /\ keys[i].id = aw.known
  BY <1>4, AuthorityIsOne
<1>6. i = Name /\ There(i) => GivenUp
  BY <1>4, <1>5, LegacyGivenUp
<1>7. MovesShadows /\ (There(i)' => Doomed(i)')
  <2>1. AccessesKept /\ (There(i) => ~LiveKey(keys[i].id))
    BY <1>2, <1>4, <1>5 DEF AccessesKept
  <2>2. MovesShadows /\ (There(i)' /\ keys[i].uid = aw.sh.uid => Doomed(i)')
    BY <1>1, <1>3, <1>6, <2>1, DroppedForm
  <2>3. There(i)' => There(i)
    BY <2>2, MovedForm
  <2> QED
    BY <1>4, <2>2, <2>3
<1>8. /\ \A j \in Identity : There(j)' => There(j) /\ SameShadow(j) /\ (Doomed(j) => Doomed(j)')
      /\ \A b \in Access : Owns(b)' = Owns(b)
  BY <1>7, MovedForm
<1>9. There(aw.a)' => Doomed(aw.a)'
  <2>1. PICK a \in Access : a = aw.a /\ a = aw'.a
    BY <1>2 DEF SameAccess
  <2>2. There(a)' => There(a) /\ (Doomed(a) => Doomed(a)')
    BY <1>8, Names
  <2>3. There(a) => a = i \/ Doomed(a)
    BY <1>3, <1>4, <1>5, <2>1, Names DEF Authority, AccessCore, KeysDiffer, Ids
  <2>4. There(a)' => Doomed(a)'
    BY <1>7, <2>2, <2>3
  <2> QED
    BY <2>1, <2>4 DEF There, Doomed, LiveKey
<1>10. There(Name)' /\ ~Doomed(Name)' /\ keys'[Name].owner = 0 =>
         \E b \in Access \ {aw.a} : Owns(b)' /\ access'[b].id = keys'[Name].id
  BY <1>2, <1>3, <1>4, <1>7, <1>8, Names DEF SameShadow
<1>11. AccessKnown'
  BY <1>2, <1>4, <1>8, <1>9, <1>10 DEF AccessKnown, SameAccess, Revoking, Duplicate
<1>12. TurnKnown' /\ HoldKnown'
  BY <1>2, Points DEF TurnKnown, HoldKnown, Granting, Drawing, Bounding
<1> QED
  BY <1>1, <1>7, <1>11, <1>12, ShadowsMovingKeep DEF AccessCore, ObjectForms

LEMMA RequestKeeps ==
  ASSUME TypedAccess, AccessCore, RequestDeleteKey(aw.who), UNCHANGED <<secret, accounts>>, AccessesKept,
         aw'.pc = "idle", aw.who \in Identity, There(aw.who) => Expendable(aw.who)
  PROVE  AccessCore'
<1>1. PICK i \in Identity : i = aw.who /\ Sh = keys[i]
  BY DEF Sh
<1>2. CASE There(i) /\ ~keys[i].del
  <2>1. keys' = [keys EXCEPT ![i] = RemoveKey(keys[i])]
    BY <1>1, <1>2 DEF RequestDeleteKey, There
  <2>2. Deletes(i)
    BY <1>1, <1>2, <2>1 DEF Deletes
  <2> QED
    BY <2>2, DeletedForm, ShadowsMovingKeep, IdleKnowsNothing DEF AccessCore, ObjectForms
<1>3. CASE ~(There(i) /\ ~keys[i].del)
  <2>1. keys' = keys
    BY <1>1, <1>3 DEF RequestDeleteKey, There
  <2> QED
    BY <2>1, LeavingIsSafe
<1> QED
  BY <1>2, <1>3

LEMMA GiveUpKnownKeeps ==
  ASSUME TypedAccess, AccessCore, GiveUpKnown
  PROVE  AccessCore'
<1>1. /\ aw.pc = "giveUp" /\ aw'.pc = "idle" /\ RequestDeleteKey(aw.who) /\ AUnpublish /\ UNCHANGED <<secret, accounts>>
      /\ aw.pc \in Granting
  BY DEF GiveUpKnown, StepAccess, ADone, IdleAccess, Granting
<1>2. Held /\ aw.sh.ann = 0 /\ aw.known # 0
  BY <1>1, HeldIsSound DEF AccessCore, HoldKnown
<1>3. aw.sh.state = "Pending"
  BY <1>2 DEF Held
<1>4. aw.who # Name
  BY <1>1, <1>2, <1>3, Names DEF AccessCore, TurnKnown, Held, Bound
<1>5. aw.who \in Identity /\ Expendable(aw.who)
  BY <1>2, <1>3, <1>4, Names DEF Held, Expendable
<1> QED
  BY <1>1, <1>5, AUnpublishKeeps, RequestKeeps

\* The access is handed off.
LEMMA HandOffKeeps ==
  ASSUME TypedAccess, AccessCore, HandOff, UNCHANGED <<keys, secret, accounts>>,
         aw.pc # "idle", access[aw.a].st = "del", There(aw.a) => Doomed(aw.a),
         There(Name) /\ ~Doomed(Name) /\ keys[Name].owner = 0 => \E b \in Access \ {aw.a} : Owns(b) /\ access[b].id = keys[Name].id
  PROVE  AccessCore'
<1>1. PICK a \in Access : a = aw.a
  BY DEF TypedAccess, AccessWorkers
<1>2. /\ access' = [access EXCEPT ![a].handed = TRUE, ![a].fin = FALSE] /\ aw'.pc = "idle"
  BY <1>1 DEF HandOff, ADone, IdleAccess
<1>3. /\ access'[a].handed /\ access'[a].st = "del" /\ access'[a].id = access[a].id
      /\ \A b \in Access \ {a} : access'[b] = access[b]
      /\ \A b \in Access : access'[b].id = access[b].id /\ access'[b].st = access[b].st
  BY <1>1, <1>2 DEF TypedAccess, Accesses
<1>4. /\ \A i \in Identity : There(i)' = There(i) /\ Bound(i)' = Bound(i) /\ Doomed(i)' = Doomed(i)
      /\ \A b \in Access : Exists(b)' = Exists(b) /\ (b # a => Owns(b)' = Owns(b))
      /\ There(a) => Doomed(a)
      /\ \A k : LiveKey(k)' = LiveKey(k)
  BY <1>1, <1>3 DEF There, Bound, Exists, Owns, Doomed, LiveKey
<1>5. KeyForm' /\ KeyTracking'
  BY DEF AccessCore, KeyForm, KeyTracking, LiveKey, There, Bound
<1>6. KeysDiffer'
  BY <1>3, <1>4 DEF AccessCore, KeysDiffer
<1>7. AccessForm'
  <2>1. \A b \in Access : (access'[b].handed => access'[b].st = "del") /\ (~Owns(b)' /\ There(b) => Doomed(b))
    BY <1>3, <1>4 DEF AccessCore, AccessForm
  <2> QED
    BY <1>3, <1>4, <2>1, Names DEF AccessCore, AccessForm
<1>8. Sharing' /\ SecretForm'
  BY <1>3, <1>4, Names DEF AccessCore, Sharing, SecretForm
<1>9. LegacyForm'
  <2>1. keys[Name].owner # 0 => access'[keys[Name].owner].st = access[keys[Name].owner].st
    BY <1>3, Names DEF TypedAccess, ShadowKeys
  <2>2. There(Name) /\ ~Doomed(Name) /\ keys[Name].owner = 0 =>
          Bound(Name) /\ \E b \in Access : Owns(b)' /\ access'[b].id = keys[Name].id
    BY <1>1, <1>3, <1>4 DEF AccessCore, LegacyForm
  <2>3. GivenUp => GivenUp'
    BY <1>3, <1>4, <2>1, Names DEF GivenUp
  <2> QED
    BY <1>4, <2>2, <2>3, Names DEF AccessCore, LegacyForm
<1> QED
  BY <1>2, <1>5, <1>6, <1>7, <1>8, <1>9, IdleKnowsNothing DEF AccessCore

LEMMA CompleteCleanupHandoffKeeps ==
  ASSUME TypedAccess, AccessCore, CompleteCleanupHandoff
  PROVE  AccessCore'
<1>1. aw.pc = "handoff" /\ HandOff /\ UNCHANGED <<keys, secret, accounts>>
  BY DEF CompleteCleanupHandoff, StepAccess
<1>2. /\ access[aw.a].st = "del" /\ (There(aw.a) => Doomed(aw.a))
      /\ There(Name) /\ ~Doomed(Name) /\ keys[Name].owner = 0 => \E b \in Access \ {aw.a} : Owns(b) /\ access[b].id = keys[Name].id
  BY <1>1 DEF AccessCore, AccessKnown
<1> QED
  BY <1>1, <1>2, HandOffKeeps

LEMMA CancelAccessProvisioningKeeps ==
  ASSUME TypedAccess, AccessCore, CancelAccessProvisioning
  PROVE  AccessCore'
<1>1. /\ aw.pc = "cancel" /\ UNCHANGED <<secret, accounts>>
      /\ \/ Sh.uid = 0 /\ HandOff /\ keys' = keys
         \/ Sh.uid # 0 /\ RequestDeleteKey(aw.who) /\ aw'.pc = "idle" /\ access' = access
  BY DEF CancelAccessProvisioning, StepAccess, ADone, IdleAccess
<1>2. /\ access[aw.a].st = "del" /\ aw.known = 0 /\ access[aw.a].id = 0 /\ aw.who \in {aw.a, Name} /\ aw.a \in Access
      /\ aw.who = Name => ~There(aw.a) /\ (There(Name) => ~Bound(Name) /\ keys[Name].owner = aw.a)
  BY <1>1 DEF AccessCore, AccessKnown, TypedAccess, AccessWorkers
<1>3. CASE Sh.uid = 0 /\ HandOff /\ keys' = keys
  <2>1. ~There(aw.a) /\ (aw.who = Name => ~There(Name))
    BY <1>2, <1>3 DEF Sh, There
  <2>2. ASSUME There(Name), ~Doomed(Name), keys[Name].owner = 0
        PROVE  \E b \in Access \ {aw.a} : Owns(b) /\ access[b].id = keys[Name].id
    <3>1. Bound(Name) /\ \E b \in Access : Owns(b) /\ access[b].id = keys[Name].id
      BY <1>1, <2>2 DEF AccessCore, LegacyForm
    <3>2. keys[Name].id # 0
      BY <3>1, Names DEF AccessCore, KeyForm
    <3> QED
      BY <1>2, <3>1, <3>2
  <2> QED
    BY <1>1, <1>2, <1>3, <2>1, <2>2, HandOffKeeps
<1>4. CASE Sh.uid # 0 /\ RequestDeleteKey(aw.who) /\ aw'.pc = "idle" /\ access' = access
  <2>1. aw.who \in Identity /\ (There(aw.who) => Expendable(aw.who))
    BY <1>2, Names DEF Expendable, GivenUp, Ids
  <2> QED
    BY <1>1, <1>4, <2>1, RequestKeeps DEF AccessesKept
<1> QED
  BY <1>1, <1>3, <1>4

LEMMA RevokeRemoteKeyKeeps ==
  ASSUME TypedAccess, AccessCore, RevokeRemoteKey
  PROVE  AccessCore'
<1>1. CASE FailAccess
  BY <1>1, AFailKeeps
<1>2. ASSUME ~FailAccess PROVE AccessCore'
  <2>1. /\ aw.pc = "revoke" /\ aw' = [aw EXCEPT !.pc = "revokeShadow"] /\ UNCHANGED <<access, keys, secret>>
        /\ accounts' = DropKey(accounts, aw.known)
    BY <1>2 DEF RevokeRemoteKey, StepAccess, AGoTo
  <2>2. SameAccess /\ aw'.pc = "revokeShadow" /\ aw.known \in KIDs
    BY <2>1 DEF TypedAccess, AccessWorkers, SameAccess
  <2>3. PICK k \in KIDs : k = aw.known
    BY <2>2
  <2>4. /\ k # 0 => accounts'.key[k] # "live"
        /\ \A j \in KeyId : /\ accounts.key[j] # "free" => accounts'.key[j] # "free"
                            /\ accounts'.perm[j] = accounts.perm[j] \/ accounts'.perm[j] = {}
                            /\ accounts'.key[j] = "live" => accounts.key[j] = "live"
    BY <2>1, <2>3, DroppedKeyForm
  <2>5. AccountsWritten
    BY <2>1, <2>4 DEF AccountsWritten
  <2>6. ~LiveKey(aw.known)' /\ (Doomed(Name) => Doomed(Name)')
    <3>1. keys[Name].id \in KIDs
      BY Names DEF TypedAccess, ShadowKeys
    <3> QED
      BY <2>1, <2>2, <2>3, <2>4, <3>1 DEF LiveKey, SameAccess, Doomed, KIDs
  <2>7. AccessKnown'
    BY <2>1, <2>2, <2>6
       DEF AccessCore, AccessKnown, SameAccess, Revoking, Duplicate, Owns, Exists, There, Bound, Authority
  <2>8. TurnKnown' /\ HoldKnown'
    BY <2>2, Points DEF TurnKnown, HoldKnown, Granting, Drawing, Bounding, Revoking
  <2> QED
    BY <2>1, <2>5, <2>7, <2>8, AccountsWrittenKeep DEF AccessCore, ObjectForms
<1> QED
  BY <1>1, <1>2

LEMMA CleanupDuplicateKeeps ==
  ASSUME TypedAccess, AccessCore, CleanupDuplicateAccessIdentity
  PROVE  AccessCore'
<1>1. CASE FailAccess
  BY <1>1, AFailKeeps
<1>2. /\ aw.pc = "dup" /\ aw.who = aw.a /\ aw.a \in Access /\ aw.a \in Identity /\ aw \in AccessWorkers
      /\ Owns(aw.a) /\ access[aw.a].id = aw.known
  BY Names DEF CleanupDuplicateAccessIdentity, StepAccess, AccessCore, AccessKnown, TypedAccess, AccessWorkers, Duplicate
<1>3. PICK a \in Access : a = aw.a /\ a = aw.who /\ Sh = keys[a] /\ a \in Identity /\ a # Name
  BY <1>2, Names DEF Sh
<1>4. ASSUME Sh.id = 0, RequestDeleteKey(aw.who), ADone, UNCHANGED <<access, secret, accounts>> PROVE AccessCore'
  <2>1. keys[a].ann = 0
    BY <1>3, <1>4 DEF AccessCore, KeyForm
  <2>2. Expendable(a)
    BY <1>3, <1>4, <2>1 DEF Expendable, Ids
  <2> QED
    BY <1>3, <1>4, <2>2, RequestKeeps DEF AccessesKept, ADone, IdleAccess
<1>5. ASSUME Sh.id # 0, accounts' = DropKey(accounts, Sh.id), aw' = [aw EXCEPT !.pc = "dupSecret", !.sh = Sh],
             UNCHANGED <<access, keys, secret>>
      PROVE  AccessCore'
  <2>1. PICK k \in KIDs : k = keys[a].id
    BY <1>3 DEF TypedAccess, ShadowKeys
  <2>2. /\ accounts'.key[k] # "live"
        /\ \A j \in KeyId : /\ accounts.key[j] # "free" => accounts'.key[j] # "free"
                            /\ accounts'.perm[j] = accounts.perm[j] \/ accounts'.perm[j] = {}
                            /\ accounts'.key[j] = "live" => accounts.key[j] = "live"
    BY <1>3, <1>5, <2>1, DroppedKeyForm
  <2>3. AccountsWritten
    BY <1>5, <2>2 DEF AccountsWritten
  <2>4. aw'.pc = "dupSecret" /\ SameAccess /\ ~LiveKey(keys[a].id)'
    BY <1>2, <1>5, <2>1, <2>2 DEF AccessWorkers, SameAccess, LiveKey
  <2>5. AccessKnown'
    BY <1>2, <1>3, <1>5, <2>4, Names DEF AccessKnown, SameAccess, Revoking, Duplicate, Owns, Exists
  <2>6. TurnKnown' /\ HoldKnown'
    BY <2>4, Points DEF TurnKnown, HoldKnown, Granting, Drawing, Bounding, Duplicate
  <2> QED
    BY <1>2, <2>3, <2>5, <2>6, AccountsWrittenKeep DEF AccessCore, ObjectForms
<1> QED
  BY <1>1, <1>4, <1>5 DEF CleanupDuplicateAccessIdentity

LEMMA DuplicateGoesKeeps ==
  ASSUME TypedAccess, AccessCore, DeleteDuplicateSecret \/ StripDuplicate \/ DropDuplicate
  PROVE  AccessCore'
<1>1. CASE FailAccess
  BY <1>1, AFailKeeps
<1>2. /\ aw.pc \in {"dupSecret", "dupStrip", "dupDelete"} /\ aw.who = aw.a /\ aw.a \in Access /\ aw \in AccessWorkers
      /\ Owns(aw.a) /\ access[aw.a].id = aw.known /\ (There(aw.a) => ~LiveKey(keys[aw.a].id))
  BY DEF DeleteDuplicateSecret, StripDuplicate, DropDuplicate, StepAccess, AccessCore, AccessKnown, TypedAccess,
         AccessWorkers, Duplicate
<1>3. PICK a \in Access : a = aw.a /\ a = aw.who /\ a \in Identity /\ a # Name
  BY <1>2, Names
<1>4. ASSUME aw'.pc \in {"dupStrip", "dupDelete"}, SameAccess, UNCHANGED <<access, accounts>>,
             There(a)' => There(a) /\ keys'[a].id = keys[a].id
      PROVE  AccessKnown' /\ TurnKnown' /\ HoldKnown'
  <2>1. There(a)' => ~LiveKey(keys[a].id)'
    BY <1>2, <1>3, <1>4 DEF LiveKey
  <2>2. AccessKnown'
    BY <1>2, <1>3, <1>4, <2>1 DEF AccessKnown, SameAccess, Revoking, Duplicate, Owns, Exists
  <2> QED
    BY <1>4, <2>2, Points DEF TurnKnown, HoldKnown, Granting, Drawing, Bounding, Duplicate
<1>5. ASSUME aw.pc = "dupSecret", AGoTo("dupStrip"), UNCHANGED <<access, keys, secret, accounts>> PROVE AccessCore'
  <2>1. aw'.pc = "dupStrip" /\ SameAccess /\ AccessesKept
    BY <1>2, <1>5 DEF AGoTo, AccessWorkers, SameAccess, AccessesKept
  <2>2. AccessKnown' /\ TurnKnown' /\ HoldKnown'
    BY <1>4, <1>5, <2>1 DEF There
  <2> QED
    BY <1>5, <2>1, <2>2, StayingKeeps DEF AccessCore, ObjectForms
<1>6. ASSUME aw.pc = "dupStrip", StripShadowKey(aw.who, "dupDelete") PROVE AccessCore'
  <2>1. /\ MovesShadows /\ UNCHANGED <<access, secret, accounts>>
        /\ aw'.pc = "dupDelete" /\ aw'.who = a /\ aw'.a = aw.a /\ aw'.known = aw.known
    BY <1>2, <1>3, <1>6, StrippedForm
  <2>2. There(a)' => There(a) /\ keys'[a].id = keys[a].id
    BY <1>3, <2>1, MovedForm DEF SameShadow
  <2>3. AccessKnown' /\ TurnKnown' /\ HoldKnown'
    BY <1>3, <1>4, <2>1, <2>2 DEF SameAccess
  <2> QED
    BY <1>6, <2>1, <2>3, ShadowsMovingKeep DEF AccessCore, ObjectForms
<1>7. ASSUME DropShadowKey, ADone, access' = access PROVE AccessCore'
  <2>1. MovesShadows /\ aw'.pc = "idle"
    BY <1>2, <1>3, <1>7, DroppedForm DEF AccessesKept, ADone, IdleAccess
  <2> QED
    BY <2>1, ShadowsMovingKeep, IdleKnowsNothing DEF AccessCore, ObjectForms
<1> QED
  BY <1>1, <1>5, <1>6, <1>7 DEF DeleteDuplicateSecret, StripDuplicate, DropDuplicate, StepAccess

-----------------------------------------------------------------------------
(* The GarageKey controller, users and faults.                             *)

\* Shadows that were marked go, others get their finalizer back, keys go or
\* lose permissions, while the worker is anywhere.
Unmoved(i) ==
  \/ keys'[i] = keys[i]
  \/ keys[i].del /\ keys'[i] = NoShadowKey
  \/ SameShadow(i) /\ ~keys[i].fin /\ keys'[i].del = keys[i].del
LEMMA UnmovedKeeps ==
  ASSUME TypedAccess, AccessCore, MovesShadows, UNCHANGED <<access, secret, aw>>, \A i \in Identity : Unmoved(i)
  PROVE  AccessCore'
<1>1. /\ \A i \in Identity : There(i)' => There(i) /\ SameShadow(i) /\ (Ids(keys[i])' = Ids(keys[i])) /\ (Bound(i)' = Bound(i))
      /\ \A i \in Identity : Doomed(i) /\ There(i)' => Doomed(i)'
      /\ \A a \in Access : Owns(a)' = Owns(a)
      /\ \A k \in KIDs : LiveKey(k)' => LiveKey(k)
  BY MovedForm
<1>2. /\ \A i \in Identity : ~keys[i].del => SameShadow(i) /\ (There(i)' = There(i)) /\ (Ids(keys[i])' = Ids(keys[i]))
                                             /\ (Bound(i)' = Bound(i)) /\ keys'[i].del = keys[i].del
      /\ \A i \in Identity : ~keys[i].del /\ keys[i].fin => keys'[i] = keys[i]
  BY DEF Unmoved, SameShadow, There, Ids, Bound
<1>3. aw \in AccessWorkers /\ aw.a \in Access /\ aw.a \in Identity /\ aw.who \in Identity /\ aw.known \in KIDs
      /\ aw.id \in KIDs /\ aw.sh.id \in KIDs
  BY Names DEF TypedAccess, AccessWorkers, ShadowKeys
<1>4. /\ \A i \in Identity : There(i)' => (Authority(i, aw.known)' = Authority(i, aw.known))
      /\ \A i \in Identity : Authority(i, aw.known)' => Authority(i, aw.known)
      /\ LiveKey(aw.known)' => LiveKey(aw.known)
      /\ \A i \in Identity : There(i)' /\ ~LiveKey(keys[i].id) => ~LiveKey(keys[i].id)'
  <2>1. \A i \in Identity : keys[i].id \in KIDs
    BY DEF TypedAccess, ShadowKeys
  <2> QED
    BY <1>1, <1>3, <2>1 DEF Authority, There, SameShadow, LiveKey
<1>5. AccessKnown'
  <2>1. AccessKnown /\ aw' = aw /\ access' = access
    BY DEF AccessCore
  <2>2. aw'.pc # "idle" =>
          /\ aw'.who \in {aw'.a, Name} /\ Owns(aw.a)' /\ access'[aw'.a].id = aw'.known
          /\ aw'.who = Name => ~There(aw.a)'
    BY <1>1, <1>3, <2>1 DEF AccessKnown
  <2>3. /\ aw'.pc \in Revoking \cup {"dup"} => aw'.known # 0
        /\ aw'.pc \in Duplicate => aw'.who = aw'.a
        /\ aw'.pc = "dup" /\ There(aw.a)' => Ids(keys[aw.a])' # {aw'.known}
        /\ aw'.pc \in {"dupSecret", "dupStrip", "dupDelete"} /\ There(aw.a)' => ~LiveKey(keys[aw.a].id)'
        /\ aw'.pc \in {"cancel", "handoff"} \cup Revoking => access'[aw'.a].st = "del"
        /\ aw'.pc # "annotateKnown"
    BY <1>1, <1>3, <1>4, <2>1 DEF AccessKnown
  <2>4. aw'.pc = "cancel" =>
          aw'.known = 0 /\ (aw'.who = Name /\ There(Name)' => ~Bound(Name)' /\ keys'[Name].owner = aw'.a)
    BY <1>1, <2>1, Names DEF AccessKnown, SameShadow
  <2>5. aw'.pc \in Revoking =>
          /\ There(aw.a)' => Authority(aw.a, aw.known)'
          /\ LiveKey(aw.known)' => \A b \in Access : access'[b].st = "live" => access'[b].id # aw'.known
          /\ There(Name)' /\ ~Doomed(Name)' /\ keys'[Name].owner = 0 =>
               \/ Authority(Name, aw.known)'
               \/ \E b \in Access \ {aw.a} : Owns(b)' /\ access'[b].id = keys'[Name].id
    BY <1>1, <1>3, <1>4, <2>1, Names DEF AccessKnown, SameShadow
  <2>6. /\ aw'.pc \in {"revokeShadow", "revokeDelete"} => ~LiveKey(aw.known)'
        /\ aw'.pc = "revokeDelete" =>
             /\ There(aw.who)' => Authority(aw.who, aw.known)' /\ keys'[aw.who].uid = aw.sh.uid
             /\ Authority(Name, aw.known)' => aw.who = Name
    BY <1>1, <1>3, <1>4, <2>1, Names DEF AccessKnown, SameShadow
  <2>7. aw'.pc = "handoff" =>
          /\ There(aw.a)' => Doomed(aw.a)'
          /\ There(Name)' /\ ~Doomed(Name)' /\ keys'[Name].owner = 0 =>
               \E b \in Access \ {aw.a} : Owns(b)' /\ access'[b].id = keys'[Name].id
    BY <1>1, <1>3, <2>1, Names DEF AccessKnown, SameShadow
  <2> QED
    BY <2>1, <2>2, <2>3, <2>4, <2>5, <2>6, <2>7 DEF AccessKnown
<1>6. ASSUME aw.pc \in Entering \cup Granting PROVE TurnKnown'
  <2>1. aw.who = Name => There(Name) /\ ~keys[Name].del
    BY <1>6 DEF AccessCore, TurnKnown
  <2>2. aw.who = Name => There(Name)' /\ ~keys'[Name].del /\ SameShadow(Name) /\ (Bound(Name)' = Bound(Name))
                         /\ (Ids(keys[Name])' = Ids(keys[Name]))
    BY <1>2, <2>1, Names
  <2>3. ASSUME aw.who = aw.a, LiveKey(aw.known)' PROVE aw.known \in Ids(keys[aw.a])'
    <3>1. LiveKey(aw.known) /\ access[aw.a].id = aw.known
      BY <1>4, <1>6, <2>3, Points DEF AccessCore, AccessKnown
    <3>2. aw.known \in Ids(keys[aw.a])
      BY <1>6, <2>3, <3>1 DEF AccessCore, TurnKnown
    <3>3. ~keys[aw.a].del
      BY <1>3, <3>1, <3>2 DEF AccessCore, KeysDiffer
    <3> QED
      BY <1>2, <1>3, <3>2, <3>3
  <2>4. aw' = aw /\ access' = access /\ secret' = secret /\ TurnKnown
    BY DEF MovesShadows, AccessCore
  <2>5. aw.who = Name /\ aw.known # 0 => Bound(Name)' /\ keys'[Name].id = aw.known
    BY <1>6, <2>2, <2>4 DEF TurnKnown, SameShadow
  <2>6. aw.who = Name /\ aw.known = 0 =>
          \A b \in Access \ {aw.a} : access[b].id \notin Ids(keys[Name])' /\ secret[b].id \notin Ids(keys[Name])'
    BY <1>6, <2>2, <2>4 DEF TurnKnown
  <2> QED
    BY <2>2, <2>3, <2>4, <2>5, <2>6 DEF TurnKnown
<1>7. HoldKnown'
  <2>1. ASSUME aw.pc \in Granting PROVE There(aw.who)' /\ keys'[aw.who] = keys[aw.who]
    BY <1>2, <1>3, <2>1 DEF AccessCore, HoldKnown, There
  <2>2. ~LiveKey(aw.id) => ~LiveKey(aw.id)'
    BY <1>1, <1>3 DEF LiveKey
  <2>3. ~LiveKey(aw.sh.id) => ~LiveKey(aw.sh.id)'
    BY <1>1, <1>3 DEF LiveKey
  <2>4. ASSUME aw.id # 0
        PROVE  /\ accounts.key[aw.id] # "free" => accounts'.key[aw.id] # "free"
               /\ accounts.perm[aw.id] \subseteq Want => accounts'.perm[aw.id] \subseteq Want
    BY <1>3, <2>4 DEF MovesShadows, AccountsShrink, KIDs
  <2>5. aw.pc = "staleDelete" /\ There(aw.who)' => Bound(aw.who)' /\ ~LiveKey(keys[aw.who].id)'
    BY <1>1, <1>3, <1>4 DEF AccessCore, HoldKnown
  <2> QED
    BY <2>1, <2>2, <2>3, <2>4, <2>5 DEF AccessCore, HoldKnown, Granting, Drawing, Bounding, There
<1>8. TurnKnown'
  BY <1>6 DEF TurnKnown
<1> QED
  BY <1>5, <1>7, <1>8, ShadowsMovingKeep DEF AccessCore, ObjectForms

LEMMA KeyWorkerKeeps ==
  ASSUME TypedAccess, AccessCore, KeyWorker
  PROVE  AccessCore'
<1>1. ASSUME ReconcilePendingKey \/ RestoreKeyFinalizer PROVE AccessCore'
  <2>1. PICK i \in Identity : keys[i].uid # 0 /\ ~keys[i].del /\ ~keys[i].fin /\ keys' = [keys EXCEPT ![i].fin = TRUE]
    BY <1>1 DEF ReconcilePendingKey, RestoreKeyFinalizer
  <2>2. UNCHANGED <<access, secret, accounts, aw>>
    BY <1>1 DEF ReconcilePendingKey, RestoreKeyFinalizer, KeyWorkerRest
  <2>3. /\ SameShadow(i) /\ keys'[i].del = keys[i].del /\ keys'[i].fin = TRUE
        /\ \A j \in Identity \ {i} : keys'[j] = keys[j]
    BY <2>1 DEF TypedAccess, ShadowKeys, SameShadow
  <2>4. AccountsShrink /\ AccessesKept
    BY <2>2 DEF AccountsShrink, AccessesKept
  <2>5. Moved(i)
    BY <2>1, <2>3 DEF Moved
  <2>6. MovesShadows
    BY <2>2, <2>3, <2>4, <2>5, UnmovedShadow DEF MovesShadows
  <2> QED
    BY <2>1, <2>2, <2>3, <2>6, UnmovedKeeps DEF Unmoved
<1>2. ASSUME ReconcileBoundKey PROVE AccessCore'
  <2>1. PICK k \in KIDs : k # 0 /\ accounts' = [accounts EXCEPT !.perm[k] = Want] /\ UNCHANGED <<access, keys, secret, aw>>
    BY <1>2 DEF ReconcileBoundKey, ExactKeyPermissions, KeyWorkerRest, TypedAccess, ShadowKeys, LiveKey
  <2>2. \A j \in KeyId : accounts'.key[j] = accounts.key[j] /\ (accounts'.perm[j] = accounts.perm[j] \/ accounts'.perm[j] = Want)
    BY <2>1 DEF TypedAccess, Accounts
  <2>3. AccountsShrink /\ AccessesKept
    BY <2>1, <2>2 DEF AccountsShrink, AccessesKept
  <2>4. MovesShadows
    BY <2>1, <2>3, UnmovedShadow DEF MovesShadows
  <2> QED
    BY <2>1, <2>4, UnmovedKeeps DEF Unmoved
<1>3. ASSUME FinalizeShadowKey PROVE AccessCore'
  <2>1. PICK i \in Identity :
          /\ keys[i].uid # 0 /\ keys[i].del /\ UNCHANGED <<access, secret, aw>>
          /\ accounts' = (IF keys[i].id = 0 THEN accounts ELSE DropKey(accounts, keys[i].id))
          /\ keys' = [keys EXCEPT ![i] = NoShadowKey]
    BY <1>3 DEF FinalizeShadowKey, KeyWorkerRest
  <2>2. PICK k \in KIDs : k = keys[i].id
    BY DEF TypedAccess, ShadowKeys
  <2>3. /\ k # 0 => accounts'.key[k] # "live"
        /\ \A j \in KeyId : /\ accounts.key[j] # "free" => accounts'.key[j] # "free"
                            /\ accounts'.perm[j] = accounts.perm[j] \/ accounts'.perm[j] = {}
                            /\ accounts'.key[j] = "live" => accounts.key[j] = "live"
    <3>1. CASE k = 0
      BY <2>1, <2>2, <3>1
    <3>2. CASE k # 0
      BY <2>1, <2>2, <3>2, DroppedKeyForm
    <3> QED
      BY <3>1, <3>2
  <2>4. keys'[i] = NoShadowKey /\ \A j \in Identity \ {i} : keys'[j] = keys[j]
    BY <2>1 DEF TypedAccess
  <2>5. AccountsShrink /\ AccessesKept /\ Moved(i)
    BY <2>1, <2>2, <2>3, <2>4 DEF AccountsShrink, AccessesKept, Moved, DeadNext
  <2>6. MovesShadows
    BY <2>1, <2>4, <2>5, UnmovedShadow DEF MovesShadows
  <2> QED
    BY <2>1, <2>4, <2>6, UnmovedKeeps DEF Unmoved
<1> QED
  BY <1>1, <1>2, <1>3 DEF KeyWorker

LEMMA LoseKeyKeeps ==
  ASSUME TypedAccess, AccessCore, LoseKey
  PROVE  AccessCore'
<1>1. PICK k \in KIDs : accounts' = DropKey(accounts, k) /\ UNCHANGED <<access, keys, secret, aw>>
  BY DEF LoseKey, KIDs
<1>2. \A j \in KeyId : /\ accounts.key[j] # "free" => accounts'.key[j] # "free"
                       /\ accounts'.perm[j] = accounts.perm[j] \/ accounts'.perm[j] = {}
                       /\ accounts'.key[j] = "live" => accounts.key[j] = "live"
  BY <1>1, DroppedKeyForm
<1>3. AccountsShrink /\ AccessesKept
  BY <1>1, <1>2 DEF AccountsShrink, AccessesKept
<1>4. MovesShadows
  BY <1>1, <1>3, UnmovedShadow DEF MovesShadows
<1> QED
  BY <1>1, <1>4, UnmovedKeeps DEF Unmoved

LEMMA CrashAccessKeeps ==
  ASSUME TypedAccess, AccessCore, CrashAccess
  PROVE  AccessCore'
<1>1. aw'.pc = "idle" /\ AccessesKept /\ UNCHANGED <<keys, secret, accounts>>
  BY DEF CrashAccess, ADone, IdleAccess, AccessesKept
<1> QED
  BY <1>1, LeavingIsSafe

LEMMA DeleteAccessKeeps ==
  ASSUME TypedAccess, AccessCore, NEW a \in Access, DeleteAccess(a)
  PROVE  AccessCore'
<1>1. /\ access[a].st = "live" /\ access' = [access EXCEPT ![a].st = "del"] /\ UNCHANGED <<keys, secret, accounts, aw>>
  BY DEF DeleteAccess
<1>2. /\ access'[a].st = "del" /\ \A b \in Access \ {a} : access'[b] = access[b]
      /\ \A b \in Access : access'[b].id = access[b].id /\ access'[b].handed = access[b].handed
      /\ \A b \in Access : access'[b].st = access[b].st \/ access'[b].st = "del"
  BY <1>1 DEF TypedAccess, Accesses
<1>3. /\ \A b \in Access : Exists(b)' = Exists(b) /\ Owns(b)' = Owns(b)
      /\ \A i \in Identity : There(i)' = There(i) /\ Bound(i)' = Bound(i) /\ Ids(keys[i])' = Ids(keys[i])
      /\ \A k : LiveKey(k)' = LiveKey(k)
      /\ \A i \in Identity : Doomed(i)' = Doomed(i)
      /\ keys' = keys /\ secret' = secret /\ accounts' = accounts /\ aw' = aw
  BY <1>1, <1>2 DEF Exists, Owns, There, Bound, Ids, LiveKey, Doomed
<1>4. KeyForm' /\ KeyTracking' /\ HoldKnown'
  BY <1>1 DEF AccessCore, KeyForm, KeyTracking, HoldKnown, LiveKey, There, Bound
<1>5. KeysDiffer' /\ SecretForm'
  <2>1. SecretForm'
    BY <1>2, <1>3 DEF AccessCore, SecretForm
  <2>2. \A b \in Access : LiveKey(access[b].id)' = LiveKey(access[b].id)
    BY <1>2, <1>3 DEF LiveKey
  <2>3. KeysDiffer'
    BY <1>2, <1>3, <2>2, Names DEF AccessCore, KeysDiffer
  <2> QED
    BY <2>1, <2>3
<1>6. AccessForm' /\ Sharing'
  BY <1>2, <1>3, Names DEF AccessCore, AccessForm, Sharing
<1>7. LegacyForm'
  <2>1. keys[Name].owner # 0 /\ access[keys[Name].owner].st # "live" => access'[keys[Name].owner].st # "live"
    BY <1>2, Names DEF TypedAccess, ShadowKeys
  <2>2. GivenUp => GivenUp'
    BY <1>2, <1>3, <2>1, Names DEF GivenUp, LiveKey, Bound
  <2> QED
    BY <1>2, <1>3, <2>2, Names DEF AccessCore, LegacyForm
<1>8. AccessKnown' /\ TurnKnown'
  <2>1. aw.a \in Access /\ aw.a \in Identity
    BY Names DEF TypedAccess, AccessWorkers
  <2>2. \A b \in Access : (access[b].st = "del" => access'[b].st = "del") /\ (access'[b].st = "live" => access[b].st = "live")
    BY <1>2
  <2>3. \A i : Authority(i, aw.known)' = Authority(i, aw.known)
    BY <1>3 DEF Authority
  <2>4. (Owns(aw.a)' = Owns(aw.a)) /\ (There(aw.a)' = There(aw.a)) /\ (Ids(keys[aw.a])' = Ids(keys[aw.a]))
        /\ (Authority(aw.a, aw.known)' = Authority(aw.a, aw.known)) /\ (LiveKey(aw.known)' = LiveKey(aw.known))
        /\ (Doomed(aw.a)' = Doomed(aw.a)) /\ (LiveKey(keys[aw.a].id)' = LiveKey(keys[aw.a].id))
        /\ (There(aw.who)' = There(aw.who)) /\ (Authority(aw.who, aw.known)' = Authority(aw.who, aw.known))
    BY <1>2, <1>3, <2>1 DEF Owns, Exists, There, Ids, Authority, LiveKey, Doomed
  <2>5. TurnKnown'
    BY <1>2, <1>3, <2>1, <2>2, <2>4, Names DEF AccessCore, TurnKnown
  <2>6. AccessKnown'
    BY <1>2, <1>3, <2>1, <2>2, <2>3, <2>4, Names DEF AccessCore, AccessKnown
  <2> QED
    BY <2>5, <2>6
<1> QED
  BY <1>4, <1>5, <1>6, <1>7, <1>8 DEF AccessCore

LEMMA UpstreamReleasesKeeps ==
  ASSUME TypedAccess, AccessCore, NEW a \in Access, UpstreamReleases(a)
  PROVE  AccessCore'
<1>1. /\ access[a].st = "del" /\ access[a].handed /\ UNCHANGED <<keys, accounts, aw>>
      /\ access' = [access EXCEPT ![a] = [NoAccess EXCEPT !.st = "gone"]]
      /\ secret' = [secret EXCEPT ![a] = IF @.by = a THEN [by |-> 0, id |-> 0] ELSE @]
  BY DEF UpstreamReleases
<1>2. /\ access'[a].st = "gone" /\ access'[a].id = 0 /\ ~access'[a].handed
      /\ \A b \in Access \ {a} : access'[b] = access[b]
  BY <1>1 DEF TypedAccess, NoAccess
<1>3. /\ \A b \in Access \ {a} : secret'[b] = secret[b]
      /\ secret'[a].id = 0
  BY <1>1 DEF TypedAccess, AccessCore, SecretForm
<1>4. /\ ~Owns(a) /\ ~Exists(a)' /\ ~Owns(a)' /\ (aw.pc # "idle" => aw.a # a)
      /\ \A b \in Access \ {a} : (Exists(b)' = Exists(b)) /\ (Owns(b)' = Owns(b))
      /\ \A i \in Identity : There(i)' = There(i) /\ Bound(i)' = Bound(i) /\ Ids(keys[i])' = Ids(keys[i])
      /\ \A k : LiveKey(k)' = LiveKey(k)
      /\ \A i \in Identity : Doomed(i)' = Doomed(i)
      /\ keys' = keys /\ accounts' = accounts /\ aw' = aw
  BY <1>1, <1>2 DEF AccessCore, AccessKnown, Exists, Owns, There, Bound, Ids, LiveKey, Doomed
<1>5. \A i \in Identity : 0 \notin Ids(keys[i])
  BY DEF Ids
<1>6. KeyForm' /\ KeyTracking' /\ HoldKnown'
  BY <1>1 DEF AccessCore, KeyForm, KeyTracking, HoldKnown, LiveKey, There, Bound
<1>7. KeysDiffer'
  <2>1. \A b \in Access : access'[b].id \in {access[b].id, 0} /\ secret'[b].id \in {secret[b].id, 0}
    BY <1>2, <1>3
  <2>2. /\ \A i \in Identity, b \in Access : access'[b].id \in Ids(keys[i])' => access[b].id \in Ids(keys[i])
        /\ \A i \in Identity, b \in Access : secret'[b].id \in Ids(keys[i])' => secret[b].id \in Ids(keys[i])
        /\ \A i \in Identity : Ids(keys[i])' = Ids(keys[i]) /\ keys'[i] = keys[i]
    BY <1>4, <1>5, <2>1
  <2>3. /\ \A i, j \in Identity : i # j => Ids(keys[i])' \cap Ids(keys[j])' = {}
    BY ZenonT(60), <2>2, Names DEF AccessCore, KeysDiffer
  <2>4. /\ \A i, b \in Access : i # b => access'[b].id \notin Ids(keys[i])' /\ secret'[b].id \notin Ids(keys[i])'
        /\ \A i \in Identity : keys'[i].state = "Pending" =>
             \A b \in Access : access'[b].id \notin Ids(keys[i])' /\ secret'[b].id \notin Ids(keys[i])'
    BY <2>2, Names DEF AccessCore, KeysDiffer
  <2>5. \A b \in Access : access'[b].id \in Ids(keys[b])' => ~keys'[b].del \/ ~LiveKey(access'[b].id)
    BY <1>4, <2>1, <2>2, Names DEF AccessCore, KeysDiffer, LiveKey
  <2> QED
    BY <2>3, <2>4, <2>5, <1>4 DEF KeysDiffer, LiveKey
<1>8. AccessForm' /\ Sharing' /\ SecretForm'
  <2>1. AccessForm'
    BY <1>2, <1>4, Names DEF AccessCore, AccessForm
  <2>2. Sharing'
    BY <1>2, <1>4, Names DEF AccessCore, Sharing
  <2>3. SecretForm'
    BY <1>2, <1>3, <1>4 DEF AccessCore, SecretForm
  <2> QED
    BY <2>1, <2>2, <2>3
<1>9. LegacyForm'
  <2>1. keys[Name].owner # 0 /\ access[keys[Name].owner].st # "live" => access'[keys[Name].owner].st # "live"
    BY <1>2, Names DEF TypedAccess, ShadowKeys
  <2>2. \A b \in Access : Owns(b) => Owns(b)' /\ access'[b].id = access[b].id
    BY <1>2, <1>4
  <2>3. GivenUp => GivenUp'
    BY <1>1, <1>2, <1>4, <2>1, Names DEF GivenUp, LiveKey, Bound
  <2> QED
    BY <1>4, <2>1, <2>2, <2>3, Names DEF AccessCore, LegacyForm
<1>10. AccessKnown' /\ TurnKnown'
  <2>1. aw.a \in Access /\ aw.a \in Identity
    BY Names DEF TypedAccess, AccessWorkers
  <2>2. aw.pc = "idle" => AccessKnown' /\ TurnKnown'
    BY <1>4, IdleKnowsNothing
  <2>3. CASE aw.pc # "idle"
    <3>1. /\ access'[aw.a] = access[aw.a] /\ (Owns(aw.a)' = Owns(aw.a)) /\ (There(aw.a)' = There(aw.a))
          /\ (Ids(keys[aw.a])' = Ids(keys[aw.a])) /\ (LiveKey(aw.known)' = LiveKey(aw.known))
          /\ (Authority(aw.a, aw.known)' = Authority(aw.a, aw.known))
          /\ (Authority(Name, aw.known)' = Authority(Name, aw.known))
          /\ (Doomed(aw.a)' = Doomed(aw.a)) /\ (LiveKey(keys[aw.a].id)' = LiveKey(keys[aw.a].id))
          /\ (There(aw.who)' = There(aw.who)) /\ (Authority(aw.who, aw.known)' = Authority(aw.who, aw.known))
      BY <1>2, <1>4, <2>1, <2>3 DEF Owns, Exists, There, Ids, LiveKey, Authority, Doomed
    <3>2. /\ \A b \in Access : Owns(b) => Owns(b)' /\ access'[b].id = access[b].id
          /\ \A b \in Access : access'[b].st = "live" => access'[b] = access[b]
          /\ \A b \in Access : access'[b].id \in {access[b].id, 0} /\ secret'[b].id \in {secret[b].id, 0}
      BY <1>2, <1>3, <1>4
    <3>3. AccessKnown'
      BY <1>4, <2>1, <3>1, <3>2, Names DEF AccessCore, AccessKnown
    <3>4. TurnKnown'
      BY <1>4, <1>5, <2>1, <3>1, <3>2, Names DEF AccessCore, TurnKnown
    <3> QED
      BY <3>3, <3>4
  <2> QED
    BY <2>2, <2>3
<1> QED
  BY <1>6, <1>7, <1>8, <1>9, <1>10 DEF AccessCore

LEMMA ReplaceSecretKeeps ==
  ASSUME TypedAccess, AccessCore, NEW a \in Access, ReplaceSecret(a)
  PROVE  AccessCore'
<1>1. secret' = [secret EXCEPT ![a] = [by |-> Name, id |-> 0]] /\ UNCHANGED <<access, keys, accounts, aw>>
  BY DEF ReplaceSecret
<1>2. \A b \in Access : secret'[b] = secret[b] \/ secret'[b].id = 0
  BY <1>1 DEF TypedAccess
<1>3. \A i \in Identity : 0 \notin Ids(keys[i]) /\ Ids(keys[i])' = Ids(keys[i])
  BY <1>1 DEF Ids
<1>4. KeyForm' /\ KeyTracking' /\ HoldKnown' /\ AccessForm' /\ Sharing' /\ LegacyForm' /\ AccessKnown'
  <2>1. KeyForm' /\ KeyTracking'
    BY <1>1 DEF AccessCore, KeyForm, KeyTracking, LiveKey, There, Bound, Ids
  <2>2. HoldKnown'
    BY <1>1 DEF AccessCore, HoldKnown, LiveKey, There, Bound
  <2>3. AccessForm' /\ Sharing'
    BY <1>1 DEF AccessCore, AccessForm, Sharing, LiveKey, There, Bound, Owns, Exists, Doomed
  <2>4. LegacyForm'
    BY <1>1 DEF AccessCore, LegacyForm, LiveKey, There, Bound, Owns, Exists, Doomed, GivenUp
  <2>5. /\ \A b \in Access : (Owns(b)' = Owns(b)) /\ access'[b] = access[b]
        /\ (There(Name)' = There(Name)) /\ (Doomed(Name)' = Doomed(Name)) /\ (Bound(Name)' = Bound(Name))
        /\ (Authority(Name, aw.known)' = Authority(Name, aw.known)) /\ keys'[Name] = keys[Name]
        /\ access' = access /\ keys' = keys /\ aw' = aw
    BY <1>1 DEF LiveKey, There, Bound, Owns, Exists, Doomed, Authority
  <2>6. /\ There(aw.a)' = There(aw.a) /\ Doomed(aw.a)' = Doomed(aw.a) /\ Authority(aw.a, aw.known)' = Authority(aw.a, aw.known)
        /\ There(aw.who)' = There(aw.who) /\ Authority(aw.who, aw.known)' = Authority(aw.who, aw.known)
        /\ Owns(aw.a)' = Owns(aw.a) /\ LiveKey(aw.known)' = LiveKey(aw.known)
        /\ LiveKey(keys[aw.a].id)' = LiveKey(keys[aw.a].id) /\ Ids(keys[aw.a])' = Ids(keys[aw.a])
    BY <1>1 DEF LiveKey, There, Owns, Exists, Doomed, Authority, Ids
  <2>7. AccessKnown'
    BY <2>5, <2>6 DEF AccessCore, AccessKnown
  <2> QED
    BY <2>1, <2>2, <2>3, <2>4, <2>7
<1>5. KeysDiffer'
  BY ZenonT(60), <1>1, <1>2, <1>3, Names DEF AccessCore, KeysDiffer, LiveKey
<1>6. SecretForm'
  BY <1>1, <1>2 DEF AccessCore, SecretForm, Exists
<1>7. TurnKnown'
  BY <1>1, <1>2, <1>3, Names DEF AccessCore, TurnKnown, There, Bound, LiveKey
<1> QED
  BY <1>4, <1>5, <1>6, <1>7 DEF AccessCore

-----------------------------------------------------------------------------
(* The types.                                                              *)

LEMMA Blank ==
  /\ NoShadowKey \in ShadowKeys /\ IdleAccess \in AccessWorkers
  /\ \A a \in Access : a \in 0..Name
<1>1. NoShadowKey \in ShadowKeys
  BY DEF NoShadowKey, ShadowKeys, KIDs
<1>2. IdleAccess \in AccessWorkers
  BY <1>1, Names DEF IdleAccess, AccessWorkers, KIDs
<1>3. \A a \in Access : a \in 0..Name
  BY DEF Access, Name
<1> QED
  BY <1>1, <1>2, <1>3

LEMMA FailTypes ==
  ASSUME TypedAccess, FailAccess
  PROVE  TypedAccess'
<1>1. aw' = IdleAccess /\ UNCHANGED <<keys, rsv, secret, accounts>>
  BY DEF FailAccess, ADone
<1> QED
  BY <1>1, AUnpublishKeeps, Blank DEF FailAccess, TypedAccess

LEMMA GcTypes ==
  ASSUME TypedAccess, rsv' = Gc(keys')
  PROVE  rsv' \in [Identity -> KIDs]
  BY DEF TypedAccess, Gc, KIDs

LEMMA DropTypes ==
  ASSUME TypedAccess, NEW k, accounts' = DropKey(accounts, k)
  PROVE  accounts' \in Accounts
  BY DEF TypedAccess, DropKey, Accounts

LEMMA TurningTypes ==
  ASSUME TypedAccess, RefuseAccess \/ AddAccessFinalizer \/ ReserveAccessSecret \/ ResolveBuckets
  PROVE  TypedAccess'
<1>1. CASE FailAccess
  BY <1>1, FailTypes
<1>2. aw \in AccessWorkers /\ access \in [Access -> Accesses] /\ secret \in [Access -> Secrets] /\ aw.a \in Access
  BY DEF TypedAccess, AccessWorkers
<1>3. CASE AddAccessFinalizer
  <2>1. access' \in [Access -> Accesses]
    BY ZenonT(60), <1>2, <1>3 DEF AddAccessFinalizer, Accesses
  <2> QED
    BY <1>3, <2>1, Blank DEF AddAccessFinalizer, ADone, TypedAccess
<1>4. ASSUME ReserveAccessSecret, ~FailAccess PROVE TypedAccess'
  <2>1. /\ secret' = [secret EXCEPT ![aw.a].by = aw.a] /\ aw' = [aw EXCEPT !.pc = "buckets"]
        /\ UNCHANGED <<access, keys, rsv, accounts>>
    BY <1>4 DEF ReserveAccessSecret, AGoTo
  <2>2. secret' \in [Access -> Secrets]
    BY <1>2, <2>1, Blank DEF Secrets
  <2>3. aw' \in AccessWorkers
    BY <1>2, <2>1 DEF AccessWorkers, Entering
  <2> QED
    BY <2>1, <2>2, <2>3 DEF TypedAccess
<1>5. ASSUME ResolveBuckets, ~FailAccess PROVE TypedAccess'
  <2>1. aw' = [aw EXCEPT !.pc = "reserve"] /\ UNCHANGED <<access, keys, rsv, secret, accounts>>
    BY <1>5 DEF ResolveBuckets, AGoTo
  <2>2. aw' \in AccessWorkers
    BY <1>2, <2>1 DEF AccessWorkers, Entering
  <2> QED
    BY <2>1, <2>2 DEF TypedAccess
<1> QED
  BY <1>1, <1>3, <1>4, <1>5 DEF RefuseAccess

LEMMA ReconcileAccessTypes ==
  ASSUME TypedAccess, AccessCore, NEW a \in Access, ReconcileAccess(a)
  PROVE  TypedAccess'
<1> DEFINE r == ResolveBucketAccessIdentity(a)
           w == IF r.dup THEN a ELSE r.who
           p == Next1(a, r)
           d == access[a].st = "del"
<1>1. /\ Owns(a) /\ UNCHANGED <<access, rsv, secret, accounts>>
      /\ aw' = [IdleAccess EXCEPT !.pc = p, !.a = a, !.who = w, !.known = access[a].id, !.del = d]
      /\ keys' = IF r.win # 0 THEN [keys EXCEPT ![Name].owner = r.win] ELSE keys
  BY DEF ReconcileAccess, Owns
<1>2. OwnOutcome(a, r) \/ LegacyOutcome(a, r) \/ PendingOutcome(a, r)
  BY <1>1, ResolutionForm
<1>3. access[a].id \in KIDs /\ d \in BOOLEAN
  BY DEF TypedAccess, Accesses
<1> HIDE DEF r, d
<1>4. r.who \in Identity /\ r.win \in {0} \cup Access
  BY <1>2, Names DEF OwnOutcome, LegacyOutcome, PendingOutcome
<1>5. p \in {"dup", "cancel", "handoff", "revoke", "refuse", "finalizer", "secret"} /\ w \in Identity
  BY <1>4, Names DEF Next1
<1> HIDE DEF p, w
<1>6. aw' \in AccessWorkers
  BY <1>1, <1>3, <1>5, Blank DEF AccessWorkers, Entering, Revoking, Duplicate
<1>7. keys' \in [Identity -> ShadowKeys]
  BY SMTT(60), <1>1, <1>4, Names DEF TypedAccess, ShadowKeys
<1> QED
  BY <1>1, <1>6, <1>7 DEF TypedAccess

\* The shadow that is written, and the worker that holds it.
LEMMA HoldTypes ==
  ASSUME TypedAccess, NEW sh \in ShadowKeys, NEW pc \in Granting, aw.who \in Identity, Hold(sh, pc)
  PROVE  keys' \in [Identity -> ShadowKeys] /\ aw' \in AccessWorkers
<1>1. keys' = [keys EXCEPT ![aw.who] = sh] /\ aw' = [aw EXCEPT !.sh = sh, !.pc = pc]
  BY DEF Hold
<1>2. keys' \in [Identity -> ShadowKeys]
  BY <1>1 DEF TypedAccess
<1>3. aw' \in AccessWorkers
  BY <1>1 DEF TypedAccess, AccessWorkers
<1> QED
  BY <1>2, <1>3

LEMMA HeldWriteTypes ==
  ASSUME TypedAccess, AccessCore,
         \/ ReserveShadowKey \/ AnnotateReservation \/ BindShadowKey \/ RedrawKey
         \/ EnsureKeyReservationSecret /\ aw.sh.id = 0
  PROVE  TypedAccess'
<1>1. CASE FailAccess
  BY <1>1, FailTypes
<1>2. aw \in AccessWorkers /\ aw.who \in Identity /\ aw.id \in KIDs /\ aw.sh \in ShadowKeys /\ Sh \in ShadowKeys
  BY DEF TypedAccess, AccessWorkers, Sh
<1>3. {"lookup", "import", "bind", "perms", "material"} \subseteq Granting
  BY DEF Granting, Drawing, Bounding
<1>4. ASSUME ReserveShadowKey, ~FailAccess PROVE TypedAccess'
  <2>1. PICK uid \in 1..4 : uid = FreshUID
    BY FreshUIDIsNew
  <2> DEFINE new == ShadowKey(uid)
             old == [Sh EXCEPT !.fin = TRUE]
  <2>2. /\ Hold(new, "lookup") \/ Hold(old, "lookup")
        /\ UNCHANGED <<access, rsv, secret, accounts>>
    BY <1>4, <2>1 DEF ReserveShadowKey
  <2>3. uid \in 0..4
    OBVIOUS
  <2>4. new \in ShadowKeys
    BY <2>3, Blank DEF ShadowKey, ShadowKeys
  <2>5. old \in ShadowKeys
    BY <1>2 DEF ShadowKeys
  <2> HIDE DEF new, old
  <2>6. keys' \in [Identity -> ShadowKeys] /\ aw' \in AccessWorkers
    BY <1>2, <1>3, <2>2, <2>4, <2>5, HoldTypes
  <2> QED
    BY <2>2, <2>6 DEF TypedAccess
<1>5. ASSUME AnnotateReservation, ~FailAccess PROVE TypedAccess'
  <2> DEFINE sh == [Sh EXCEPT !.id = aw.id, !.ann = aw.id]
             pc == IF aw.pc = "annotate" THEN "import" ELSE "bind"
  <2>1. Hold(sh, pc) /\ UNCHANGED <<access, rsv, secret, accounts>>
    BY <1>5 DEF AnnotateReservation
  <2>2. sh \in ShadowKeys
    BY <1>2 DEF ShadowKeys
  <2>3. pc \in Granting
    BY <1>3
  <2> HIDE DEF sh, pc
  <2>4. keys' \in [Identity -> ShadowKeys] /\ aw' \in AccessWorkers
    BY <1>2, <2>1, <2>2, <2>3, HoldTypes
  <2> QED
    BY <2>1, <2>4 DEF TypedAccess
<1>6. ASSUME BindShadowKey, ~FailAccess PROVE TypedAccess'
  <2> DEFINE sh == [aw.sh EXCEPT !.id = aw.id, !.ann = aw.id, !.state = "Bound", !.label = TRUE]
  <2>1. Hold(sh, "perms") /\ UNCHANGED <<access, rsv, secret, accounts>>
    BY <1>6 DEF BindShadowKey
  <2>2. sh \in ShadowKeys
    BY <1>2 DEF ShadowKeys
  <2> HIDE DEF sh
  <2>3. keys' \in [Identity -> ShadowKeys] /\ aw' \in AccessWorkers
    BY <1>2, <1>3, <2>1, <2>2, HoldTypes
  <2> QED
    BY <2>1, <2>3 DEF TypedAccess
<1>7. ASSUME RedrawKey \/ (EnsureKeyReservationSecret /\ aw.sh.id = 0) PROVE TypedAccess'
  <2> DEFINE sh == [aw.sh EXCEPT !.id = FreshKey]
  <2>1. /\ Unused # {} /\ UNCHANGED <<rsv, secret, accounts>>
        /\ \/ Hold(sh, "material") /\ access' = access
           \/ AUnpublish /\ aw' = IdleAccess /\ keys' = keys
    BY <1>7 DEF RedrawKey, EnsureKeyReservationSecret, PersistShadowKeyStatusID, ADone
  <2>2. FreshKey \in KIDs
    BY <2>1, FreshKeyIsUntouched DEF KIDs
  <2>3. sh \in ShadowKeys
    BY <1>2, <2>2 DEF ShadowKeys
  <2> HIDE DEF sh
  <2>4. keys' \in [Identity -> ShadowKeys] /\ aw' \in AccessWorkers /\ access' \in [Access -> Accesses]
    <3>1. CASE Hold(sh, "material") /\ access' = access
      BY <1>2, <1>3, <2>3, <3>1, HoldTypes DEF TypedAccess
    <3>2. CASE AUnpublish /\ aw' = IdleAccess /\ keys' = keys
      BY <3>2, AUnpublishKeeps, Blank DEF TypedAccess
    <3> QED
      BY <2>1, <3>1, <3>2
  <2> QED
    BY <2>1, <2>4 DEF TypedAccess
<1> QED
  BY <1>1, <1>4, <1>5, <1>6, <1>7

LEMMA GrantTypes ==
  ASSUME TypedAccess, AccessCore,
         \/ LookupKey \/ DropTombstonedMaterial \/ (EnsureKeyReservationSecret /\ aw.sh.id # 0)
         \/ ImportReservedKey \/ ReconcileCOSIKeyPermissions \/ DeleteKeyReservationSecret \/ PopulateSecret
  PROVE  TypedAccess'
<1>1. CASE FailAccess
  BY <1>1, FailTypes
<1>2. ASSUME ~FailAccess PROVE TypedAccess'
  <2>0. /\ aw \in AccessWorkers /\ aw.sh \in ShadowKeys /\ aw.sh.id \in KIDs /\ aw.sh.ann \in KIDs /\ aw.id \in KIDs
        /\ aw.known \in KIDs /\ aw.who \in Identity /\ rsv \in [Identity -> KIDs] /\ secret \in [Access -> Secrets]
        /\ accounts \in Accounts /\ 0 \in KIDs
    BY SMTT(60) DEF TypedAccess, AccessWorkers, ShadowKeys, KIDs
  <2>1. /\ \/ \E pc \in Granting : aw' = [aw EXCEPT !.pc = pc]
           \/ \E pc \in Granting \cup {"annotateKnown"}, id \in KIDs : aw' = [aw EXCEPT !.pc = pc, !.id = id]
           \/ \E pc \in Granting, b \in BOOLEAN : aw' = [aw EXCEPT !.pc = pc, !.absent = b]
        /\ UNCHANGED <<access, keys>>
    <3>1. {"bind", "stale", "tombstone", "material", "giveUp", "redraw", "annotate", "unreserve", "populate", "status"}
            \subseteq Granting
      BY DEF Granting, Drawing, Bounding
    <3>2. CASE LookupKey
      <4>1. ~Contradicts /\ UNCHANGED <<access, keys>>
        BY <1>2, <3>2 DEF LookupKey, Found
      <4>2. \/ aw' = [aw EXCEPT !.pc = "bind", !.id = aw.sh.ann]
            \/ aw' = [aw EXCEPT !.pc = "stale", !.id = aw.sh.ann]
            \/ aw' = [aw EXCEPT !.pc = "tombstone", !.absent = TRUE]
            \/ aw' = [aw EXCEPT !.pc = "material", !.absent = TRUE]
            \/ aw' = [aw EXCEPT !.pc = "annotateKnown", !.id = aw.known]
            \/ aw' = [aw EXCEPT !.pc = "giveUp"]
            \/ aw' = [aw EXCEPT !.pc = "material", !.absent = Replacing]
        BY <3>2, <4>1 DEF LookupKey, Found, AGoTo
      <4>3. Replacing \in BOOLEAN
        BY DEF Replacing
      <4> QED
        BY <2>0, <3>1, <4>1, <4>2, <4>3
    <3>3. CASE DropTombstonedMaterial
      BY <1>2, <3>1, <3>3 DEF DropTombstonedMaterial, AGoTo
    <3>4. CASE EnsureKeyReservationSecret /\ aw.sh.id # 0
      BY <1>2, <2>0, <3>1, <3>4 DEF EnsureKeyReservationSecret
    <3>5. CASE ImportReservedKey \/ ReconcileCOSIKeyPermissions \/ DeleteKeyReservationSecret \/ PopulateSecret
      BY <1>2, <3>1, <3>5
         DEF ImportReservedKey, ReconcileCOSIKeyPermissions, DeleteKeyReservationSecret, PopulateSecret, AGoTo
    <3> QED
      BY <3>2, <3>3, <3>4, <3>5
  <2>2. aw' \in AccessWorkers
    BY <2>0, <2>1 DEF AccessWorkers
  <2>3. rsv' \in [Identity -> KIDs] /\ secret' \in [Access -> Secrets] /\ accounts' \in Accounts
    <3>1. CASE LookupKey
      BY <1>2, <2>0, <3>1 DEF LookupKey, Found
    <3>2. CASE DropTombstonedMaterial \/ DeleteKeyReservationSecret \/ (EnsureKeyReservationSecret /\ aw.sh.id # 0)
      <4>1. rsv' \in [Identity -> KIDs]
        BY <1>2, <2>0, <3>2 DEF DropTombstonedMaterial, DeleteKeyReservationSecret, EnsureKeyReservationSecret
      <4> QED
        BY <1>2, <2>0, <3>2, <4>1 DEF DropTombstonedMaterial, DeleteKeyReservationSecret, EnsureKeyReservationSecret
    <3>3. CASE PopulateSecret
      <4>1. secret' = [secret EXCEPT ![aw.a].id = aw.id] /\ UNCHANGED <<rsv, accounts>>
        BY <1>2, <3>3 DEF PopulateSecret
      <4>2. secret' \in [Access -> Secrets]
        BY <2>0, <4>1 DEF Secrets
      <4> QED
        BY <2>0, <4>1, <4>2
    <3>4. CASE ImportReservedKey \/ ReconcileCOSIKeyPermissions
      <4>1. /\ UNCHANGED <<rsv, secret>>
            /\ \/ accounts' = [accounts EXCEPT !.key[aw.id] = "live"]
               \/ accounts' = [accounts EXCEPT !.perm[aw.id] = Want]
        BY <1>2, <3>4 DEF ImportReservedKey, ReconcileCOSIKeyPermissions, ExactKeyPermissions
      <4>2. accounts' \in Accounts
        BY <2>0, <4>1 DEF Accounts, Want, AllPerms
      <4> QED
        BY <2>0, <4>1, <4>2
    <3> QED
      BY <3>1, <3>2, <3>3, <3>4
  <2> QED
    BY <2>1, <2>2, <2>3 DEF TypedAccess
<1> QED
  BY <1>1, <1>2

LEMMA RequestTypes ==
  ASSUME TypedAccess, NEW who \in Identity, RequestDeleteKey(who)
  PROVE  keys' \in [Identity -> ShadowKeys]
<1>1. keys \in [Identity -> ShadowKeys] /\ keys[who] \in ShadowKeys
  BY DEF TypedAccess
<1> DEFINE sh == RemoveKey(keys[who])
<1>2. keys' = keys \/ keys' = [keys EXCEPT ![who] = sh]
  BY DEF RequestDeleteKey
<1>3. sh \in ShadowKeys
  BY <1>1, Blank DEF RemoveKey, ShadowKeys
<1> HIDE DEF sh
<1> QED
  BY <1>1, <1>2, <1>3

\* The two calls of deleteShadow.
LEMMA StripTypes ==
  ASSUME TypedAccess, NEW i \in Identity, NEW pc \in {"staleDelete", "revokeDelete", "dupDelete"}, StripShadowKey(i, pc)
  PROVE  TypedAccess'
<1>0. keys \in [Identity -> ShadowKeys] /\ keys[i] \in ShadowKeys /\ aw \in AccessWorkers
  BY DEF TypedAccess
<1> DEFINE sh == IF keys[i].del THEN NoShadowKey ELSE [keys[i] EXCEPT !.fin = FALSE]
<1>1. /\ keys' = [keys EXCEPT ![i] = sh] /\ aw' = [aw EXCEPT !.pc = pc, !.who = i, !.sh = keys[i]]
      /\ rsv' = Gc(keys') /\ UNCHANGED <<access, secret, accounts>>
  BY <1>0 DEF StripShadowKey
<1>2. sh \in ShadowKeys
  BY <1>0, Blank DEF ShadowKeys
<1> HIDE DEF sh
<1>3. keys' \in [Identity -> ShadowKeys]
  BY <1>0, <1>1, <1>2
<1>4. aw' \in AccessWorkers
  BY <1>0, <1>1 DEF AccessWorkers, Revoking, Duplicate
<1> QED
  BY <1>1, <1>3, <1>4, GcTypes DEF TypedAccess
LEMMA DropShadowTypes ==
  ASSUME TypedAccess, DropShadowKey
  PROVE  keys' \in [Identity -> ShadowKeys] /\ rsv' \in [Identity -> KIDs] /\ UNCHANGED <<secret, accounts>>
<1>0. keys \in [Identity -> ShadowKeys] /\ aw.who \in Identity /\ keys[aw.who] \in ShadowKeys
  BY DEF TypedAccess, AccessWorkers
<1> DEFINE sh == RemoveKey(keys[aw.who])
<1>1. keys' = keys \/ keys' = [keys EXCEPT ![aw.who] = sh]
  BY <1>0 DEF DropShadowKey
<1>2. sh \in ShadowKeys
  BY <1>0, Blank DEF RemoveKey, ShadowKeys
<1> HIDE DEF sh
<1> QED
  BY <1>0, <1>1, <1>2, GcTypes DEF DropShadowKey

LEMMA CleanupTypes ==
  ASSUME TypedAccess, AccessCore,
         \/ StripStaleShadowKey \/ DeleteStaleShadowKey \/ GiveUpKnown \/ PublishAccessStatus
         \/ CancelAccessProvisioning \/ RevokeRemoteKey \/ DeleteShadowKeyByID \/ DropRevokedShadowKey
         \/ CompleteCleanupHandoff
         \/ CleanupDuplicateAccessIdentity \/ DeleteDuplicateSecret \/ StripDuplicate \/ DropDuplicate
  PROVE  TypedAccess'
<1>1. CASE FailAccess
  BY <1>1, FailTypes
<1>0. /\ access \in [Access -> Accesses] /\ keys \in [Identity -> ShadowKeys] /\ aw \in AccessWorkers
      /\ aw.a \in Access /\ aw.who \in Identity /\ aw.id \in KIDs /\ IdleAccess \in AccessWorkers
      /\ NoShadowKey \in ShadowKeys
  BY Blank DEF TypedAccess, AccessWorkers
<1>2. CASE DeleteStaleShadowKey \/ DropRevokedShadowKey \/ DropDuplicate
  <2>1. access' \in [Access -> Accesses]
    BY <1>0, <1>2, AUnpublishKeeps DEF DeleteStaleShadowKey, DropRevokedShadowKey, DropDuplicate
  <2>2. aw' = IdleAccess \/ aw' = [aw EXCEPT !.pc = "handoff"]
    BY <1>2 DEF DeleteStaleShadowKey, DropRevokedShadowKey, DropDuplicate, ADone, AGoTo
  <2>3. aw' \in AccessWorkers
    BY <1>0, <2>2 DEF AccessWorkers
  <2>4. DropShadowKey
    BY <1>2 DEF DeleteStaleShadowKey, DropRevokedShadowKey, DropDuplicate
  <2> QED
    BY <2>1, <2>3, <2>4, DropShadowTypes DEF TypedAccess
<1>3. CASE GiveUpKnown
  <2>1. keys' \in [Identity -> ShadowKeys]
    BY <1>0, <1>3, RequestTypes DEF GiveUpKnown
  <2>2. rsv' \in [Identity -> KIDs] /\ access' \in [Access -> Accesses]
    BY <1>3, GcTypes, AUnpublishKeeps DEF GiveUpKnown
  <2> QED
    BY <1>0, <1>3, <2>1, <2>2 DEF GiveUpKnown, ADone, TypedAccess
<1>4. CASE PublishAccessStatus
  <2>1. access' \in [Access -> Accesses]
    BY <1>0, <1>4 DEF PublishAccessStatus, Accesses
  <2> QED
    BY <1>0, <1>4, <2>1 DEF PublishAccessStatus, ADone, TypedAccess
<1>5. ASSUME HandOff, UNCHANGED <<keys, rsv, secret, accounts>> PROVE TypedAccess'
  <2>1. access' \in [Access -> Accesses]
    BY ZenonT(60), <1>0, <1>5 DEF HandOff, Accesses
  <2> QED
    BY <1>0, <1>5, <2>1 DEF HandOff, ADone, TypedAccess
<1>6. CASE CancelAccessProvisioning
  <2>1. ASSUME RequestDeleteKey(aw.who), rsv' = Gc(keys'), ADone, UNCHANGED <<access, secret, accounts>>
        PROVE  TypedAccess'
    <3>1. keys' \in [Identity -> ShadowKeys]
      BY <1>0, <2>1, RequestTypes
    <3>2. rsv' \in [Identity -> KIDs]
      BY <2>1, GcTypes
    <3> QED
      BY <1>0, <2>1, <3>1, <3>2 DEF ADone, TypedAccess
  <2> QED
    BY <1>5, <1>6, <2>1 DEF CancelAccessProvisioning
<1>7. ASSUME RevokeRemoteKey, ~FailAccess PROVE TypedAccess'
  <2>1. /\ accounts' = DropKey(accounts, aw.known) /\ aw' = [aw EXCEPT !.pc = "revokeShadow"]
        /\ UNCHANGED <<access, keys, rsv, secret>>
    BY <1>7 DEF RevokeRemoteKey, AGoTo
  <2>2. aw' \in AccessWorkers
    BY <1>0, <2>1 DEF AccessWorkers, Revoking
  <2> QED
    BY <2>1, <2>2, DropTypes DEF TypedAccess
<1>8. ASSUME StripStaleShadowKey \/ DeleteShadowKeyByID \/ StripDuplicate, ~FailAccess PROVE TypedAccess'
  <2>1. \/ \E i \in Identity, pc \in {"staleDelete", "revokeDelete", "dupDelete"} : StripShadowKey(i, pc)
        \/ aw' = [aw EXCEPT !.pc = "handoff"] /\ UNCHANGED <<access, keys, rsv, secret, accounts>>
    BY <1>0, <1>8 DEF StripStaleShadowKey, DeleteShadowKeyByID, StripDuplicate, AGoTo
  <2>2. CASE aw' = [aw EXCEPT !.pc = "handoff"] /\ UNCHANGED <<access, keys, rsv, secret, accounts>>
    BY <1>0, <2>2 DEF AccessWorkers, TypedAccess
  <2> QED
    BY <2>1, <2>2, StripTypes
<1>9. CASE CompleteCleanupHandoff
  BY <1>5, <1>9 DEF CompleteCleanupHandoff
<1>10. ASSUME CleanupDuplicateAccessIdentity, ~FailAccess PROVE TypedAccess'
  <2>1. /\ aw' = IdleAccess \/ aw' = [aw EXCEPT !.pc = "dupSecret", !.sh = keys[aw.who]]
        /\ UNCHANGED <<access, secret>>
        /\ accounts' = accounts \/ \E k \in KIDs : accounts' = DropKey(accounts, k)
        /\ rsv' = rsv \/ rsv' = Gc(keys')
        /\ keys' = keys \/ RequestDeleteKey(aw.who)
    <3>1. Sh.id \in KIDs
      BY <1>0 DEF Sh, ShadowKeys
    <3> QED
      BY <1>10, <3>1 DEF CleanupDuplicateAccessIdentity, ADone, Sh
  <2>2. keys' \in [Identity -> ShadowKeys]
    BY <1>0, <2>1, RequestTypes
  <2>3. accounts' \in Accounts /\ rsv' \in [Identity -> KIDs]
    BY <2>1, DropTypes, GcTypes DEF TypedAccess
  <2>4. aw' \in AccessWorkers
    BY <1>0, <2>1 DEF AccessWorkers, Duplicate
  <2> QED
    BY <1>0, <2>1, <2>2, <2>3, <2>4 DEF TypedAccess
<1>11. ASSUME DeleteDuplicateSecret, ~FailAccess PROVE TypedAccess'
  <2>1. /\ rsv' = [rsv EXCEPT ![aw.who] = 0] /\ aw' = [aw EXCEPT !.pc = "dupStrip"]
        /\ UNCHANGED <<access, keys, secret, accounts>>
    BY <1>11 DEF DeleteDuplicateSecret, AGoTo
  <2>2. aw' \in AccessWorkers
    BY <1>0, <2>1 DEF AccessWorkers, Duplicate
  <2>3. rsv' \in [Identity -> KIDs]
    BY <2>1 DEF TypedAccess, KIDs
  <2> QED
    BY <2>1, <2>2, <2>3 DEF TypedAccess
<1> QED
  BY <1>1, <1>2, <1>3, <1>4, <1>6, <1>7, <1>8, <1>9, <1>10, <1>11

LEMMA OutsideAccessTypes ==
  ASSUME TypedAccess, AccessCore, KeyWorker \/ AccessEnvironment
  PROVE  TypedAccess'
<1>0. /\ access \in [Access -> Accesses] /\ keys \in [Identity -> ShadowKeys] /\ secret \in [Access -> Secrets]
      /\ accounts \in Accounts /\ IdleAccess \in AccessWorkers /\ NoShadowKey \in ShadowKeys
  BY Blank DEF TypedAccess
<1>1. CASE ReconcilePendingKey \/ RestoreKeyFinalizer
  <2>1. PICK i \in Identity : keys' = [keys EXCEPT ![i].fin = TRUE]
    BY <1>1 DEF ReconcilePendingKey, RestoreKeyFinalizer
  <2>2. keys' \in [Identity -> ShadowKeys]
    BY <1>0, <2>1 DEF ShadowKeys
  <2> QED
    BY <1>1, <2>2 DEF ReconcilePendingKey, RestoreKeyFinalizer, KeyWorkerRest, TypedAccess
<1>2. CASE ReconcileBoundKey
  <2>1. \E k \in KIDs : accounts' = [accounts EXCEPT !.perm[k] = Want]
    BY <1>2 DEF ReconcileBoundKey, ExactKeyPermissions, TypedAccess, ShadowKeys
  <2>2. accounts' \in Accounts
    BY <1>0, <2>1 DEF Accounts, Want, AllPerms
  <2> QED
    BY <1>2, <2>2 DEF ReconcileBoundKey, KeyWorkerRest, TypedAccess
<1>3. CASE FinalizeShadowKey
  <2>1. PICK i \in Identity : /\ accounts' = IF keys[i].id = 0 THEN accounts ELSE DropKey(accounts, keys[i].id)
                              /\ keys' = [keys EXCEPT ![i] = NoShadowKey]
    BY <1>3 DEF FinalizeShadowKey
  <2>2. accounts' \in Accounts
    BY <1>0, <2>1, DropTypes
  <2>3. rsv' \in [Identity -> KIDs]
    BY <1>3, GcTypes DEF FinalizeShadowKey
  <2> QED
    BY <1>0, <1>3, <2>1, <2>2, <2>3 DEF FinalizeShadowKey, KeyWorkerRest, TypedAccess
<1>4. ASSUME NEW a \in Access, DeleteAccess(a) PROVE TypedAccess'
  <2>1. access' \in [Access -> Accesses]
    BY <1>0, <1>4 DEF DeleteAccess, Accesses
  <2> QED
    BY <1>4, <2>1 DEF DeleteAccess, TypedAccess
<1>5. ASSUME NEW a \in Access, UpstreamReleases(a) PROVE TypedAccess'
  <2>1. [NoAccess EXCEPT !.st = "gone"] \in Accesses
    BY DEF NoAccess, Accesses, KIDs
  <2>2. access' \in [Access -> Accesses]
    BY <1>0, <1>5, <2>1 DEF UpstreamReleases
  <2>3. [by |-> 0, id |-> 0] \in Secrets
    BY DEF Secrets, KIDs, Name
  <2>4. secret' \in [Access -> Secrets]
    BY <1>0, <1>5, <2>3 DEF UpstreamReleases
  <2> QED
    BY <1>5, <2>2, <2>4 DEF UpstreamReleases, TypedAccess
<1>6. ASSUME NEW a \in Access, ReplaceSecret(a) PROVE TypedAccess'
  <2>1. [by |-> Name, id |-> 0] \in Secrets
    BY DEF Secrets, KIDs, Name
  <2>2. secret' \in [Access -> Secrets]
    BY <1>0, <1>6, <2>1 DEF ReplaceSecret
  <2> QED
    BY <1>6, <2>2 DEF ReplaceSecret, TypedAccess
<1>7. CASE LoseKey
  <2>1. accounts' \in Accounts
    BY <1>7, DropTypes DEF LoseKey
  <2> QED
    BY <1>7, <2>1 DEF LoseKey, TypedAccess
<1>8. CASE CrashAccess
  BY <1>0, <1>8 DEF CrashAccess, ADone, TypedAccess
<1> QED
  BY <1>1, <1>2, <1>3, <1>4, <1>5, <1>6, <1>7, <1>8 DEF KeyWorker, AccessEnvironment

-----------------------------------------------------------------------------
(* Every step.                                                             *)

\* A step of the reconcile, by the operation it performs.
LEMMA WorkerKeeps ==
  ASSUME TypedAccess, AccessCore, LegacyScene, (\E a \in Access : ReconcileAccess(a)) \/ AccessSteps
  PROVE  TypedAccess' /\ AccessCore'
<1>1. CASE \E a \in Access : ReconcileAccess(a)
  BY <1>1, ReconcileAccessKeeps, ReconcileAccessTypes
<1>2. CASE RefuseAccess \/ AddAccessFinalizer \/ ReserveAccessSecret \/ ResolveBuckets
  BY <1>2, TurningKeeps, TurningTypes
<1>3. CASE ReserveShadowKey \/ AnnotateReservation \/ BindShadowKey \/ RedrawKey
  BY <1>3, ReserveShadowKeyKeeps, HeldWritesKeep, HeldWriteTypes
<1>4. CASE EnsureKeyReservationSecret
  <2>1. CASE aw.sh.id = 0
    BY <1>4, <2>1, HeldWritesKeep, HeldWriteTypes
  <2>2. CASE aw.sh.id # 0
    BY <1>4, <2>2, MaterialKeeps, GrantTypes
  <2> QED
    BY <2>1, <2>2
<1>5. CASE LookupKey \/ DropTombstonedMaterial \/ DeleteKeyReservationSecret \/ PopulateSecret
  BY <1>5, LookupKeyKeeps, MaterialKeeps, PopulateSecretKeeps, GrantTypes
<1>6. CASE ImportReservedKey \/ ReconcileCOSIKeyPermissions
  BY <1>6, GrantingAccountsKeep, GrantTypes
<1>7. CASE StripStaleShadowKey \/ DeleteStaleShadowKey \/ GiveUpKnown \/ PublishAccessStatus \/ CancelAccessProvisioning
  <2>1. TypedAccess'
    BY <1>7, CleanupTypes
  <2> QED
    BY <1>7, <2>1, StripStaleShadowKeyKeeps, DeleteStaleShadowKeyKeeps, GiveUpKnownKeeps, PublishAccessStatusKeeps,
       CancelAccessProvisioningKeeps
<1>8. CASE RevokeRemoteKey \/ DeleteShadowKeyByID \/ DropRevokedShadowKey \/ CompleteCleanupHandoff
  <2>1. TypedAccess'
    BY <1>8, CleanupTypes
  <2> QED
    BY <1>8, <2>1, RevokeRemoteKeyKeeps, DeleteShadowKeyByIDKeeps, DropRevokedShadowKeyKeeps, CompleteCleanupHandoffKeeps
<1>9. CASE CleanupDuplicateAccessIdentity \/ DeleteDuplicateSecret \/ StripDuplicate \/ DropDuplicate
  <2>1. TypedAccess'
    BY <1>9, CleanupTypes
  <2> QED
    BY <1>9, <2>1, CleanupDuplicateKeeps, DuplicateGoesKeeps
<1> QED
  BY <1>1, <1>2, <1>3, <1>4, <1>5, <1>6, <1>7, <1>8, <1>9 DEF AccessSteps, GrantAccess

-----------------------------------------------------------------------------
(* What the scene says.                                                    *)

\* Legacy shadows are not made anew, no live access gets a key and no key
\* dies; a worker that has found a key keeps to it.
Serving == {"bind"} \cup Bounding
LiveKept ==
  \A a \in Access : access'[a].st = "live" => access[a].st = "live" /\ access'[a].id = access[a].id
KeysStay == \A k \in KIDs : LiveKey(k) => LiveKey(k)'
Calm ==
  /\ There(Name)' => There(Name)
  /\ LiveKept /\ KeysStay
  /\ aw'.pc \in Serving => aw.pc \in Serving /\ aw'.id = aw.id

LEMMA CalmServes ==
  ASSUME TypedAccess, LegacyScene, scene' = scene, Calm
  PROVE  LegacyScene'
<1>1. \A a \in Access : access[a].id \in KIDs
  BY DEF TypedAccess, Accesses
<1>2. aw.id \in KIDs
  BY DEF TypedAccess, AccessWorkers
<1>3. ASSUME scene = "legacy", NEW a \in Access, access'[a].st = "live", access'[a].id # 0 PROVE LiveKey(access[a].id)'
  <2>1. access[a].st = "live" /\ access'[a].id = access[a].id /\ LiveKey(access[a].id)
    BY <1>3 DEF Calm, LiveKept, LegacyScene, LegacyServed
  <2>2. PICK k \in KIDs : k = access[a].id
    BY <1>1
  <2>3. LiveKey(k)'
    BY <2>1, <2>2 DEF Calm, KeysStay
  <2> QED
    BY <2>1, <2>2, <2>3 DEF LiveKey
<1>4. ASSUME scene = "legacy", aw'.pc \in Serving PROVE LiveKey(aw.id)'
  <2>1. aw'.id = aw.id /\ LiveKey(aw.id)
    BY <1>4 DEF Calm, LegacyScene, LegacyServed, Serving
  <2>2. PICK k \in KIDs : k = aw.id
    BY <1>2
  <2>3. LiveKey(k)'
    BY <2>1, <2>2 DEF Calm, KeysStay
  <2> QED
    BY <2>1, <2>2, <2>3 DEF LiveKey
<1>5. There(Name)' => scene' = "legacy"
  BY DEF Calm, LegacyScene
<1> QED
  BY <1>3, <1>4, <1>5 DEF LegacyScene, LegacyServed, Serving, LiveKey

LEMMA SceneServed ==
  ASSUME LegacyScene, scene' = scene, There(Name)' => There(Name),
         scene = "legacy" =>
           /\ \A k \in KIDs, a \in Access : access'[a].st = "live" /\ access'[a].id = k /\ k # 0 => LiveKey(k)'
           /\ \A k \in KIDs : aw'.pc \in Serving /\ aw'.id = k => LiveKey(k)',
         \A a \in Access : access'[a].id \in KIDs, aw'.id \in KIDs
  PROVE  LegacyScene'
<1>1. ASSUME scene = "legacy", NEW a \in Access, access'[a].st = "live", access'[a].id # 0
      PROVE  accounts'.key[access'[a].id] = "live"
  <2>1. PICK k \in KIDs : k = access'[a].id
    OBVIOUS
  <2>2. LiveKey(k)'
    BY <1>1, <2>1
  <2> QED
    BY <2>1, <2>2 DEF LiveKey
<1>2. ASSUME scene = "legacy", aw'.pc \in Serving PROVE aw'.id # 0 /\ accounts'.key[aw'.id] = "live"
  <2>1. PICK k \in KIDs : k = aw'.id
    OBVIOUS
  <2>2. LiveKey(k)'
    BY <1>2, <2>1
  <2> QED
    BY <2>1, <2>2 DEF LiveKey
<1> QED
  BY <1>1, <1>2 DEF LegacyScene, LegacyServed, Serving, LiveKey

LEMMA FailCalm ==
  ASSUME TypedAccess, FailAccess
  PROVE  Calm
<1>1. AccessesKept /\ UNCHANGED <<keys, accounts>> /\ aw'.pc = "idle"
  BY AUnpublishKeeps DEF FailAccess, ADone, IdleAccess
<1> QED
  BY <1>1 DEF Calm, LiveKept, KeysStay, AccessesKept, LiveKey, There, Serving, Bounding

\* The steps that write no shadow and no key.
LEMMA LookingIsCalm ==
  ASSUME TypedAccess, AccessCore,
         \/ RefuseAccess \/ AddAccessFinalizer \/ ReserveAccessSecret \/ ResolveBuckets
         \/ LookupKey /\ aw'.pc # "bind"
         \/ DropTombstonedMaterial \/ (EnsureKeyReservationSecret /\ aw.sh.id # 0)
         \/ DeleteKeyReservationSecret \/ PopulateSecret \/ CompleteCleanupHandoff \/ DeleteDuplicateSecret
  PROVE  Calm
<1>1. CASE FailAccess
  BY <1>1, FailCalm
<1>2. ASSUME ~FailAccess PROVE Calm
  <2>1. UNCHANGED <<keys, accounts>> /\ LiveKept
    <3>0. access \in [Access -> Accesses] /\ aw.a \in Access
      BY DEF TypedAccess, AccessWorkers
    <3>1. CASE AddAccessFinalizer
      <4>1. /\ access' = access \/ access' = [access EXCEPT ![aw.a].fin = TRUE]
            /\ UNCHANGED <<keys, accounts>>
        BY <3>1 DEF AddAccessFinalizer
      <4> QED
        BY <3>0, <4>1 DEF LiveKept, Accesses
    <3>6. CASE RefuseAccess \/ ReserveAccessSecret \/ ResolveBuckets
      BY <1>2, <3>6 DEF RefuseAccess, ReserveAccessSecret, ResolveBuckets, LiveKept
    <3>2. CASE LookupKey
      BY <1>2, <3>2 DEF LookupKey, Found, LiveKept
    <3>3. CASE DropTombstonedMaterial \/ (EnsureKeyReservationSecret /\ aw.sh.id # 0) \/ DeleteKeyReservationSecret
      BY <1>2, <3>3 DEF DropTombstonedMaterial, EnsureKeyReservationSecret, DeleteKeyReservationSecret, LiveKept
    <3>4. CASE PopulateSecret \/ DeleteDuplicateSecret
      BY <1>2, <3>4 DEF PopulateSecret, DeleteDuplicateSecret, LiveKept
    <3>5. CASE CompleteCleanupHandoff
      BY <1>2, <3>5 DEF CompleteCleanupHandoff, HandOff, LiveKept, TypedAccess, Accesses, AccessWorkers
    <3> QED
      BY <3>1, <3>2, <3>3, <3>4, <3>5, <3>6
  <2>2. aw'.pc \in Serving => aw.pc \in Serving /\ aw'.id = aw.id
    <3>0. aw \in AccessWorkers
      BY DEF TypedAccess
    <3>1. CASE RefuseAccess \/ AddAccessFinalizer \/ ReserveAccessSecret \/ ResolveBuckets
      BY <1>2, <3>0, <3>1
         DEF RefuseAccess, AddAccessFinalizer, ReserveAccessSecret, ResolveBuckets, ADone, AGoTo, IdleAccess,
             Serving, Bounding, AccessWorkers
    <3>2. CASE LookupKey /\ aw'.pc # "bind"
      BY ZenonT(60), <1>2, <3>0, <3>2 DEF LookupKey, Found, AGoTo, Serving, Bounding, AccessWorkers
    <3>3. CASE DropTombstonedMaterial \/ (EnsureKeyReservationSecret /\ aw.sh.id # 0) \/ DeleteKeyReservationSecret
      BY <1>2, <3>0, <3>3
         DEF DropTombstonedMaterial, EnsureKeyReservationSecret, DeleteKeyReservationSecret, StepAccess, AGoTo,
             Serving, Bounding, AccessWorkers
    <3>4. CASE PopulateSecret \/ DeleteDuplicateSecret
      BY <1>2, <3>0, <3>4
         DEF PopulateSecret, DeleteDuplicateSecret, StepAccess, AGoTo, Serving, Bounding, AccessWorkers
    <3>5. CASE CompleteCleanupHandoff
      BY <1>2, <3>5 DEF CompleteCleanupHandoff, HandOff, ADone, IdleAccess, Serving, Bounding
    <3> QED
      BY <3>1, <3>2, <3>3, <3>4, <3>5
  <2> QED
    BY <2>1, <2>2 DEF Calm, KeysStay, LiveKey, There
<1> QED
  BY <1>1, <1>2

\* The steps that write the shadow they turned to or hold.
LEMMA WritingIsCalm ==
  ASSUME TypedAccess, AccessCore,
         \/ ReserveShadowKey \/ AnnotateReservation \/ BindShadowKey \/ RedrawKey
         \/ EnsureKeyReservationSecret /\ aw.sh.id = 0
  PROVE  Calm
<1>1. CASE FailAccess
  BY <1>1, FailCalm
<1>2. ASSUME ~FailAccess PROVE Calm
  <2>0. aw \in AccessWorkers /\ aw.who \in Identity /\ keys \in [Identity -> ShadowKeys]
    BY DEF TypedAccess, AccessWorkers
  <2>1. /\ accounts' = accounts
        /\ \/ AUnpublish /\ keys' = keys /\ aw'.pc = "idle"
           \/ /\ access' = access
              /\ \E sh, pc : /\ Hold(sh, pc)
                             /\ pc \in {"lookup", "material", "import"} \/ (pc = "perms" /\ aw.pc = "bind")
    <3>1. CASE ReserveShadowKey
      BY <1>2, <3>1 DEF ReserveShadowKey
    <3>2. CASE AnnotateReservation
      BY <1>2, <3>2 DEF AnnotateReservation, AccessCore, AccessKnown
    <3>3. CASE BindShadowKey
      BY <1>2, <3>3 DEF BindShadowKey, StepAccess
    <3>4. CASE RedrawKey \/ (EnsureKeyReservationSecret /\ aw.sh.id = 0)
      BY <1>2, <3>4 DEF RedrawKey, EnsureKeyReservationSecret, PersistShadowKeyStatusID, ADone, IdleAccess
    <3> QED
      BY <3>1, <3>2, <3>3, <3>4
  <2>2. aw.who = Name => There(Name)
    <3>1. aw.pc \in Entering \cup Granting
      BY DEF ReserveShadowKey, AnnotateReservation, BindShadowKey, RedrawKey, EnsureKeyReservationSecret,
             StepAccess, AccessCore, AccessKnown, Entering, Granting, Drawing
    <3> QED
      BY <3>1 DEF AccessCore, TurnKnown
  <2>3. CASE AUnpublish /\ keys' = keys /\ aw'.pc = "idle"
    BY <2>1, <2>3, AUnpublishKeeps
       DEF Calm, LiveKept, KeysStay, AccessesKept, LiveKey, There, Serving, Bounding
  <2>4. ASSUME access' = access, NEW sh, NEW pc, Hold(sh, pc),
               pc \in {"lookup", "material", "import"} \/ (pc = "perms" /\ aw.pc = "bind")
        PROVE  Calm
    <3>1. keys' = [keys EXCEPT ![aw.who] = sh] /\ aw' = [aw EXCEPT !.sh = sh, !.pc = pc]
      BY <2>4 DEF Hold
    <3>2. There(Name)' => There(Name)
      BY <2>0, <2>2, <3>1 DEF There
    <3>3. aw'.pc = pc /\ aw'.id = aw.id
      BY <2>0, <3>1 DEF AccessWorkers
    <3>4. aw'.pc \in Serving => aw.pc \in Serving
      BY <2>4, <3>3 DEF Serving, Bounding
    <3> QED
      BY <2>1, <2>4, <3>2, <3>3, <3>4 DEF Calm, LiveKept, KeysStay, LiveKey
  <2> QED
    BY <2>1, <2>3, <2>4
<1> QED
  BY <1>1, <1>2

\* The steps that take a shadow down, and the reconcile that records an owner.
LEMMA TakingIsCalm ==
  ASSUME TypedAccess, AccessCore,
         \/ \E a \in Access : ReconcileAccess(a)
         \/ StripStaleShadowKey \/ DeleteShadowKeyByID \/ StripDuplicate
         \/ DeleteStaleShadowKey \/ DropRevokedShadowKey \/ DropDuplicate
         \/ GiveUpKnown \/ CancelAccessProvisioning
  PROVE  Calm
<1>1. CASE FailAccess
  BY <1>1, FailCalm
<1>2. ASSUME ~FailAccess PROVE Calm
  <2>0. aw \in AccessWorkers /\ aw.who \in Identity /\ keys \in [Identity -> ShadowKeys] /\ aw.a \in Access
        /\ access \in [Access -> Accesses] /\ NoShadowKey.uid = 0
    BY DEF TypedAccess, AccessWorkers, NoShadowKey
  <2>1. CASE \E a \in Access : ReconcileAccess(a)
    <3>0. PICK a \in Access : ReconcileAccess(a)
      BY <2>1
    <3> DEFINE r == ResolveBucketAccessIdentity(a)
               p == Next1(a, r)
    <3>1. /\ UNCHANGED <<access, accounts>> /\ aw'.pc = p
          /\ keys' = IF r.win # 0 THEN [keys EXCEPT ![Name].owner = r.win] ELSE keys
      BY <3>0 DEF ReconcileAccess, IdleAccess
    <3> HIDE DEF r
    <3>2. There(Name)' => There(Name)
      BY <2>0, <3>1, Names DEF There, ShadowKeys
    <3>3. aw'.pc \in {"dup", "cancel", "handoff", "revoke", "refuse", "finalizer", "secret"}
      BY <3>1 DEF Next1
    <3> HIDE DEF p
    <3> QED
      BY <3>1, <3>2, <3>3 DEF Calm, LiveKept, KeysStay, LiveKey, Serving, Bounding
  <2>2. ASSUME NEW i \in Identity, NEW pc, StripShadowKey(i, pc), pc \in {"staleDelete", "revokeDelete", "dupDelete"}
        PROVE  Calm
    <3>1. /\ keys' = [keys EXCEPT ![i] = IF @.del THEN NoShadowKey ELSE [@ EXCEPT !.fin = FALSE]]
          /\ aw'.pc = pc /\ UNCHANGED <<access, accounts>>
      BY <2>0, <2>2 DEF StripShadowKey, AccessWorkers
    <3>2. There(Name)' => There(Name)
      BY <2>0, <3>1, Names DEF There, ShadowKeys
    <3> QED
      BY <2>2, <3>1, <3>2 DEF Calm, LiveKept, KeysStay, LiveKey, Serving, Bounding
  <2>3. CASE StripStaleShadowKey \/ DeleteShadowKeyByID \/ StripDuplicate
    <3>1. \/ \E i \in Identity, pc \in {"staleDelete", "revokeDelete", "dupDelete"} : StripShadowKey(i, pc)
          \/ aw'.pc = "handoff" /\ UNCHANGED <<access, keys, accounts>>
      BY <1>2, <2>0, <2>3 DEF StripStaleShadowKey, DeleteShadowKeyByID, StripDuplicate, AGoTo, AccessWorkers
    <3>2. CASE aw'.pc = "handoff" /\ UNCHANGED <<access, keys, accounts>>
      BY <3>2 DEF Calm, LiveKept, KeysStay, LiveKey, There, Serving, Bounding
    <3> QED
      BY <2>2, <3>1, <3>2
  <2>4. ASSUME There(Name)' => There(Name), LiveKept, accounts' = accounts, aw'.pc \in {"idle", "handoff"}
        PROVE  Calm
    BY <2>4 DEF Calm, KeysStay, LiveKey, Serving, Bounding
  <2>5. CASE DeleteStaleShadowKey \/ DropRevokedShadowKey \/ DropDuplicate
    <3>1. DropShadowKey /\ AccessesKept /\ aw'.pc \in {"idle", "handoff"}
      BY <2>0, <2>5, AUnpublishKeeps
         DEF DeleteStaleShadowKey, DropRevokedShadowKey, DropDuplicate, ADone, IdleAccess, AGoTo, AccessWorkers, AccessesKept
    <3>2. keys' = keys \/ keys' = [keys EXCEPT ![aw.who] = RemoveKey(@)]
      BY <3>1 DEF DropShadowKey
    <3>3. There(Name)' => There(Name)
      BY <2>0, <3>2, Names DEF There, RemoveKey, ShadowKeys
    <3> QED
      BY <2>4, <3>1, <3>3 DEF DropShadowKey, AccessesKept, LiveKept
  <2>6. CASE GiveUpKnown \/ CancelAccessProvisioning
    <3>1. /\ keys' = keys \/ RequestDeleteKey(aw.who)
          /\ accounts' = accounts /\ aw'.pc = "idle"
      BY <2>6 DEF GiveUpKnown, CancelAccessProvisioning, HandOff, ADone, IdleAccess
    <3>2. LiveKept
      <4>1. CASE AUnpublish
        BY <4>1, AUnpublishKeeps DEF AccessesKept, LiveKept
      <4>2. CASE HandOff
        BY <2>0, <4>2 DEF HandOff, LiveKept, Accesses
      <4> QED
        BY <2>6, <4>1, <4>2 DEF GiveUpKnown, CancelAccessProvisioning, LiveKept
    <3>3. There(Name)' => There(Name)
      BY <2>0, <3>1, Names DEF There, RequestDeleteKey, RemoveKey, ShadowKeys
    <3> QED
      BY <2>4, <3>1, <3>2, <3>3
  <2> QED
    BY <2>1, <2>3, <2>5, <2>6
<1> QED
  BY <1>1, <1>2

\* The steps of the key controller and of everybody else that destroy no key.
LEMMA OthersAreCalm ==
  ASSUME TypedAccess, AccessCore,
         \/ ReconcilePendingKey \/ RestoreKeyFinalizer \/ ReconcileBoundKey
         \/ \E a \in Access : DeleteAccess(a) \/ UpstreamReleases(a) \/ ReplaceSecret(a)
         \/ CrashAccess \/ ReconcileCOSIKeyPermissions
  PROVE  Calm
<1>1. CASE ReconcilePendingKey \/ RestoreKeyFinalizer
  <2>1. PICK i \in Identity : keys[i].uid # 0 /\ keys' = [keys EXCEPT ![i].fin = TRUE]
    BY <1>1 DEF ReconcilePendingKey, RestoreKeyFinalizer
  <2>2. There(Name)' => There(Name)
    BY <2>1 DEF There, TypedAccess, ShadowKeys
  <2> QED
    BY <1>1, <2>2
       DEF ReconcilePendingKey, RestoreKeyFinalizer, KeyWorkerRest, Calm, LiveKept, KeysStay, LiveKey
<1>2. CASE ReconcileBoundKey
  <2>1. PICK k \in KIDs : accounts' = [accounts EXCEPT !.perm[k] = Want]
    BY <1>2 DEF ReconcileBoundKey, ExactKeyPermissions, TypedAccess, ShadowKeys
  <2>2. accounts'.key = accounts.key
    BY <2>1 DEF TypedAccess, Accounts
  <2> QED
    BY <1>2, <2>2 DEF ReconcileBoundKey, KeyWorkerRest, Calm, LiveKept, KeysStay, LiveKey, There
<1>3. CASE ReconcileCOSIKeyPermissions
  <2>1. CASE FailAccess
    BY <2>1, FailCalm
  <2>2. ASSUME ~FailAccess PROVE Calm
    <3>1. accounts' = [accounts EXCEPT !.perm[aw.id] = Want] /\ UNCHANGED <<access, keys>>
          /\ aw.pc = "perms" /\ aw' = [aw EXCEPT !.pc = "unreserve"]
      BY <1>3, <2>2 DEF ReconcileCOSIKeyPermissions, ExactKeyPermissions, StepAccess, AGoTo
    <3>2. accounts'.key = accounts.key /\ aw'.id = aw.id
      BY <3>1 DEF TypedAccess, Accounts, AccessWorkers
    <3> QED
      BY <3>1, <3>2 DEF Calm, LiveKept, KeysStay, LiveKey, There, Serving, Bounding
  <2> QED
    BY <2>1, <2>2
<1>4. ASSUME NEW a \in Access, DeleteAccess(a) \/ UpstreamReleases(a) PROVE Calm
  <2>1. /\ access'[a].st # "live" /\ \A b \in Access \ {a} : access'[b] = access[b]
        /\ UNCHANGED <<keys, accounts, aw>>
    BY <1>4 DEF DeleteAccess, UpstreamReleases, TypedAccess, Accesses, NoAccess
  <2> QED
    BY <2>1 DEF Calm, LiveKept, KeysStay, LiveKey, There
<1>5. ASSUME NEW a \in Access, ReplaceSecret(a) PROVE Calm
  BY <1>5 DEF ReplaceSecret, Calm, LiveKept, KeysStay, LiveKey, There
<1>6. CASE CrashAccess
  BY <1>6 DEF CrashAccess, ADone, IdleAccess, Calm, LiveKept, KeysStay, LiveKey, There, Serving, Bounding
<1> QED
  BY <1>1, <1>2, <1>3, <1>4, <1>5, <1>6

\* The steps that find, publish or destroy a key.
LEMMA FindingServes ==
  ASSUME TypedAccess, AccessCore, LegacyScene, scene' = scene, TypedAccess',
         (LookupKey /\ aw'.pc = "bind") \/ ImportReservedKey \/ PublishAccessStatus
  PROVE  LegacyScene'
<1>0. aw \in AccessWorkers /\ access \in [Access -> Accesses] /\ aw.a \in Access /\ accounts \in Accounts
      /\ (\A a \in Access : access'[a].id \in KIDs) /\ aw'.id \in KIDs
  BY DEF TypedAccess, AccessWorkers, Accesses
<1>1. CASE FailAccess
  BY <1>1, FailCalm, CalmServes
<1>2. CASE LookupKey /\ aw'.pc = "bind" /\ ~FailAccess
  <2>1. PICK k : LiveKey(k) /\ aw' = [aw EXCEPT !.pc = "bind", !.id = k] /\ UNCHANGED <<access, keys, accounts>>
    BY <1>0, <1>2 DEF LookupKey, Found, AGoTo, AccessWorkers
  <2>2. aw'.id = k
    BY <1>0, <2>1 DEF AccessWorkers
  <2>3. scene = "legacy" => \A a \in Access : access[a].st = "live" /\ access[a].id # 0 => LiveKey(access[a].id)
    BY DEF LegacyScene, LegacyServed
  <2> QED
    BY <1>0, <2>1, <2>2, <2>3, SceneServed DEF There, LiveKey
<1>3. CASE ImportReservedKey /\ ~FailAccess
  <2>1. /\ accounts' = [accounts EXCEPT !.key[aw.id] = "live"] /\ aw' = [aw EXCEPT !.pc = "bind"]
        /\ UNCHANGED <<access, keys>> /\ aw.pc = "import"
    BY <1>3 DEF ImportReservedKey, StepAccess, AGoTo
  <2>2. aw.id # 0 /\ aw.id \in KeyId /\ aw'.id = aw.id
    BY <1>0, <2>1 DEF AccessCore, HoldKnown, AccessWorkers, KIDs
  <2>3. accounts'.key[aw.id] = "live" /\ \A k \in KeyId : accounts.key[k] = "live" => accounts'.key[k] = "live"
    BY <1>0, <2>1, <2>2 DEF Accounts
  <2>4. \A k \in KIDs : LiveKey(k) => LiveKey(k)'
    BY <2>3 DEF LiveKey, KIDs
  <2>5. scene = "legacy" => \A a \in Access : access[a].st = "live" /\ access[a].id # 0 => LiveKey(access[a].id)
    BY DEF LegacyScene, LegacyServed
  <2>6. \A k \in KIDs : aw'.id = k => LiveKey(k)'
    BY <2>2, <2>3 DEF LiveKey
  <2>7. There(Name)' => There(Name)
    BY <2>1 DEF There
  <2> QED
    BY <1>0, <2>1, <2>4, <2>5, <2>6, <2>7, SceneServed
<1>4. CASE PublishAccessStatus
  <2>1. /\ access' = IF access[aw.a].st = "live"
                     THEN [access EXCEPT ![aw.a].id = aw.id, ![aw.a].ready = TRUE] ELSE access
        /\ aw'.pc = "idle" /\ UNCHANGED <<keys, accounts>> /\ aw.pc = "status"
    BY <1>4 DEF PublishAccessStatus, StepAccess, ADone, IdleAccess
  <2>2. \A a \in Access : access'[a].st = access[a].st /\ access'[a].id \in {access[a].id, aw.id}
    BY <1>0, <2>1 DEF Accesses
  <2>3. scene = "legacy" => LiveKey(aw.id)
    BY <2>1 DEF LegacyScene, LegacyServed, Bounding
  <2>4. scene = "legacy" => \A a \in Access : access[a].st = "live" /\ access[a].id # 0 => LiveKey(access[a].id)
    BY DEF LegacyScene, LegacyServed
  <2>5. /\ \A k \in KIDs : LiveKey(k)' = LiveKey(k)
        /\ There(Name)' = There(Name)
        /\ aw'.pc \notin Serving
    BY <2>1 DEF LiveKey, There, Serving, Bounding
  <2> QED
    BY <1>0, <2>2, <2>3, <2>4, <2>5, SceneServed
<1> QED
  BY <1>1, <1>2, <1>3, <1>4
LEMMA DroppingServes ==
  ASSUME TypedAccess, AccessCore, LegacyScene, scene' = scene, TypedAccess', NEW k \in KIDs,
         accounts' = DropKey(accounts, k),
         \A a \in Access : access'[a].st = access[a].st /\ access'[a].id = access[a].id,
         There(Name)' => There(Name),
         \/ \A a \in Access : access[a].st = "live" => access[a].id # k
         \/ ~LiveKey(k) \/ scene # "legacy",
         aw'.pc \in Serving => aw.pc \in Serving /\ aw'.id = aw.id /\ (aw.id # k \/ ~LiveKey(k) \/ scene # "legacy")
  PROVE  LegacyScene'
<1>0. (\A a \in Access : access'[a].id \in KIDs) /\ aw'.id \in KIDs /\ accounts \in Accounts
  BY DEF TypedAccess, AccessWorkers, Accesses
<1>1. \A j \in KIDs : LiveKey(j) /\ j # k => LiveKey(j)'
  BY <1>0 DEF LiveKey, DropKey, Accounts, KIDs
<1>2. scene = "legacy" => \A a \in Access : access[a].st = "live" /\ access[a].id # 0 => LiveKey(access[a].id)
  BY DEF LegacyScene, LegacyServed
<1>3. scene = "legacy" /\ aw.pc \in Serving => LiveKey(aw.id)
  BY DEF LegacyScene, LegacyServed, Serving
<1>4. ASSUME scene = "legacy", NEW j \in KIDs, NEW a \in Access, access'[a].st = "live", access'[a].id = j, j # 0
      PROVE  LiveKey(j)'
  <2>1. access[a].st = "live" /\ access[a].id = j
    BY <1>4
  <2>2. LiveKey(j)
    BY <1>2, <1>4, <2>1
  <2>3. j # k
    BY <1>4, <2>1, <2>2
  <2> QED
    BY <1>1, <2>2, <2>3
<1>5. ASSUME scene = "legacy", NEW j \in KIDs, aw'.pc \in Serving, aw'.id = j PROVE LiveKey(j)'
  <2>1. aw.id = j /\ LiveKey(j)
    BY <1>3, <1>5
  <2> QED
    BY <1>1, <1>5, <2>1
<1> QED
  BY <1>0, <1>4, <1>5, SceneServed
LEMMA DestroyingServes ==
  ASSUME TypedAccess, AccessCore, LegacyScene, scene' = scene, TypedAccess',
         RevokeRemoteKey \/ CleanupDuplicateAccessIdentity \/ FinalizeShadowKey \/ LoseKey
  PROVE  LegacyScene'
<1>0. aw \in AccessWorkers /\ aw.a \in Access /\ aw.who \in Identity /\ aw.known \in KIDs
      /\ keys \in [Identity -> ShadowKeys] /\ (\A i \in Identity : keys[i].id \in KIDs)
  BY DEF TypedAccess, AccessWorkers, ShadowKeys
<1>1. CASE FailAccess
  BY <1>1, FailCalm, CalmServes
<1>2. CASE RevokeRemoteKey /\ ~FailAccess
  <2>1. /\ accounts' = DropKey(accounts, aw.known) /\ aw' = [aw EXCEPT !.pc = "revokeShadow"]
        /\ UNCHANGED <<access, keys>> /\ aw.pc = "revoke"
    BY <1>2 DEF RevokeRemoteKey, StepAccess, AGoTo
  <2>2. ~LiveKey(aw.known) \/ \A a \in Access : access[a].st = "live" => access[a].id # aw.known
    BY <2>1 DEF AccessCore, AccessKnown, Revoking
  <2>3. aw'.pc \notin Serving
    BY <1>0, <2>1 DEF AccessWorkers, Serving, Bounding
  <2> QED
    BY <1>0, <2>1, <2>2, <2>3, DroppingServes DEF There
<1>3. CASE CleanupDuplicateAccessIdentity /\ ~FailAccess
  <2>0. aw.pc = "dup" /\ UNCHANGED access
    BY <1>3 DEF CleanupDuplicateAccessIdentity, StepAccess
  <2>1. CASE Sh.id = 0
    <3>1. RequestDeleteKey(aw.who) /\ aw'.pc = "idle" /\ UNCHANGED accounts
      BY <1>3, <2>1 DEF CleanupDuplicateAccessIdentity, ADone, IdleAccess
    <3>2. There(Name)' => There(Name)
      BY <1>0, <3>1, Names DEF There, RequestDeleteKey, RemoveKey, NoShadowKey, ShadowKeys
    <3>3. Calm
      BY <2>0, <3>1, <3>2 DEF Calm, LiveKept, KeysStay, LiveKey, Serving, Bounding
    <3> QED
      BY <3>3, CalmServes
  <2>2. CASE Sh.id # 0
    <3>1. /\ accounts' = DropKey(accounts, keys[aw.who].id) /\ aw'.pc = "dupSecret" /\ UNCHANGED keys
      BY <1>0, <1>3, <2>2 DEF CleanupDuplicateAccessIdentity, Sh, AccessWorkers
    <3>2. PICK a \in Access, k \in KIDs : a = aw.a /\ a = aw.who /\ k = keys[a].id /\ k # 0
      BY <1>0, <2>0, <2>2 DEF AccessCore, AccessKnown, Duplicate, Sh
    <3>3. There(a) /\ Ids(keys[a]) # {aw.known} /\ access[a].id = aw.known
      BY <2>0, <3>2, Names DEF AccessCore, AccessKnown, KeyForm, There, NoShadowKey
    <3>4. ASSUME LiveKey(k), NEW b \in Access, access[b].st = "live", access[b].id = k PROVE FALSE
      <4>1. k \in Ids(keys[a])
        BY <3>2 DEF Ids
      <4>2. b = a
        BY <3>4, <4>1, Names DEF AccessCore, KeysDiffer
      <4>3. keys[a].ann = keys[a].id
        BY <3>2, <3>4, Names DEF AccessCore, KeyForm
      <4>4. Ids(keys[a]) = {k}
        BY <3>2, <4>3 DEF Ids
      <4> QED
        BY <3>3, <3>4, <4>2, <4>4
    <3>5. aw'.pc \notin Serving
      BY <3>1 DEF Serving, Bounding
    <3>6. There(Name)' => There(Name)
      BY <3>1 DEF There
    <3>7. accounts' = DropKey(accounts, k)
      BY <3>1, <3>2
    <3> QED
      BY <2>0, <3>4, <3>5, <3>6, <3>7, DroppingServes
  <2> QED
    BY <2>1, <2>2
<1>4. CASE FinalizeShadowKey
  <2>1. PICK i \in Identity : /\ keys[i].del /\ UNCHANGED <<access, aw>>
                              /\ accounts' = IF keys[i].id = 0 THEN accounts ELSE DropKey(accounts, keys[i].id)
                              /\ keys' = [keys EXCEPT ![i] = NoShadowKey]
    BY <1>4 DEF FinalizeShadowKey, KeyWorkerRest
  <2>2. There(Name)' => There(Name)
    BY <1>0, <2>1, Names DEF There, NoShadowKey
  <2>3. CASE keys[i].id = 0
    <3>1. Calm
      BY <2>1, <2>2, <2>3 DEF Calm, LiveKept, KeysStay, LiveKey
    <3> QED
      BY <3>1, CalmServes
  <2>4. CASE keys[i].id # 0
    <3>1. PICK k \in KIDs : k = keys[i].id
      BY <1>0
    <3>2. k \in Ids(keys[i])
      BY <2>4, <3>1 DEF Ids
    <3>3. ASSUME LiveKey(k), NEW a \in Access, access[a].st = "live", access[a].id = k PROVE FALSE
      <4>1. CASE i \in Access
        BY <2>1, <3>1, <3>2, <3>3, <4>1, Names DEF AccessCore, KeysDiffer
      <4>2. CASE i = Name
        <5>1. GivenUp
          BY <2>1, <4>2 DEF AccessCore, LegacyForm
        <5>2. ~Bound(Name)
          BY <3>1, <3>3, <4>2, <5>1 DEF GivenUp
        <5>3. keys[Name].state = "Pending"
          BY <1>0, <5>2, Names DEF Bound, ShadowKeys
        <5> QED
          BY <3>2, <3>3, <4>2, <5>3, Names DEF AccessCore, KeysDiffer
      <4> QED
        BY <4>1, <4>2, Names
    <3>4. aw.pc \in Serving => aw.id # k
      <4>1. ASSUME aw.pc \in Serving PROVE aw.id # k
        <5>1. ~keys[aw.who].del /\ aw.sh = keys[aw.who] /\ aw.id # 0 /\ aw.sh.id = aw.id
          BY <4>1 DEF AccessCore, HoldKnown, Serving, Granting
        <5>2. aw.who # i /\ aw.id \in Ids(keys[aw.who])
          BY <2>1, <5>1 DEF Ids
        <5> QED
          BY <1>0, <3>2, <5>2 DEF AccessCore, KeysDiffer
      <4> QED
        BY <4>1
    <3>5. accounts' = DropKey(accounts, k)
      BY <2>1, <2>4, <3>1
    <3> QED
      BY <2>1, <2>2, <3>3, <3>4, <3>5, DroppingServes
  <2> QED
    BY <2>3, <2>4
<1>5. CASE LoseKey
  BY <1>5, TypedAccess' DEF LoseKey, LegacyScene, LegacyServed, There
<1> QED
  BY <1>1, <1>2, <1>3, <1>4, <1>5

LEMMA LegacyStays ==
  ASSUME TypedAccess, AccessCore, LegacyScene, TypedAccess', AccessStep
  PROVE  LegacyScene'
<1>0. scene' = scene
  BY AccessesReadOnly
<1>1. CASE \E a \in Access : ReconcileAccess(a)
  BY <1>0, <1>1, TakingIsCalm, CalmServes
<1>2. CASE AccessSteps
  <2>1. CASE RefuseAccess \/ AddAccessFinalizer \/ ReserveAccessSecret \/ ResolveBuckets
             \/ PopulateSecret \/ CompleteCleanupHandoff \/ DeleteDuplicateSecret
    BY <1>0, <2>1, LookingIsCalm, CalmServes
  <2>2. CASE PublishAccessStatus \/ ImportReservedKey
    BY <1>0, <2>2, FindingServes
  <2>3. CASE LookupKey
    BY <1>0, <2>3, FindingServes, LookingIsCalm, CalmServes
  <2>4. CASE EnsureKeyReservationSecret
    BY <1>0, <2>4, WritingIsCalm, LookingIsCalm, CalmServes
  <2>5. CASE ReserveShadowKey \/ AnnotateReservation \/ BindShadowKey \/ RedrawKey
    BY <1>0, <2>5, WritingIsCalm, CalmServes
  <2>6. CASE DropTombstonedMaterial \/ DeleteKeyReservationSecret
    BY <1>0, <2>6, LookingIsCalm, CalmServes
  <2>7. CASE ReconcileCOSIKeyPermissions
    BY <1>0, <2>7, OthersAreCalm, CalmServes
  <2>8. CASE StripStaleShadowKey \/ DeleteShadowKeyByID \/ StripDuplicate
             \/ DeleteStaleShadowKey \/ DropRevokedShadowKey \/ DropDuplicate
             \/ GiveUpKnown \/ CancelAccessProvisioning
    BY <1>0, <2>8, TakingIsCalm, CalmServes
  <2>9. CASE RevokeRemoteKey \/ CleanupDuplicateAccessIdentity
    BY <1>0, <2>9, DestroyingServes
  <2> QED
    BY <1>2, <2>1, <2>2, <2>3, <2>4, <2>5, <2>6, <2>7, <2>8, <2>9 DEF AccessSteps, GrantAccess
<1>3. CASE KeyWorker
  BY <1>0, <1>3, OthersAreCalm, CalmServes, DestroyingServes DEF KeyWorker
<1>4. CASE AccessEnvironment
  BY <1>0, <1>4, OthersAreCalm, CalmServes, DestroyingServes DEF AccessEnvironment
<1> QED
  BY <1>1, <1>2, <1>3, <1>4 DEF AccessStep

\* The steps of the Bucket controller do not touch the accesses.
LEMMA UnchangedKeeps ==
  ASSUME AccessInv, UNCHANGED cosiAccessVars, scene' = scene
  PROVE  AccessInv'
<1>0. TypedAccess /\ AccessCore
  BY DEF AccessInv
<1>1. UNCHANGED <<access, keys, rsv, secret, accounts, aw>>
  BY DEF cosiAccessVars
<1>2. AccessesKept
  BY <1>1 DEF AccessesKept
<1>3. ObjectForms' /\ LegacyForm'
  BY <1>0, <1>1, <1>2, StayingKeeps
<1>4. AccessKnown' /\ TurnKnown' /\ HoldKnown'
  BY <1>0, <1>1
     DEF AccessCore, AccessKnown, TurnKnown, HoldKnown, Owns, Exists, There, Bound, Authority, Ids, LiveKey, Doomed
<1>5. TypedAccess'
  BY <1>0, <1>1 DEF TypedAccess
<1>6. LegacyScene'
  BY <1>1 DEF AccessInv, LegacyScene, LegacyServed, LiveKey, There
<1> QED
  BY <1>3, <1>4, <1>5, <1>6 DEF AccessInv, AccessCore, ObjectForms

LEMMA StepKeepsAccess ==
  ASSUME AccessInv, Next
  PROVE  AccessInv'
<1>0. TypedAccess /\ AccessCore /\ LegacyScene
  BY DEF AccessInv
<1>1. CASE AccessStep
  <2>1. ASSUME (\E a \in Access : ReconcileAccess(a)) \/ AccessSteps PROVE TypedAccess' /\ AccessCore'
    BY <1>0, <2>1, WorkerKeeps
  <2>2. ASSUME KeyWorker PROVE TypedAccess' /\ AccessCore'
    BY <1>0, <2>2, KeyWorkerKeeps, OutsideAccessTypes
  <2>3. ASSUME AccessEnvironment PROVE TypedAccess' /\ AccessCore'
    <3>1. AccessCore'
      BY <1>0, <2>3, DeleteAccessKeeps, UpstreamReleasesKeeps, ReplaceSecretKeeps, LoseKeyKeeps, CrashAccessKeeps
         DEF AccessEnvironment
    <3> QED
      BY <1>0, <2>3, <3>1, OutsideAccessTypes
  <2>4. TypedAccess' /\ AccessCore'
    BY <1>1, <2>1, <2>2, <2>3 DEF AccessStep
  <2> QED
    BY <1>0, <1>1, <2>4, LegacyStays DEF AccessInv
<1>2. CASE BucketStep
  BY <1>2, BucketStepForm, UnchangedKeeps DEF BucketStep
<1> QED
  BY <1>1, <1>2 DEF Next

-----------------------------------------------------------------------------
(* The initial states.                                                     *)

\* Nothing is reconciled yet and no Secret is written.
LEMMA StartsIdle ==
  ASSUME Init
  PROVE  /\ secret \in [Access -> Secrets] /\ aw \in AccessWorkers /\ aw.pc = "idle"
         /\ \A a \in Access : secret[a].id = 0
         /\ AccessKnown /\ TurnKnown /\ HoldKnown /\ SecretForm
<1>1. secret = [a \in Access |-> [by |-> 0, id |-> 0]] /\ aw = IdleAccess
  BY DEF Init
<1>2. [by |-> 0, id |-> 0] \in Secrets
  BY DEF Secrets, KIDs, Name
<1>3. secret \in [Access -> Secrets] /\ \A a \in Access : secret[a].id = 0
  BY <1>1, <1>2
<1>4. aw.pc = "idle" /\ aw \in AccessWorkers
  BY <1>1, Blank DEF IdleAccess
<1>5. AccessKnown /\ TurnKnown /\ HoldKnown
  BY <1>4, Points DEF AccessKnown, TurnKnown, HoldKnown, Entering, Granting, Drawing, Bounding, Revoking, Duplicate
<1> QED
  BY <1>3, <1>4, <1>5 DEF SecretForm

\* The fields of the initial objects.
LEMMA InitialObjects ==
  /\ NoAccess \in Accesses /\ NewAccess \in Accesses /\ LegacyAccess \in Accesses
  /\ NoAccess.st = "none" /\ NoAccess.id = 0 /\ NoAccess.handed = FALSE
  /\ NewAccess.st = "live" /\ NewAccess.id = 0 /\ NewAccess.handed = FALSE
  /\ LegacyAccess.st = "live" /\ LegacyAccess.id = Legacy /\ LegacyAccess.handed = FALSE
  /\ Legacy \in KeyId /\ 2 \in KeyId /\ Legacy \in KIDs /\ 2 \in KIDs /\ 0 \in KIDs /\ Legacy # 0 /\ Legacy # 2
  /\ NoShadowKey.uid = 0 /\ NoShadowKey.del = FALSE /\ NoShadowKey.state = "Pending" /\ NoShadowKey.ann = 0
  /\ NoShadowKey.id = 0 /\ NoShadowKey.label = FALSE /\ NoShadowKey.owner = 0
<1>1. Legacy \in KeyId /\ 2 \in KeyId /\ Legacy \in KIDs /\ 2 \in KIDs /\ 0 \in KIDs /\ Legacy # 0 /\ Legacy # 2
  BY CosiAccessAssumption DEF KeyId, KIDs, Legacy
<1> QED
  BY <1>1 DEF NoAccess, NewAccess, LegacyAccess, Accesses, NoShadowKey

\* A legacy shadow, bound or pending.
LEMMA InitialShadow ==
  ASSUME NEW state \in {"Pending", "Bound"}
  PROVE  /\ LegacyShadow(state) \in ShadowKeys /\ LegacyShadow(state).uid = 1 /\ LegacyShadow(state).del = FALSE
         /\ LegacyShadow(state).fin = TRUE /\ LegacyShadow(state).state = state
         /\ LegacyShadow(state).ann = Legacy /\ LegacyShadow(state).id = Legacy
         /\ LegacyShadow(state).label = (state = "Bound") /\ LegacyShadow(state).owner = 0
<1> DEFINE b == state = "Bound"
<1>1. b \in BOOLEAN
  OBVIOUS
<1>2. Legacy \in KIDs /\ 0 \in KIDs
  BY InitialObjects
<1>3. LegacyShadow(state) = [ShadowKey(1) EXCEPT !.state = state, !.id = Legacy, !.ann = Legacy, !.label = b]
  BY DEF LegacyShadow
<1> HIDE DEF b
<1>4. /\ LegacyShadow(state) \in ShadowKeys /\ LegacyShadow(state).uid = 1 /\ LegacyShadow(state).del = FALSE
      /\ LegacyShadow(state).fin = TRUE /\ LegacyShadow(state).state = state
      /\ LegacyShadow(state).ann = Legacy /\ LegacyShadow(state).id = Legacy
      /\ LegacyShadow(state).label = b /\ LegacyShadow(state).owner = 0
  <2>1. ShadowKey(1) \in ShadowKeys /\ ShadowKey(1).uid = 1 /\ ShadowKey(1).del = FALSE /\ ShadowKey(1).fin = TRUE
        /\ ShadowKey(1).owner = 0
    BY <1>2, Blank, InitialObjects, 1 \in 0..4 DEF ShadowKeys, ShadowKey
  <2>2. LegacyShadow(state).label = b /\ LegacyShadow(state) \in ShadowKeys
    BY <1>1, <1>2, <1>3, <2>1 DEF ShadowKeys
  <2> QED
    BY <1>3, <2>1, <2>2 DEF ShadowKeys
<1> QED
  BY <1>4 DEF b

\* No access has a key yet.
LEMMA NoKeyStart ==
  ASSUME Init, keys = [i \in Identity |-> NoShadowKey], accounts = NoKeys, access \in [Access -> Accesses],
         \A a \in Access : access[a].id = 0 /\ access[a].handed = FALSE
  PROVE  KeyForm /\ KeysDiffer /\ KeyTracking /\ AccessForm /\ Sharing /\ LegacyForm
<1>1. \A i \in Identity : keys[i] = NoShadowKey /\ ~There(i) /\ ~Bound(i) /\ Ids(keys[i]) = {}
  BY InitialObjects DEF There, Bound, Ids
<1>2. \A k \in KeyId : ~LiveKey(k)
  BY DEF NoKeys, LiveKey
<1>3. KeyForm
  BY <1>1, <1>2, InitialObjects DEF KeyForm, LiveKey
<1>4. KeysDiffer /\ KeyTracking
  BY <1>1, <1>2, Names DEF KeysDiffer, KeyTracking
<1>5. AccessForm /\ Sharing
  BY <1>1, Names DEF AccessForm, Sharing, Owns
<1>6. LegacyForm
  BY <1>1, Names, InitialObjects DEF LegacyForm
<1> QED
  BY <1>3, <1>4, <1>5, <1>6

\* Two accesses share a bound key, one of them perhaps with a key of its own.
LEMMA SharedStart ==
  ASSUME Init, keys \in [Identity -> ShadowKeys], access \in [Access -> Accesses], accounts \in Accounts,
         \A a \in Access : access[a].id = Legacy /\ access[a].st = "live" /\ access[a].handed = FALSE,
         keys[2] = NoShadowKey,
         keys[Name].uid = 1, keys[Name].del = FALSE, keys[Name].fin = TRUE, keys[Name].state = "Bound",
         keys[Name].ann = Legacy, keys[Name].id = Legacy, keys[Name].label = TRUE,
         accounts.key[Legacy] = "live", \A k \in KeyId \ {Legacy, 2} : accounts.key[k] = "free",
         \/ keys[1] = NoShadowKey /\ accounts.key[2] = "free"
         \/ /\ keys[1].uid = 2 /\ keys[1].del = FALSE /\ keys[1].fin = TRUE /\ keys[1].state = "Bound"
            /\ keys[1].ann = 2 /\ keys[1].id = 2 /\ keys[1].label = TRUE /\ keys[1].owner = 0
            /\ accounts.key[2] = "live"
  PROVE  KeyForm /\ KeysDiffer /\ KeyTracking /\ AccessForm /\ Sharing /\ LegacyForm
<1>1. /\ \A a \in Access : access[a].id = Legacy /\ access[a].st = "live" /\ access[a].handed = FALSE /\ Owns(a)
      /\ \A a \in Access : secret[a].id = 0
  BY StartsIdle DEF Owns, Exists
<1>2. /\ 1 \in Identity /\ 2 \in Identity /\ Name \in Identity /\ 1 # 2 /\ 1 # Name /\ 2 # Name /\ Legacy # 2 /\ Legacy # 0
      /\ \A i \in Identity : i = 1 \/ i = 2 \/ i = Name
  BY Names, InitialObjects DEF Name
<1>3. Ids(keys[Name]) = {Legacy} /\ Ids(keys[2]) = {} /\ Ids(keys[1]) \subseteq {2}
  BY <1>2, InitialObjects DEF Ids
<1>4. /\ \A i \in Identity : keys[i].del = FALSE
      /\ \A i \in Identity : Ids(keys[i]) # {} => keys[i].state = "Bound" /\ keys[i].uid # 0
  BY <1>2, <1>3, InitialObjects
<1>5. KeyForm
  <2>1. ASSUME NEW i \in Identity, keys[i] = NoShadowKey
        PROVE  /\ keys[i].uid = 0 => keys[i] = NoShadowKey
               /\ There(i) /\ ~keys[i].fin => ~keys[i].del /\ ~LiveKey(keys[i].id)
               /\ Bound(i) <=> keys[i].label = TRUE
               /\ Bound(i) => keys[i].ann # 0 /\ keys[i].id = keys[i].ann /\ accounts.key[keys[i].id] # "free"
               /\ keys[i].ann # 0 => keys[i].id # 0
               /\ LiveKey(keys[i].id) => keys[i].ann = keys[i].id
               /\ i \in Access => keys[i].owner = 0 /\ Legacy \notin Ids(keys[i])
    BY <2>1, InitialObjects DEF There, Bound, LiveKey, Ids
  <2>2. ASSUME NEW i \in Identity, keys[i].uid # 0, keys[i].fin = TRUE, keys[i].state = "Bound", keys[i].label = TRUE,
               keys[i].ann = keys[i].id, keys[i].id # 0, accounts.key[keys[i].id] = "live",
               i \in Access => keys[i].owner = 0 /\ Legacy \notin Ids(keys[i])
        PROVE  /\ keys[i].uid = 0 => keys[i] = NoShadowKey
               /\ There(i) /\ ~keys[i].fin => ~keys[i].del /\ ~LiveKey(keys[i].id)
               /\ Bound(i) <=> keys[i].label = TRUE
               /\ Bound(i) => keys[i].ann # 0 /\ keys[i].id = keys[i].ann /\ accounts.key[keys[i].id] # "free"
               /\ keys[i].ann # 0 => keys[i].id # 0
               /\ LiveKey(keys[i].id) => keys[i].ann = keys[i].id
               /\ i \in Access => keys[i].owner = 0 /\ Legacy \notin Ids(keys[i])
    BY <2>2 DEF There, Bound, LiveKey
  <2>3. Name \notin Access /\ Legacy \notin Ids(keys[1])
    BY <1>2, <1>3, Names
  <2>4. ASSUME NEW i \in Identity
        PROVE  \/ keys[i] = NoShadowKey
               \/ /\ keys[i].uid # 0 /\ keys[i].fin = TRUE /\ keys[i].state = "Bound" /\ keys[i].label = TRUE
                  /\ keys[i].ann = keys[i].id /\ keys[i].id # 0 /\ accounts.key[keys[i].id] = "live"
                  /\ i \in Access => keys[i].owner = 0 /\ Legacy \notin Ids(keys[i])
    <3>1. CASE i = 1
      BY <3>1, <2>3
    <3>2. CASE i = 2
      BY <3>2
    <3>3. CASE i = Name
      BY <1>2, <2>3, <3>3
    <3> QED
      BY <1>2, <3>1, <3>2, <3>3
  <2> QED
    BY <2>1, <2>2, <2>4 DEF KeyForm
<1>6. KeysDiffer
  BY <1>1, <1>2, <1>3, <1>4, Names, InitialObjects DEF KeysDiffer
<1>7. ASSUME NEW k \in KeyId, accounts.key[k] = "live" PROVE \E i \in Identity : There(i) /\ keys[i].id = k
  <2>1. CASE k = Legacy
    BY <1>2, <2>1 DEF There
  <2>2. CASE k = 2
    BY <1>2, <1>7, <2>2 DEF There
  <2> QED
    BY <1>7, <2>1, <2>2
<1>8. AccessForm /\ Sharing
  <2>1. AccessForm
    BY <1>1 DEF AccessForm, Owns
  <2>2. Sharing
    BY <1>1, <1>2, Names DEF Sharing, Bound
  <2> QED
    BY <2>1, <2>2
<1>9. LegacyForm
  BY <1>1, <1>2, <1>4, Names DEF LegacyForm, Bound
<1> QED
  BY <1>5, <1>6, <1>7, <1>8, <1>9 DEF KeyTracking, LiveKey

\* A reservation of the old name is still pending, its key imported or not.
LEMMA PendingStart ==
  ASSUME Init, keys \in [Identity -> ShadowKeys], access \in [Access -> Accesses],
         \A a \in Access : access[a] = NewAccess /\ keys[a] = NoShadowKey,
         keys[Name] = LegacyShadow("Pending"), \A k \in KeyId \ {Legacy} : accounts.key[k] = "free"
  PROVE  KeyForm /\ KeysDiffer /\ KeyTracking /\ AccessForm /\ Sharing /\ LegacyForm
<1>1. /\ \A a \in Access : access[a].id = 0 /\ access[a].st = "live" /\ access[a].handed = FALSE /\ Owns(a)
      /\ \A a \in Access : secret[a].id = 0
  BY InitialObjects, StartsIdle DEF Owns, Exists
<1>2. /\ keys[Name].uid = 1 /\ keys[Name].del = FALSE /\ keys[Name].fin = TRUE /\ keys[Name].state = "Pending"
      /\ keys[Name].ann = Legacy /\ keys[Name].id = Legacy /\ keys[Name].label = FALSE /\ keys[Name].owner = 0
      /\ Legacy # 0
  BY InitialShadow, InitialObjects
<1>3. Ids(keys[Name]) = {Legacy} /\ \A a \in Access : Ids(keys[a]) = {} /\ ~There(a)
  BY <1>2, InitialObjects DEF Ids, There
<1>4. KeyForm
  BY <1>2, <1>3, Names, InitialObjects DEF KeyForm, There, Bound, LiveKey
<1>5. KeysDiffer
  BY <1>1, <1>2, <1>3, Names DEF KeysDiffer, Ids
<1>6. KeyTracking
  BY <1>2, Names DEF KeyTracking, LiveKey, There
<1>7. AccessForm /\ Sharing
  BY <1>1, Names DEF AccessForm, Sharing
<1>8. LegacyForm
  BY <1>1, <1>2, <1>3, StartsIdle DEF LegacyForm, Bound
<1> QED
  BY <1>4, <1>5, <1>6, <1>7, <1>8

\* What Garage holds at first.
LEMMA InitialAccounts ==
  /\ NoKeys \in Accounts /\ WithLegacyKey(NoKeys) \in Accounts
  /\ \A k \in KeyId : NoKeys.key[k] = "free"
  /\ WithLegacyKey(NoKeys).key[Legacy] = "live" /\ \A k \in KeyId \ {Legacy} : WithLegacyKey(NoKeys).key[k] = "free"
<1> DEFINE ke == [k \in KeyId |-> "free"]
           pe == [k \in KeyId |-> {}]
<1>1. ke \in [KeyId -> {"free", "live", "tombstone"}] /\ pe \in [KeyId -> SUBSET AllPerms] /\ \A k \in KeyId : ke[k] = "free"
  OBVIOUS
<1>2. NoKeys = [key |-> ke, perm |-> pe]
  BY DEF NoKeys
<1> HIDE DEF ke, pe
<1>3. NoKeys.key = ke /\ NoKeys \in Accounts
  BY <1>1, <1>2 DEF Accounts
<1>4. ASSUME NEW acs \in Accounts
      PROVE  /\ WithLegacyKey(acs) \in Accounts /\ WithLegacyKey(acs).key[Legacy] = "live"
             /\ \A k \in KeyId \ {Legacy} : WithLegacyKey(acs).key[k] = acs.key[k]
  BY InitialObjects DEF WithLegacyKey, Accounts
<1> QED
  BY <1>1, <1>3, <1>4

LEMMA LegacyStart ==
  ASSUME Init, InitLegacy, scene = "legacy"
  PROVE  AccessInv
<1>0. /\ 1 \in Identity /\ 2 \in Identity /\ Name \in Identity /\ 1 # 2 /\ 1 # Name /\ 2 # Name
      /\ 1 \in Access /\ 2 \in Access /\ NoShadowKey \in ShadowKeys
  BY Names, Blank DEF Name
<1>1. LegacyShadow("Bound") \in ShadowKeys /\ LegacyShadow("Pending") \in ShadowKeys
  BY InitialShadow
<1>5. ASSUME \A a \in Access : access[a].id # 0 => accounts.key[access[a].id] = "live" PROVE LegacyScene
  BY <1>5, StartsIdle DEF LegacyScene, LegacyServed, LiveKey, Bounding
<1>2. ASSUME NEW ok \in BOOLEAN, access = [a \in Access |-> [LegacyAccess EXCEPT !.ok = ok]],
             accounts = WithLegacyKey(NoKeys), rsv = [i \in Identity |-> 0],
             NEW o \in {0, 2}, keys = [i \in Identity |-> IF i = Name THEN [LegacyShadow("Bound") EXCEPT !.owner = o]
                                                          ELSE NoShadowKey]
      PROVE  AccessInv
  <2>1. access \in [Access -> Accesses]
        /\ \A a \in Access : access[a].id = Legacy /\ access[a].st = "live" /\ access[a].handed = FALSE
    BY <1>2, InitialObjects DEF Accesses
  <2> DEFINE s == [LegacyShadow("Bound") EXCEPT !.owner = o]
  <2>2. /\ s \in ShadowKeys /\ s.uid = 1 /\ s.del = FALSE /\ s.fin = TRUE /\ s.state = "Bound" /\ s.ann = Legacy
        /\ s.id = Legacy /\ s.label = TRUE
    <3>1. o \in {0} \cup Access
      BY <1>0
    <3>2. LegacyShadow("Bound").label = TRUE
      BY InitialShadow
    <3> QED
      BY <1>1, <3>1, <3>2, InitialShadow DEF ShadowKeys
  <2> HIDE DEF s
  <2>3. keys = [i \in Identity |-> IF i = Name THEN s ELSE NoShadowKey]
    BY <1>2 DEF s
  <2>4. keys \in [Identity -> ShadowKeys] /\ keys[1] = NoShadowKey /\ keys[2] = NoShadowKey /\ keys[Name] = s
    BY <1>0, <2>2, <2>3
  <2>5. /\ accounts \in Accounts /\ accounts.key[Legacy] = "live" /\ accounts.key[2] = "free"
        /\ \A k \in KeyId \ {Legacy, 2} : accounts.key[k] = "free"
    BY <1>2, InitialAccounts, InitialObjects
  <2>6. KeyForm /\ KeysDiffer /\ KeyTracking /\ AccessForm /\ Sharing /\ LegacyForm
    BY <2>1, <2>2, <2>4, <2>5, SharedStart
  <2>7. rsv \in [Identity -> KIDs]
    BY <1>2, InitialObjects
  <2>8. LegacyScene
    BY <1>5, <2>1, <2>5
  <2> QED
    BY <2>1, <2>4, <2>5, <2>6, <2>7, <2>8, StartsIdle DEF AccessInv, TypedAccess, AccessCore
<1>3. ASSUME access = [a \in Access |-> LegacyAccess], rsv = [i \in Identity |-> 0],
             accounts = [WithLegacyKey(NoKeys) EXCEPT !.key[2] = "live"],
             keys = [i \in Identity |-> IF i = Name THEN LegacyShadow("Bound") ELSE IF i = 1
                                        THEN [ShadowKey(2) EXCEPT !.state = "Bound", !.id = 2, !.ann = 2, !.label = TRUE]
                                        ELSE NoShadowKey]
      PROVE  AccessInv
  <2>1. access \in [Access -> Accesses]
        /\ \A a \in Access : access[a].id = Legacy /\ access[a].st = "live" /\ access[a].handed = FALSE
    BY <1>3, InitialObjects
  <2> DEFINE s == [ShadowKey(2) EXCEPT !.state = "Bound", !.id = 2, !.ann = 2, !.label = TRUE]
             l == LegacyShadow("Bound")
  <2>2. /\ l \in ShadowKeys /\ l.uid = 1 /\ l.del = FALSE /\ l.fin = TRUE /\ l.state = "Bound" /\ l.ann = Legacy
        /\ l.id = Legacy /\ l.label = TRUE
    BY InitialShadow
  <2>3. /\ s \in ShadowKeys /\ s.uid = 2 /\ s.del = FALSE /\ s.fin = TRUE /\ s.state = "Bound" /\ s.ann = 2
        /\ s.id = 2 /\ s.label = TRUE /\ s.owner = 0
    <3>1. ShadowKey(2) \in ShadowKeys /\ ShadowKey(2).uid = 2 /\ ShadowKey(2).del = FALSE /\ ShadowKey(2).fin = TRUE
          /\ ShadowKey(2).owner = 0
      BY Blank, InitialObjects, 2 \in 0..4 DEF ShadowKeys, ShadowKey
    <3> QED
      BY <3>1, InitialObjects DEF ShadowKeys
  <2> HIDE DEF s, l
  <2>4. keys = [i \in Identity |-> IF i = Name THEN l ELSE IF i = 1 THEN s ELSE NoShadowKey]
    BY <1>3 DEF s, l
  <2>5. keys \in [Identity -> ShadowKeys] /\ keys[1] = s /\ keys[2] = NoShadowKey /\ keys[Name] = l
    BY <1>0, <2>2, <2>3, <2>4
  <2>6. /\ accounts \in Accounts /\ accounts.key[Legacy] = "live" /\ accounts.key[2] = "live"
        /\ \A k \in KeyId \ {Legacy, 2} : accounts.key[k] = "free"
    BY <1>3, InitialAccounts, InitialObjects DEF Accounts
  <2>7. KeyForm /\ KeysDiffer /\ KeyTracking /\ AccessForm /\ Sharing /\ LegacyForm
    BY <2>1, <2>2, <2>3, <2>5, <2>6, SharedStart
  <2>8. rsv \in [Identity -> KIDs]
    BY <1>3, InitialObjects
  <2>9. LegacyScene
    BY <1>5, <2>1, <2>6
  <2> QED
    BY <2>1, <2>5, <2>6, <2>7, <2>8, <2>9, StartsIdle DEF AccessInv, TypedAccess, AccessCore
<1>4. ASSUME access = [a \in Access |-> NewAccess], accounts \in {WithLegacyKey(NoKeys), NoKeys},
             keys = [i \in Identity |-> IF i = Name THEN LegacyShadow("Pending") ELSE NoShadowKey],
             rsv = [i \in Identity |-> IF i = Name THEN Legacy ELSE 0]
      PROVE  AccessInv
  <2>1. access \in [Access -> Accesses] /\ \A a \in Access : access[a] = NewAccess
    BY <1>4, InitialObjects
  <2>2. keys \in [Identity -> ShadowKeys] /\ keys[Name] = LegacyShadow("Pending") /\ \A a \in Access : keys[a] = NoShadowKey
    BY <1>0, <1>1, <1>4, Names
  <2>3. accounts \in Accounts /\ \A k \in KeyId \ {Legacy} : accounts.key[k] = "free"
    BY <1>4, InitialAccounts
  <2>4. KeyForm /\ KeysDiffer /\ KeyTracking /\ AccessForm /\ Sharing /\ LegacyForm
    BY <2>1, <2>2, <2>3, PendingStart
  <2>5. rsv \in [Identity -> KIDs]
    BY <1>4, InitialObjects
  <2>6. LegacyScene
    BY <1>5, <2>1, InitialObjects
  <2> QED
    BY <2>1, <2>2, <2>3, <2>4, <2>5, <2>6, StartsIdle DEF AccessInv, TypedAccess, AccessCore
<1> QED
  BY <1>2, <1>3, <1>4 DEF InitLegacy

LEMMA AccessStart ==
  ASSUME Init
  PROVE  AccessInv
<1>1. CASE scene = "legacy"
  BY <1>1, LegacyStart DEF Init
<1>2. CASE scene # "legacy"
  <2>1. /\ access = [a \in Access |-> IF scene = "access" /\ a = 1 THEN NewAccess ELSE NoAccess]
        /\ keys = [i \in Identity |-> NoShadowKey] /\ rsv = [i \in Identity |-> 0] /\ accounts = NoKeys
    BY <1>2 DEF Init
  <2>2. access \in [Access -> Accesses] /\ \A a \in Access : access[a].id = 0 /\ access[a].handed = FALSE
    BY <2>1, InitialObjects
  <2>3. keys \in [Identity -> ShadowKeys] /\ rsv \in [Identity -> KIDs] /\ accounts \in Accounts
    BY <2>1, Blank, InitialObjects, InitialAccounts
  <2>4. KeyForm /\ KeysDiffer /\ KeyTracking /\ AccessForm /\ Sharing /\ LegacyForm
    BY <2>1, <2>2, NoKeyStart
  <2>5. LegacyScene
    BY <1>2, <2>1, InitialObjects, Names DEF LegacyScene, LegacyServed, There
  <2> QED
    BY <2>2, <2>3, <2>4, <2>5, StartsIdle DEF AccessInv, TypedAccess, AccessCore
<1> QED
  BY <1>1, <1>2

-----------------------------------------------------------------------------
(* What holds in every reachable state.                                    *)

\* The inductive invariant of the BucketAccess controller: reserve, import,
\* bind, grant and revoke keep the shadow keys, the accesses, their Secrets
\* and the keys in Garage in step, whatever crashes and whoever interferes
\* (GrantAccess, RevokeAccess, ResolveBucketAccessIdentity).
THEOREM AccessInvariant == Spec => []AccessInv
<1>1. Init => AccessInv
  BY AccessStart
<1>2. AccessInv /\ [Next]_vars => AccessInv'
  <2>1. CASE Next
    BY <2>1, StepKeepsAccess
  <2>2. ASSUME AccessInv, UNCHANGED vars PROVE AccessInv'
    BY <2>2, UnchangedKeeps DEF vars, cosiBucketVars
  <2> QED
    BY <2>1, <2>2
<1> QED
  BY <1>1, <1>2, PTL DEF Spec

\* Credentials are only in a Secret that the access controls, no other
\* access's key is in it, and the key can do no more than the access asked
\* for (PopulateSecret, ReconcileCOSIKeyPermissions).
THEOREM CredentialsStayPrivate == Spec => []CredentialsArePrivate
<1>1. AccessInv => CredentialsArePrivate
  BY DEF AccessInv, AccessCore, SecretForm, CredentialsArePrivate
<1> QED
  BY <1>1, AccessInvariant, PTL

\* A key that was imported is the one a shadow's status records, and an
\* access that is gone leaves no shadow but one on its way out.
LEMMA KeysAreTracked == AccessInv => KeyIsTracked
<1> SUFFICES ASSUME AccessInv PROVE KeyIsTracked
  OBVIOUS
<1>1. \A k \in KeyId : LiveKey(k) => \E i \in Identity : keys[i].uid # 0 /\ keys[i].id = k
  BY DEF AccessInv, AccessCore, KeyTracking, There
<1>2. \A a \in Access : access[a].st = "gone" => ~Left(a) /\ ~Owns(a)
  BY DEF AccessInv, AccessCore, AccessForm, Owns, Exists, There, Doomed, Left
<1>3. Gone /\ keys[Name].owner = 0 => ~Left(Name)
  BY <1>2, Names DEF AccessInv, AccessCore, LegacyForm, Gone, There, Doomed, Left
<1> QED
  BY <1>1, <1>2, <1>3 DEF KeyIsTracked

\* The state is well formed.
LEMMA StateIsTyped == IndInv /\ AccessInv => TypeOK
<1> SUFFICES ASSUME IndInv, AccessInv PROVE TypeOK
  OBVIOUS
<1>1. /\ scene \in Scenes /\ cluster \in {"Running", "NotReady", "gone"} /\ faults \in 0..MaxFaults[scene]
      /\ parent \in Parents /\ shadow \in Shadows /\ garage \in Garages /\ bw \in Workers
      /\ shadow.uid = 0 => shadow = NoShadow
  BY DEF IndInv, Typed, Core, ShadowForm
<1>2. parent.id \in {0} \cup BucketId /\ parent.policy \in {"Delete", "Retain"}
  BY <1>1 DEF Parents, IDs
<1>3. shadow.uid \in ShadowUID /\ {shadow.ann, shadow.id, bw.id, bw.know} \subseteq {0} \cup BucketId
  BY <1>1 DEF Shadows, Workers, IDs
<1>4. garage.bucket \in [BucketId -> {"free", "live", "deleted"}] /\ garage.alias \in [Alias -> {0} \cup BucketId]
  BY <1>1 DEF Garages, IDs
<1>5. /\ access \in [Access -> Accesses] /\ keys \in [Identity -> ShadowKeys] /\ rsv \in [Identity -> KIDs]
      /\ secret \in [Access -> Secrets] /\ accounts \in Accounts
  BY DEF AccessInv, TypedAccess
<1>6. \A a \in Access : access[a].id \in {0} \cup KeyId /\ secret[a].by \in 0..Name
  BY <1>5 DEF Accesses, Secrets, KIDs
<1>7. \A i \in Identity : {keys[i].ann, keys[i].id, rsv[i]} \subseteq {0} \cup KeyId
  BY <1>5 DEF ShadowKeys, KIDs
<1>8. accounts.key \in [KeyId -> {"free", "live", "tombstone"}]
  BY <1>5 DEF Accounts
<1> QED
  BY <1>1, <1>2, <1>3, <1>4, <1>6, <1>7, <1>8 DEF TypeOK

\* Whatever crashes, a bucket, a key or a shadow the driver made is one that
\* its owner will find again (EnsureBucket, CancelBucketProvisioning,
\* GrantAccess, CancelAccessProvisioning).
THEOREM ProvisionedStaysTracked == Spec => []ProvisionedIsTracked
<1>1. IndInv /\ AccessInv /\ BucketIsTracked /\ NoShadowIsLeft => ProvisionedIsTracked
  BY StateIsTyped, KeysAreTracked DEF ProvisionedIsTracked
<1> QED
  BY <1>1, BucketInvariant, AccessInvariant, BucketsAreTracked, NoShadowOutlives, PTL

\* Revoking one key leaves the others alone.
LEMMA DroppingSpares ==
  ASSUME TypedAccess, NEW k, NEW j \in KeyId, j # k, accounts' = DropKey(accounts, k)
  PROVE  accounts'.key[j] = accounts.key[j]
  BY DEF TypedAccess, DropKey, Accounts

\* What a step does to the key of a live access.
LEMMA AccountSurvives ==
  ASSUME AccessInv, Next, ~LoseKey, NEW a \in Access,
         access[a].st = "live", access[a].id # 0, LiveKey(access[a].id)
  PROVE  accounts'.key[access[a].id] = "live"
<1>0. /\ TypedAccess /\ AccessCore /\ access[a].id \in KeyId /\ accounts.key[access[a].id] = "live"
      /\ UNCHANGED accounts => accounts'.key[access[a].id] = "live"
  BY DEF AccessInv, TypedAccess, Accesses, KIDs, LiveKey
<1>1. CASE ImportReservedKey \/ ReconcileCOSIKeyPermissions \/ ReconcileBoundKey
  <2>1. \/ UNCHANGED accounts
        \/ accounts' = [accounts EXCEPT !.key[aw.id] = "live"]
        \/ \E k : accounts' = [accounts EXCEPT !.perm[k] = Want]
    BY <1>1
       DEF ImportReservedKey, ReconcileCOSIKeyPermissions, ReconcileBoundKey, ExactKeyPermissions, FailAccess
  <2> QED
    BY <1>0, <2>1 DEF TypedAccess, Accounts
<1>2. CASE RevokeRemoteKey
  <2>1. CASE UNCHANGED accounts
    BY <1>0, <2>1
  <2>2. CASE aw.pc = "revoke" /\ accounts' = DropKey(accounts, aw.known)
    <3>1. LiveKey(aw.known) => \A b \in Access : access[b].st = "live" => access[b].id # aw.known
      BY <1>0, <2>2 DEF AccessCore, AccessKnown, Revoking
    <3>2. access[a].id # aw.known
      BY <3>1
    <3> QED
      BY <1>0, <2>2, <3>2, DroppingSpares
  <2> QED
    BY <1>2, <2>1, <2>2 DEF RevokeRemoteKey, StepAccess, FailAccess
<1>3. CASE CleanupDuplicateAccessIdentity
  <2>1. aw.pc = "dup" /\ (UNCHANGED accounts \/ (Sh.id # 0 /\ accounts' = DropKey(accounts, Sh.id)))
    BY <1>3 DEF CleanupDuplicateAccessIdentity, StepAccess, FailAccess
  <2>2. /\ aw.who = aw.a /\ aw.a \in Access /\ aw.a \in Identity /\ access[aw.a].id = aw.known
        /\ There(aw.a) => Ids(keys[aw.a]) # {aw.known}
    BY <1>0, <2>1, Names DEF AccessCore, AccessKnown, TypedAccess, AccessWorkers, Duplicate
  <2>3. CASE accounts' = DropKey(accounts, Sh.id) /\ Sh.id # 0
    <3>1. Sh = keys[aw.a]
      BY <2>2 DEF Sh
    <3>2. ASSUME access[a].id = keys[aw.a].id PROVE FALSE
      <4>1. keys[aw.a].ann = keys[aw.a].id
        BY <1>0, <2>2, <3>2 DEF AccessCore, KeyForm
      <4>2. Ids(keys[aw.a]) = {access[a].id}
        BY <3>2, <4>1 DEF Ids
      <4>3. a = aw.a
        BY <1>0, <2>2, <4>2 DEF AccessCore, KeysDiffer
      <4> QED
        BY <1>0, <2>2, <2>3, <3>1, <4>2, <4>3 DEF There, AccessCore, KeyForm, NoShadowKey
    <3> QED
      BY <1>0, <2>3, <3>1, <3>2, DroppingSpares
  <2> QED
    BY <1>0, <2>1, <2>3
<1>4. CASE FinalizeShadowKey
  <2>1. PICK i \in Identity : /\ keys[i].uid # 0 /\ keys[i].del
                              /\ accounts' = IF keys[i].id = 0 THEN accounts ELSE DropKey(accounts, keys[i].id)
    BY <1>4 DEF FinalizeShadowKey
  <2>2. ASSUME access[a].id = keys[i].id PROVE FALSE
    <3>1. access[a].id \in Ids(keys[i])
      BY <2>2 DEF Ids
    <3>2. CASE i \in Access
      BY <1>0, <2>1, <3>1, <3>2 DEF AccessCore, KeysDiffer
    <3>3. CASE i = Name
      <4>1. keys[Name].state = "Pending"
        BY <1>0, <2>1, <2>2, <3>3, Names DEF AccessCore, LegacyForm, GivenUp, LiveKey, Bound, TypedAccess, ShadowKeys
      <4> QED
        BY <1>0, <3>1, <3>3, <4>1 DEF AccessCore, KeysDiffer
    <3> QED
      BY <3>2, <3>3, Names
  <2> QED
    BY <1>0, <2>1, <2>2, DroppingSpares
<1>5. CASE \/ \E b \in Access : ReconcileAccess(b) \/ DeleteAccess(b) \/ UpstreamReleases(b) \/ ReplaceSecret(b)
           \/ CrashAccess \/ ReconcilePendingKey \/ RestoreKeyFinalizer \/ UNCHANGED cosiAccessVars
  BY ZenonT(60), <1>0, <1>5
     DEF ReconcileAccess, DeleteAccess, UpstreamReleases, ReplaceSecret, CrashAccess, ReconcilePendingKey,
         RestoreKeyFinalizer, cosiAccessVars
<1>6. CASE \/ RefuseAccess \/ AddAccessFinalizer \/ ReserveAccessSecret \/ ResolveBuckets
           \/ PopulateSecret \/ PublishAccessStatus \/ CancelAccessProvisioning
           \/ DeleteShadowKeyByID \/ DropRevokedShadowKey \/ CompleteCleanupHandoff
           \/ DeleteDuplicateSecret \/ StripDuplicate \/ DropDuplicate
  BY <1>0, <1>6
     DEF RefuseAccess, AddAccessFinalizer, ReserveAccessSecret, ResolveBuckets, PopulateSecret, PublishAccessStatus,
         CancelAccessProvisioning, DeleteShadowKeyByID, DropRevokedShadowKey, CompleteCleanupHandoff,
         DeleteDuplicateSecret, StripDuplicate, DropDuplicate, StripShadowKey, DropShadowKey, FailAccess
<1>7. CASE \/ ReserveShadowKey \/ LookupKey \/ StripStaleShadowKey \/ DeleteStaleShadowKey \/ GiveUpKnown
           \/ DropTombstonedMaterial \/ RedrawKey \/ EnsureKeyReservationSecret \/ AnnotateReservation
           \/ BindShadowKey \/ DeleteKeyReservationSecret
  BY <1>0, <1>7
     DEF ReserveShadowKey, LookupKey, Found, StripStaleShadowKey, DeleteStaleShadowKey, StripShadowKey, DropShadowKey,
         GiveUpKnown, DropTombstonedMaterial,
         RedrawKey, EnsureKeyReservationSecret, PersistShadowKeyStatusID, AnnotateReservation, BindShadowKey,
         DeleteKeyReservationSecret, FailAccess
<1> QED
  BY <1>1, <1>2, <1>3, <1>4, <1>5, <1>6, <1>7
     DEF Next, BucketStep, AccessStep, AccessSteps, GrantAccess, KeyWorker, AccessEnvironment

\* A key of a live access, shared with another or not, is revoked by no step
\* of the operator (ResolveBucketAccessIdentity, RevokeAccess,
\* CleanupDuplicateAccessIdentity, the GarageKey finalizer).
THEOREM SharedAccountsSurvive == Spec => SharedAccountSurvives
<1>1. ASSUME AccessInv, [Next]_vars
      PROVE  [\A a \in Access : access[a].st = "live" /\ access[a].id # 0 /\ LiveKey(access[a].id) /\ ~LoseKey
                => accounts'.key[access[a].id] = "live"]_vars
  <2>1. CASE Next
    BY <1>1, <2>1, AccountSurvives
  <2>2. CASE UNCHANGED vars
    BY <2>2
  <2> QED
    BY <1>1, <2>1, <2>2
<1> QED
  BY <1>1, AccessInvariant, PTL DEF Spec, SharedAccountSurvives

\* No step of the operator deletes what is retained or what another access
\* still uses.
THEOREM NothingInUseGoes == Spec => NothingInUseIsDeleted
  BY RetainedBucketsAreKept, SharedAccountsSurvive, PTL DEF NothingInUseIsDeleted
=============================================================================
