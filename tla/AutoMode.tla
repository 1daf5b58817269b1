------------------------------ MODULE AutoMode ------------------------------
(***************************************************************************)
(* Auto mode: the GarageCluster controller keeps one GarageNode per        *)
(* ordinal of a tier, and the GarageNode controller gives each one a claim,*)
(* a StatefulSet and a role in the Garage layout.  The names are           *)
(* predictable, so who may use the claim called metadata-<name>-0 is an    *)
(* identity question that every step answers from recorded UIDs:           *)
(*   - a claim is reserved (the hash of a nonce in status.managedPVCs)     *)
(*     before it is created, and its UID is recorded before it is mounted; *)
(*   - a claim retained by a scale-down is handed to the node that takes   *)
(*     the ordinal later by status.autoModePvcHandoffs;                    *)
(*   - an identity is replaced by a cycle: a sibling joins first, then the *)
(*     source is drained, the sibling promoted and the source deleted;     *)
(*   - the cluster-level StatefulSet of earlier releases is adopted into   *)
(*     per-node objects.                                                   *)
(*                                                                         *)
(* A name is <<ordinal, depth>>: depth 0 is the canonical name and depth d *)
(* the one with d "-cycle" suffixes; <<ordinal, -1>> names the claim of    *)
(* the earlier releases.  The Garage identity lives on the claim, so it is *)
(* the UID of the claim.  The drain transaction is reduced to what its     *)
(* actor and the cluster read of it: LayoutMutation is about its inside.   *)
(***************************************************************************)
EXTENDS Integers, FiniteSets, FiniteSetsExt

CONSTANTS
  MaxSlot, MaxDepth,             \* bounds: the highest ordinal and the deepest -cycle name
  Factor,                        \* replicationFactorOf
  Scenes,                        \* what a behaviour starts from and how often each event may happen
  MaxNode, MaxClaim, MaxPod, MaxNonce   \* bounds: incarnations remembered at one time

ASSUME AutoModeAssumption == {MaxSlot, MaxDepth, Factor, MaxNode, MaxClaim, MaxPod, MaxNonce} \subseteq Nat

VARIABLES
  scene,    \* tier; keep: whenDeleted=Retain; b, max: budgets
  spec,     \* rep: replicas; pol: layoutPolicy; prof: what nodes are built from; gen
  ready,    \* StorageRolloutReady: ok: True, at generation gen; wait: False because of Waiting, not Initializing
  handoff,  \* per claim name: status.autoModePvcHandoffs
  nodes,    \* per name: the GarageNode
  claims,   \* per claim name: the PersistentVolumeClaim
  work,     \* per name: the StatefulSet with its Pod; mount: the UID of the claim the Pod uses;
            \* ack: the generations its template was rendered from
  roles,    \* identities with a role in the committed layout
  settled,  \* the layout history has one version
  drain,    \* status.storageDrain
  legacy,   \* the cluster-level StatefulSet (reps = -1: absent), its Pods, and LegacySTSMigrated
  cw,       \* the reconcile of the GarageCluster under way
  flight,   \* per name: the reconcile of the GarageNode under way
  spent     \* what the budgets count

vars == <<scene, spec, ready, handoff, nodes, claims, work, roles, settled, drain, legacy, cw, flight, spent>>
user == <<scene, spec, spent>>
garage == <<roles, settled>>

Slot == 0..MaxSlot
Name == Slot \X (0..MaxDepth)
Disk == Slot \X (-1..MaxDepth)
Canonical(s) == <<s, 0>>
LegacyDisk(s) == <<s, -1>>
SiblingOf(n) == <<n[1], n[2] + 1>>

NoNode == [uid |-> 0]
NoClaim == [uid |-> 0]
NoWork == [own |-> 0]
NoHandoff == [uid |-> 0]
NoDrain == [actor |-> 0]
NoRec == [k |-> "none", v |-> 0]
Idle == [op |-> "idle", todo |-> {}, nonce |-> 0]
Grounded == [op |-> "idle", v |-> 0]

Storage == scene.tier = "storage"
Exists(n) == nodes[n].uid # 0
Objects == {n \in Name : Exists(n)}
Live(n) == Exists(n) /\ ~nodes[n].del
Present(d) == claims[d].uid # 0
Running(n) == work[n].own # 0 /\ work[n].pod # 0
Mounted == {work[n].mount : n \in {m \in Name : Running(m)}} \cup {claims[LegacyDisk(s)].uid : s \in legacy.pods}
Up(id) == id \in Mounted

NodeUIDs == {nodes[n].uid : n \in Name} \cup {nodes[n].src : n \in Objects} \cup {work[n].own : n \in Name}
              \cup {claims[d].pin : d \in {e \in Disk : Present(e)}} \cup {claims[d].ctl : d \in {e \in Disk : Present(e)}}
              \cup UNION {{handoff[d].prev, handoff[d].repl} : d \in {e \in Disk : handoff[e].uid # 0}} \cup {drain.actor}
ClaimUIDs == {claims[d].uid : d \in Disk} \cup {handoff[d].uid : d \in Disk} \cup roles \cup Mounted
               \cup UNION {{nodes[n].id, nodes[n].sibId} \cup {nodes[n].rec.v : r \in {nodes[n].rec.k} \cap {"uid"}} : n \in Objects}
Nonces == {nodes[n].nonce : n \in Objects} \cup {claims[d].nonce : d \in {e \in Disk : Present(e)}} \cup {flight[n].v : n \in Name}
            \cup {handoff[d].hash : d \in {e \in Disk : handoff[e].uid # 0}} \cup {cw.nonce}
            \cup UNION {{nodes[n].rec.v : r \in {nodes[n].rec.k} \cap {"hash"}} : n \in Objects}
PodUIDs == {work[n].pod : n \in {m \in Name : work[m].own # 0}} \cup {nodes[n].obs : n \in Objects}
FreshNode == Min(1..MaxNode \ NodeUIDs)
FreshClaim == Min(1..MaxClaim \ ClaimUIDs)
FreshNonce == Min(1..MaxNonce \ Nonces)
FreshPod == Min(1..MaxPod \ PodUIDs)

Spend(k) == /\ spent[k] < scene.b[k] /\ MapThenSumSet(LAMBDA j : spent[j], DOMAIN spent) < scene.max
            /\ spent' = [spent EXCEPT ![k] = @ + 1]
Ground(n) == flight' = [flight EXCEPT ![n] = Grounded]
Set(n, r) == nodes' = [nodes EXCEPT ![n] = r]

Built(uid, own, disk, nonce) ==
  [uid |-> uid, del |-> FALSE, own |-> own, man |-> own = "cluster", slotted |-> TRUE, src |-> 0, nonce |-> nonce, rec |-> NoRec,
   disk |-> disk, id |-> 0, inl |-> FALSE, cur |-> FALSE, obs |-> 0, drain |-> FALSE, pgen |-> 0, prep |-> FALSE,
   cyc |-> FALSE, phase |-> "", sibId |-> 0, prof |-> spec.prof]

-----------------------------------------------------------------------------
(* The scan of a pass: the managed objects, the one that serves each       *)
(* ordinal, and the barrier every change of membership waits for.          *)

Managed == {n \in Objects : nodes[n].man}
Unowned == {n \in Managed : nodes[n].own # "cluster"}
Adoptable(n) == /\ nodes[n].own = "none" /\ ~nodes[n].slotted /\ n[2] = 1
                /\ nodes[n].id # 0 /\ (nodes[n].inl \/ nodes[n].del)
Promoted(s) == {n \in Managed : n[1] = s /\ n[2] > 0 /\ Live(n)}
Ambiguous(s) == Cardinality(Promoted(s)) > 1 \/ (Promoted(s) # {} /\ Canonical(s) \in Managed /\ Live(Canonical(s)))
Current(s) == IF Promoted(s) # {} THEN Promoted(s) ELSE {Canonical(s)} \cap Managed
Wanted == 0..(spec.rep - 1)
Extras == {n \in Managed : n[1] \notin Wanted}
Missing == {s \in Wanted : Current(s) = {}}
Drifted == {n \in UNION {Current(s) : s \in Wanted} : nodes[n].prof # spec.prof}
Candidate == CHOOSE n \in Extras : \A m \in Extras : m[1] < n[1] \/ (m[1] = n[1] /\ m[2] <= n[2])
LiveStorageNodes == {n \in Managed \ Extras : Live(n)}

\* A generation that is not rolled out holds drains and cycles back, never the workload.
Transition == Storage /\ drain = NoDrain /\ IF ready.ok THEN ready.gen # spec.gen ELSE ready.wait
Joined(n) == nodes[n].id # 0 /\ nodes[n].inl /\ nodes[n].cur
Bootstrap == Storage /\ (Objects = {} \/ (settled /\ roles = {}))
Barrier(ignored) ==
  /\ \A n \in Objects \ ignored : ~nodes[n].del /\ Joined(n)
  /\ settled
MutationReady == (Bootstrap /\ \A n \in Objects : ~nodes[n].del) \/ Barrier({})

Migrated == IF Storage THEN legacy.cond = "Completed" ELSE legacy.reps = -1
\* A drain freezes the whole pass, and a Manual tier has none.
Pass == cw = Idle /\ drain = NoDrain /\ spec.pol = "Auto" /\ Migrated
Scanned == Pass /\ Unowned = {} /\ \A s \in Wanted : ~Ambiguous(s)

-----------------------------------------------------------------------------
(* status.autoModePvcHandoffs                                              *)

HandoffsOf(s) == {d \in Disk : d[1] = s /\ handoff[d].uid # 0}
FirstOf(s) == handoff[CHOOSE d \in HandoffsOf(s) : \A e \in HandoffsOf(s) : d[2] <= e[2]]
NonceMatches(n, h) == nodes[n].nonce # 0 /\ nodes[n].nonce = h.hash
Consistent(s) == \A d \in HandoffsOf(s) : <<handoff[d].prev, handoff[d].repl, handoff[d].hash>> = <<FirstOf(s).prev, FirstOf(s).repl, FirstOf(s).hash>>
Consumed(n, d) == /\ nodes[n].disk = d /\ nodes[n].rec = [k |-> "uid", v |-> handoff[d].uid]
                  /\ Present(d) /\ claims[d].uid = handoff[d].uid /\ claims[d].pin = nodes[n].uid

HandoffStep(s, n) ==
  CASE HandoffsOf(s) = {} -> "none"
    [] ~(nodes[n].own = "cluster" /\ nodes[n].slotted) -> "error"
    [] nodes[n].uid = FirstOf(s).prev -> IF nodes[n].del THEN "none" ELSE "clear"
    [] ~Consistent(s) -> "error"
    [] FirstOf(s).repl = 0 -> IF \A d \in HandoffsOf(s) : NonceMatches(n, handoff[d]) THEN "bind" ELSE "error"
    [] FirstOf(s).repl # nodes[n].uid -> "error"
    [] \E d \in HandoffsOf(s) : nodes[n].disk = d /\ nodes[n].rec.k = "uid" /\ ~Present(d) -> "error"
    [] OTHER -> IF \A d \in HandoffsOf(s) : Consumed(n, d) THEN "clear" ELSE "none"

Steps == {s \in Wanted : \E n \in Current(s) : HandoffStep(s, n) # "none"}
ClearedFor(s) == [d \in Disk |-> IF d[1] = s THEN NoHandoff ELSE handoff[d]]
BoundTo(s, uid) == [d \in Disk |-> IF d \in HandoffsOf(s) THEN [handoff[d] EXCEPT !.repl = uid] ELSE handoff[d]]

\* What a scale-down publishes for the claim of n; an error when the claim is not provably its own.
ToHandOff(n) == scene.keep /\ nodes[n].rec # NoRec /\ Present(nodes[n].disk)
MayHandOff(n) ==
  LET d == nodes[n].disk IN
  ToHandOff(n) =>
     /\ claims[d].pin = nodes[n].uid
     /\ IF nodes[n].rec.k = "uid" THEN nodes[n].rec.v = claims[d].uid ELSE nodes[n].rec.v = claims[d].nonce
     /\ handoff[d].uid # 0 => handoff[d].uid = claims[d].uid /\ handoff[d].prev = nodes[n].uid
HandedOff(n) ==
  LET d == nodes[n].disk IN
  IF ~ToHandOff(n) \/ handoff[d].uid # 0 THEN handoff
  ELSE [handoff EXCEPT ![d] = [uid |-> claims[d].uid, prev |-> nodes[n].uid, hash |-> 0, repl |-> 0]]

-----------------------------------------------------------------------------
(* One pass of the GarageCluster controller.  Errors end a pass before its *)
(* later steps, so each action also waits for the earlier ones.            *)

\* The promoted shape of the releases that had neither the slot label nor the owner reference.
AdoptPromoted(n) ==
  /\ Pass /\ n \in Unowned /\ \A m \in Unowned : Adoptable(m)
  /\ \A m \in Unowned, o \in Managed : m # o /\ m[1] = o[1] => nodes[o].del
  /\ Set(n, [nodes[n] EXCEPT !.own = "cluster", !.slotted = TRUE])
  /\ UNCHANGED <<user, ready, handoff, claims, work, garage, drain, legacy, cw, flight>>

ReconcileHandoff ==
  /\ Scanned
  /\ \E s \in Steps : \E n \in Current(s) :
       /\ \A t \in Steps : s <= t
       /\ \/ HandoffStep(s, n) = "clear" /\ handoff' = ClearedFor(s)
          \/ HandoffStep(s, n) = "bind" /\ handoff' = BoundTo(s, nodes[n].uid)
  /\ UNCHANGED <<user, ready, nodes, claims, work, garage, drain, legacy, cw, flight>>

\* The first batch is created as a whole, later additions one by one.
StartCreate ==
  /\ Scanned /\ Steps = {} /\ Missing # {} /\ MutationReady
  /\ cw' = [Idle EXCEPT !.op = "reserve", !.todo = IF Bootstrap THEN Missing ELSE {Min(Missing)}]
  /\ UNCHANGED <<user, ready, handoff, nodes, claims, work, garage, drain, legacy, flight>>

\* reserveAutoModeReplacement: commit to a nonce before the node exists.
Reserve ==
  /\ cw.op = "reserve"
  /\ LET s == Min(cw.todo)
         kept == {d \in HandoffsOf(s) : Present(d)}
         sound == \A d \in kept : claims[d].uid = handoff[d].uid /\ ~claims[d].del
     IN IF HandoffsOf(s) = {} THEN cw' = [cw EXCEPT !.op = "create"] /\ UNCHANGED handoff
        ELSE IF ~sound THEN cw' = Idle /\ UNCHANGED handoff
        ELSE /\ handoff' = [d \in Disk |-> IF d \in HandoffsOf(s) \ kept THEN NoHandoff
                                           ELSE IF d \in kept /\ ~Exists(Canonical(s))
                                                THEN [handoff[d] EXCEPT !.hash = FreshNonce, !.repl = 0] ELSE handoff[d]]
             /\ cw' = IF kept # {} /\ Exists(Canonical(s)) THEN Idle
                      ELSE [cw EXCEPT !.op = "create", !.nonce = IF kept = {} THEN 0 ELSE FreshNonce]
  /\ UNCHANGED <<user, ready, nodes, claims, work, garage, drain, legacy, flight>>

\* An AlreadyExists is left to the next pass, unless a handoff is to be bound.
Created(s) == IF Exists(Canonical(s)) THEN nodes
              ELSE [nodes EXCEPT ![Canonical(s)] = Built(FreshNode, "cluster", Canonical(s), cw.nonce)]
CreateNode ==
  /\ cw.op = "create"
  /\ LET s == Min(cw.todo) IN
     /\ nodes' = Created(s)
     /\ cw' = IF cw.nonce # 0 THEN IF Exists(Canonical(s)) THEN Idle ELSE [cw EXCEPT !.op = "bind"]
              ELSE IF cw.todo = {s} THEN Idle ELSE [cw EXCEPT !.op = "reserve", !.todo = @ \ {s}]
  /\ UNCHANGED <<user, ready, handoff, claims, work, garage, drain, legacy, flight>>

BindReplacement ==
  /\ cw.op = "bind"
  /\ LET s == Min(cw.todo)
         n == Canonical(s)
         sound == /\ HandoffsOf(s) # {} /\ Exists(n)
                  /\ \A d \in HandoffsOf(s) : NonceMatches(n, handoff[d]) /\ handoff[d].repl \in {0, nodes[n].uid}
     IN /\ handoff' = IF sound THEN BoundTo(s, nodes[n].uid) ELSE handoff
        /\ cw' = IF ~sound \/ cw.todo = {s} THEN Idle ELSE [Idle EXCEPT !.op = "reserve", !.todo = cw.todo \ {s}]
  /\ UNCHANGED <<user, ready, nodes, claims, work, garage, drain, legacy, flight>>

\* Admission freezes the spec of a node that is being cycled.
UpdateNode ==
  /\ Scanned /\ Steps = {} /\ Missing = {} /\ Drifted # {} /\ MutationReady
  /\ LET n == CHOOSE m \in Drifted : \A o \in Drifted : m[1] <= o[1] IN
     /\ ~nodes[n].cyc /\ nodes[n].phase = ""
     /\ Set(n, [nodes[n] EXCEPT !.prof = spec.prof, !.cur = FALSE, !.prep = FALSE])
  /\ UNCHANGED <<user, ready, handoff, claims, work, garage, drain, legacy, cw, flight>>

\* prepareGarageNodeDeletionDrain: the generation that asks, then the request.
PrepareDeletion(n) ==
  \/ /\ nodes[n].pgen # spec.gen
     /\ Set(n, [nodes[n] EXCEPT !.pgen = spec.gen])
  \/ /\ nodes[n].pgen = spec.gen /\ ~nodes[n].drain
     /\ Set(n, [nodes[n] EXCEPT !.drain = TRUE])
ScaleDownStarts == Scanned /\ Steps = {} /\ Missing = {} /\ Drifted = {} /\ Extras # {} /\ Barrier({Candidate})
PreparedWithoutLayout(n) == nodes[n].drain /\ nodes[n].id = 0 /\ nodes[n].prep
RequestDrain ==
  /\ ScaleDownStarts /\ Storage /\ Live(Candidate) /\ Cardinality(LiveStorageNodes) >= Factor
  /\ PrepareDeletion(Candidate)
  /\ UNCHANGED <<user, ready, handoff, claims, work, garage, drain, legacy, cw, flight>>

PublishHandoff ==
  /\ ScaleDownStarts /\ Live(Candidate)
  /\ Storage => /\ nodes[Candidate].pgen = spec.gen /\ PreparedWithoutLayout(Candidate)
                /\ Cardinality(LiveStorageNodes) >= Factor
  /\ MayHandOff(Candidate)
  /\ handoff' = HandedOff(Candidate)
  /\ cw' = [Idle EXCEPT !.op = "delete", !.todo = {Candidate}]
  /\ UNCHANGED <<user, ready, nodes, claims, work, garage, drain, legacy, flight>>

\* Admission lets a storage member go only when it is drained or never had a role.
DeleteNode ==
  /\ cw.op = "delete"
  /\ \E n \in cw.todo :
       nodes' = IF Live(n) /\ (Storage => drain = NoDrain /\ PreparedWithoutLayout(n)) THEN [nodes EXCEPT ![n].del = TRUE] ELSE nodes
  /\ cw' = Idle
  /\ UNCHANGED <<user, ready, handoff, claims, work, garage, drain, legacy, flight>>

\* Auto to Manual: the user takes the objects over.
Eject(n) ==
  /\ cw = Idle /\ drain = NoDrain /\ spec.pol = "Manual" /\ n \in Managed
  /\ Set(n, [nodes[n] EXCEPT !.own = IF @ = "cluster" THEN "none" ELSE @, !.man = FALSE])
  /\ UNCHANGED <<user, ready, handoff, claims, work, garage, drain, legacy, cw, flight>>

\* recoverOrphanedStorageDrain, the only thing a pass does while a drain is recorded.
ActorOf == {n \in Objects : nodes[n].uid = drain.actor}
RecoverDrain ==
  /\ cw = Idle /\ drain # NoDrain /\ drain.done
  /\ IF ActorOf = {} THEN drain' = NoDrain /\ UNCHANGED nodes
     ELSE \E n \in ActorOf : /\ ~nodes[n].del /\ nodes[n].drain /\ nodes[n].pgen = spec.gen
                             /\ Set(n, [nodes[n] EXCEPT !.del = TRUE]) /\ UNCHANGED drain
  /\ UNCHANGED <<user, ready, handoff, claims, work, garage, legacy, cw, flight>>

\* A pass that meets no error ends with the managed rollout: it reports whether every live process runs at
\* this generation.  (Replacing outdated Pods is StorageRollout's.)
PassSucceeds == spec.pol = "Auto" => /\ Migrated /\ Unowned = {} /\ \A s \in Wanted : ~Ambiguous(s)
                                    /\ \A s \in Wanted : \A n \in Current(s) : HandoffStep(s, n) # "error"
Acknowledged(n) == work[n].own = nodes[n].uid /\ work[n].ack = <<spec.gen, nodes[n].prof>>
RolledOut(n) == Acknowledged(n) /\ Running(n) /\ nodes[n].obs = work[n].pod /\ Joined(n)
\* Mutant: the reason of the condition survives its change to True.
KeepWaitingReason ==
  /\ Storage /\ cw = Idle /\ drain = NoDrain /\ Objects # {} /\ PassSucceeds
  /\ ready' = IF \A n \in Objects : Live(n) => RolledOut(n) THEN [ok |-> TRUE, gen |-> spec.gen, wait |-> Transition]
              ELSE [ok |-> FALSE, gen |-> 0, wait |-> Transition]
  /\ ready' # ready
  /\ UNCHANGED <<user, handoff, nodes, claims, work, garage, drain, legacy, cw, flight>>
ReconcileStorageRollout ==
  /\ Storage /\ cw = Idle /\ drain = NoDrain /\ Objects # {} /\ PassSucceeds
  /\ ready' = IF \A n \in Objects : Live(n) => RolledOut(n) THEN [ok |-> TRUE, gen |-> spec.gen, wait |-> FALSE]
              ELSE [ok |-> FALSE, gen |-> 0, wait |-> Transition]
  /\ ready' # ready
  /\ UNCHANGED <<user, handoff, nodes, claims, work, garage, drain, legacy, cw, flight>>

-----------------------------------------------------------------------------
(* The cluster-level StatefulSet of the earlier releases.                  *)

Ordinals == 0..(legacy.reps - 1)
Lost == {s \in Ordinals : ~Present(LegacyDisk(s))}
\* Storage stops at the first claim that is missing, a gateway ordinal without one is left to the scan.
ToAdopt == {s \in Ordinals \ Lost : ~Exists(Canonical(s)) /\ (Storage => \A o \in Lost : s < o)}
Migrating == cw = Idle /\ drain = NoDrain /\ spec.pol = "Auto" /\ ~Migrated

\* The node is bound to the old claim; the identity of a storage process is also read from the live layout.
LegacyAdopt ==
  /\ Migrating /\ ToAdopt # {}
  /\ LET s == Min(ToAdopt)
         c == claims[LegacyDisk(s)]
     IN \E id \in {0} \cup {c.uid : o \in legacy.pods \cap (IF Storage THEN {s} ELSE {})} :
          /\ Set(Canonical(s), [Built(FreshNode, "cluster", LegacyDisk(s), 0) EXCEPT !.id = id])
          /\ claims' = [claims EXCEPT ![LegacyDisk(s)].ctl = IF @ = -1 THEN 0 ELSE @]
  /\ UNCHANGED <<user, ready, handoff, work, garage, drain, legacy, cw, flight>>

Leftover == legacy.reps = 0 /\ \E s \in Slot : Present(LegacyDisk(s))
LegacyRefused == Storage /\ (Leftover \/ Lost # {})
LegacyFail ==
  /\ Migrating /\ legacy.reps # -1 /\ ToAdopt = {} /\ LegacyRefused
  /\ legacy.cond # "Failed" /\ legacy' = [legacy EXCEPT !.cond = "Failed"]
  /\ UNCHANGED <<user, ready, handoff, nodes, claims, work, garage, drain, cw, flight>>

\* Orphan-delete: the Pods and the claims stay, and the Pods are deleted one by one afterwards.
LegacyDrop ==
  /\ Migrating /\ legacy.reps # -1 /\ ToAdopt = {} /\ ~LegacyRefused
  /\ legacy' = [legacy EXCEPT !.reps = -1]
  /\ claims' = [d \in Disk |-> IF Present(d) /\ claims[d].ctl = -1 THEN [claims[d] EXCEPT !.ctl = 0] ELSE claims[d]]
  /\ cw' = [Idle EXCEPT !.op = "pods", !.todo = Ordinals]
  /\ UNCHANGED <<user, ready, handoff, nodes, work, garage, drain, flight>>
LegacyPod ==
  /\ cw.op = "pods"
  /\ IF cw.todo # {}
     THEN /\ cw' = [cw EXCEPT !.todo = @ \ {Min(cw.todo)}]
          /\ legacy' = [legacy EXCEPT !.pods = @ \ {Min(cw.todo)}]
     ELSE /\ cw' = Idle
          /\ legacy' = [legacy EXCEPT !.cond = IF Storage THEN "Completed" ELSE @]
  /\ UNCHANGED <<user, ready, handoff, nodes, claims, work, garage, drain, flight>>
\* deleteOrphanLegacyStoragePods: storage alone looks again for Pods a crash left behind.
LegacySweep ==
  /\ Migrating /\ Storage /\ legacy.reps = -1
  /\ legacy' = [legacy EXCEPT !.pods = {}, !.cond = "Completed"]
  /\ UNCHANGED <<user, ready, handoff, nodes, claims, work, garage, drain, cw, flight>>

-----------------------------------------------------------------------------
(* The GarageNode controller: what lets a node reconcile, and whether the  *)
(* claim under its name is its own.                                        *)

Gate(n) == drain = NoDrain \/ drain.actor = nodes[n].uid
Reconciles(n) == Exists(n) /\ flight[n] = Grounded /\ Gate(n) /\ (nodes[n].own # "none" \/ spec.pol = "Manual")
Intended(n) == nodes[n].pgen \in {0, spec.gen}
Cycling(n) == nodes[n].cyc \/ nodes[n].phase # ""
Ordinary(n) == /\ Reconciles(n) /\ Live(n) /\ drain = NoDrain /\ Intended(n)
               /\ Transition \/ (~nodes[n].drain /\ ~Cycling(n))

\* Admission refuses to change the request while a drain is recorded.
CancelIntent(n) ==
  /\ Reconciles(n) /\ Live(n) /\ ~Intended(n) /\ (nodes[n].drain => drain = NoDrain)
  /\ Set(n, [nodes[n] EXCEPT !.drain = FALSE, !.pgen = 0, !.prep = FALSE])
  /\ UNCHANGED <<user, ready, handoff, claims, work, garage, drain, legacy, cw, flight>>

Own(n) == work[n].own = nodes[n].uid
ClaimOf(n) == claims[nodes[n].disk]
Controlled(n) == Own(n) /\ ClaimOf(n).ctl = nodes[n].uid
Handed(n) == nodes[n].own = "cluster" /\ nodes[n].slotted /\ nodes[n].man /\ handoff[nodes[n].disk].uid # 0
Authorized(n) ==
  LET h == handoff[nodes[n].disk] IN
  /\ h.uid = ClaimOf(n).uid /\ h.repl = nodes[n].uid /\ NonceMatches(n, h)
  /\ ClaimOf(n).pin \in {h.prev, h.repl}
\* Mutant: whatever answers to the name after a reservation counts as the reserved claim.
ReservedByName(n) == ClaimOf(n).uid # 0
Reserved(n) == ClaimOf(n).pin = nodes[n].uid /\ ClaimOf(n).nonce # 0 /\ ClaimOf(n).nonce = nodes[n].rec.v
\* A claim older than the records: its Pod has to be running on it.
Evidence(n) ==
  IF ClaimOf(n).ctl # 0 THEN Controlled(n)
  ELSE /\ ClaimOf(n).pin \in {0, nodes[n].uid} /\ ClaimOf(n).made # "foreign"
       /\ Own(n) /\ Running(n) /\ work[n].mount = ClaimOf(n).uid
Admitted(n) ==
  /\ ~ClaimOf(n).del
  /\ Handed(n) => Authorized(n)
  /\ CASE nodes[n].rec.k = "uid" -> nodes[n].rec.v = ClaimOf(n).uid
       [] nodes[n].rec.k = "hash" -> Reserved(n)
       [] OTHER -> Handed(n) \/ Evidence(n)
Fenced(n) == ClaimOf(n).fin = ~Controlled(n)
Conventional(n) == nodes[n].disk = n
Secured(n) ==
  Conventional(n) => /\ Present(n) /\ Admitted(n) /\ Fenced(n) /\ nodes[n].rec.k = "uid"
                     /\ Handed(n) => ClaimOf(n).pin = nodes[n].uid

\* The commitment is durable before the claim exists.
ReserveClaim(n) ==
  /\ Ordinary(n) /\ Conventional(n) /\ ~Present(n) /\ nodes[n].rec.k # "uid" /\ work[n].own \in {0, nodes[n].uid}
  /\ Set(n, [nodes[n] EXCEPT !.rec = [k |-> "hash", v |-> FreshNonce]])
  /\ flight' = [flight EXCEPT ![n] = [op |-> "claim", v |-> FreshNonce]]
  /\ UNCHANGED <<user, ready, handoff, claims, work, garage, drain, legacy, cw>>
CreateClaim(n) ==
  /\ flight[n].op = "claim"
  /\ claims' = IF Present(n) THEN claims
               ELSE [claims EXCEPT ![n] = [uid |-> FreshClaim, pin |-> nodes[n].uid, nonce |-> flight[n].v, fin |-> TRUE,
                                           del |-> FALSE, ctl |-> 0, made |-> "op"]]
  /\ Ground(n)
  /\ UNCHANGED <<user, ready, handoff, nodes, work, garage, drain, legacy, cw>>

\* ensureManagedNodePVCProvenance: fence, record, pin, each a write of its own.
Provenance(n) == Ordinary(n) /\ Conventional(n) /\ Present(n) /\ Admitted(n) /\ work[n].own \in {0, nodes[n].uid}
FenceClaim(n) ==
  /\ Provenance(n) /\ ~Fenced(n)
  /\ claims' = [claims EXCEPT ![n].fin = ~@]
  /\ UNCHANGED <<user, ready, handoff, nodes, work, garage, drain, legacy, cw, flight>>
RecordClaim(n) ==
  /\ Provenance(n) /\ Fenced(n) /\ nodes[n].rec.k # "uid"
  /\ Set(n, [nodes[n] EXCEPT !.rec = [k |-> "uid", v |-> ClaimOf(n).uid]])
  /\ flight' = [flight EXCEPT ![n].op = IF ClaimOf(n).pin = 0 THEN "pin" ELSE "idle"]
  /\ UNCHANGED <<user, ready, handoff, claims, work, garage, drain, legacy, cw>>
PinClaim(n) ==
  /\ \/ flight[n].op = "pin"
     \/ Provenance(n) /\ Fenced(n) /\ nodes[n].rec.k = "uid" /\ Handed(n) /\ ClaimOf(n).pin # nodes[n].uid
  /\ claims' = [claims EXCEPT ![n].pin = nodes[n].uid]
  /\ Ground(n)
  /\ UNCHANGED <<user, ready, handoff, nodes, work, garage, drain, legacy, cw>>

\* Mutant: the StatefulSet is created with Delete retention whatever the node asks for.
CreateDeletingWorkload(n) ==
  /\ Ordinary(n) /\ Secured(n) /\ work[n].own = 0
  /\ work' = [work EXCEPT ![n] = [own |-> nodes[n].uid, disk |-> nodes[n].disk, keep |-> FALSE, seen |-> FALSE,
                                   pod |-> 0, mount |-> 0, ack |-> <<spec.gen, nodes[n].prof>>]]
  /\ UNCHANGED <<user, ready, handoff, nodes, claims, garage, drain, legacy, cw, flight>>
CreateWorkload(n) ==
  /\ Ordinary(n) /\ Secured(n) /\ work[n].own = 0
  /\ work' = [work EXCEPT ![n] = [own |-> nodes[n].uid, disk |-> nodes[n].disk, keep |-> scene.keep, seen |-> FALSE,
                                   pod |-> 0, mount |-> 0, ack |-> <<spec.gen, nodes[n].prof>>]]
  /\ UNCHANGED <<user, ready, handoff, nodes, claims, garage, drain, legacy, cw, flight>>
UpdateWorkload(n) ==
  /\ Ordinary(n) /\ Secured(n) /\ Own(n) /\ (~Acknowledged(n) \/ work[n].keep # scene.keep)
  /\ work' = [work EXCEPT ![n].keep = scene.keep, ![n].seen = @ /\ work[n].keep = scene.keep, ![n].ack = <<spec.gen, nodes[n].prof>>]
  /\ UNCHANGED <<user, ready, handoff, nodes, claims, garage, drain, legacy, cw, flight>>

-----------------------------------------------------------------------------
(* Layout membership.                                                      *)

\* The identity is durable before the role is applied.
DiscoverID(n) ==
  /\ Ordinary(n) /\ Secured(n) /\ Own(n) /\ Running(n) /\ nodes[n].id = 0
  /\ Set(n, [nodes[n] EXCEPT !.id = work[n].mount, !.obs = work[n].pod])
  /\ UNCHANGED <<user, ready, handoff, claims, work, garage, drain, legacy, cw, flight>>
AddRole(n) ==
  /\ Ordinary(n) /\ Secured(n) /\ Own(n) /\ Running(n) /\ nodes[n].id = work[n].mount
  /\ nodes[n].id \notin roles /\ (settled \/ roles = {})
  /\ roles' = roles \cup {nodes[n].id} /\ settled' = FALSE
  /\ UNCHANGED <<user, ready, handoff, nodes, claims, work, drain, legacy, cw, flight>>
Seen(n) == [nodes[n] EXCEPT !.inl = nodes[n].id \in roles, !.cur = nodes[n].id \in roles, !.obs = work[n].pod]
\* Mutant: the Pod UID is recorded once and not renewed after a restart.
ObserveOnce(n) ==
  /\ Ordinary(n) /\ Secured(n) /\ Own(n) /\ Running(n) /\ nodes[n].id # 0 /\ nodes[n].obs = 0 /\ nodes[n] # Seen(n)
  /\ Set(n, Seen(n))
  /\ UNCHANGED <<user, ready, handoff, claims, work, garage, drain, legacy, cw, flight>>
Observe(n) ==
  /\ Ordinary(n) /\ Secured(n) /\ Own(n) /\ Running(n) /\ nodes[n].id # 0 /\ nodes[n] # Seen(n)
  /\ Set(n, Seen(n))
  /\ UNCHANGED <<user, ready, handoff, claims, work, garage, drain, legacy, cw, flight>>

AllUp == \A id \in roles : Up(id)
Drains(n) == Reconciles(n) /\ Live(n) /\ Storage /\ nodes[n].drain /\ Intended(n) /\ ~Transition
PrepareNoLayout(n) ==
  /\ Drains(n) /\ nodes[n].id = 0 /\ ~nodes[n].prep /\ work[n].own = 0
  /\ Set(n, [nodes[n] EXCEPT !.prep = TRUE])
  /\ UNCHANGED <<user, ready, handoff, claims, work, garage, drain, legacy, cw, flight>>
\* The generation is checked at the start of the reconcile, the drain published at its end.
BeginDrain(n) ==
  /\ Drains(n) /\ nodes[n].id # 0 /\ Up(nodes[n].id) /\ drain = NoDrain
  /\ flight' = [flight EXCEPT ![n].op = "drain"]
  /\ UNCHANGED <<user, ready, handoff, nodes, claims, work, garage, drain, legacy, cw>>
StartDrain(n) ==
  /\ flight[n].op = "drain" /\ Ground(n)
  /\ drain' = IF drain = NoDrain /\ settled /\ AllUp /\ Cardinality(roles \ {nodes[n].id}) >= Factor
              THEN [actor |-> nodes[n].uid, id |-> nodes[n].id, done |-> FALSE, dests |-> roles \ {nodes[n].id}] ELSE drain
  /\ UNCHANGED <<user, ready, handoff, nodes, claims, work, garage, legacy, cw>>
RemoveRole(n) ==
  /\ Drains(n) /\ drain.actor = nodes[n].uid /\ drain.id \in roles /\ AllUp
  /\ roles' = roles \ {drain.id} /\ settled' = FALSE
  /\ Set(n, [nodes[n] EXCEPT !.inl = FALSE])
  /\ UNCHANGED <<user, ready, handoff, claims, work, drain, legacy, cw, flight>>
FinishDrain(n) ==
  /\ Drains(n) /\ drain.actor = nodes[n].uid /\ drain.id \notin roles /\ settled /\ AllUp /\ Up(drain.id) /\ ~drain.done
  /\ drain' = [drain EXCEPT !.done = TRUE]
  /\ UNCHANGED <<user, ready, handoff, nodes, claims, work, garage, legacy, cw, flight>>

\* Deletion: the role first, then the claim, then the finalizer.
Proven(n) == drain # NoDrain /\ drain.actor = nodes[n].uid /\ drain.done /\ drain.id = nodes[n].id
Finalizes(n) == Reconciles(n) /\ nodes[n].del
RetireRole(n) ==
  /\ Finalizes(n) /\ ~Storage /\ nodes[n].id \in roles /\ settled
  /\ roles' = roles \ {nodes[n].id} /\ settled' = FALSE
  /\ UNCHANGED <<user, ready, handoff, nodes, claims, work, drain, legacy, cw, flight>>
\* Mutant: a gateway is released without waiting for its role to go.
ReleasedAtOnce(n) == IF Storage THEN Proven(n) \/ PreparedWithoutLayout(n) ELSE TRUE
Released(n) == IF Storage THEN Proven(n) \/ PreparedWithoutLayout(n) ELSE nodes[n].id \notin roles
ExactClaim(n) ==
  /\ Present(n) /\ Conventional(n)
  /\ \/ nodes[n].rec = [k |-> "uid", v |-> ClaimOf(n).uid]
     \/ nodes[n].rec.k = "hash" /\ Reserved(n)
Cleaned(c, reap) == [c EXCEPT !.fin = FALSE, !.del = @ \/ reap]
\* Mutant: the claim is deleted before the role is released.
CleanupClaimFirst(n) ==
  /\ Finalizes(n) /\ ExactClaim(n)
  /\ LET c == Cleaned(ClaimOf(n), ~scene.keep /\ ~Controlled(n)) IN
     /\ c # ClaimOf(n) /\ claims' = [claims EXCEPT ![n] = c]
  /\ UNCHANGED <<user, ready, handoff, nodes, work, garage, drain, legacy, cw, flight>>
CleanupClaim(n) ==
  /\ Finalizes(n) /\ Released(n) /\ ExactClaim(n)
  /\ LET c == Cleaned(ClaimOf(n), ~scene.keep /\ ~Controlled(n)) IN
     /\ c # ClaimOf(n) /\ claims' = [claims EXCEPT ![n] = c]
  /\ UNCHANGED <<user, ready, handoff, nodes, work, garage, drain, legacy, cw, flight>>
Finalize(n) ==
  /\ Finalizes(n) /\ Released(n)
  /\ ExactClaim(n) => ClaimOf(n) = Cleaned(ClaimOf(n), ~scene.keep /\ ~Controlled(n))
  /\ Set(n, NoNode)
  /\ UNCHANGED <<user, ready, handoff, claims, work, garage, drain, legacy, cw, flight>>

-----------------------------------------------------------------------------
(* The cycle: add before remove.                                           *)

Sib(n) == nodes[SiblingOf(n)]
Paired(n) == n[2] < MaxDepth /\ Exists(SiblingOf(n))
Bound(m) == Own(m) /\ Running(m) /\ nodes[m].obs = work[m].pod
LayoutReady(m) == Bound(m) /\ Joined(m)
\* A drain that is asked for has to be prepared before the cycle looks again.
CycleRuns(n) == Reconciles(n) /\ Live(n) /\ Cycling(n) /\ Intended(n) /\ ~Transition /\ (nodes[n].drain => Proven(n))
SourceReady(n) == ~nodes[n].drain /\ LayoutReady(n) /\ AllUp /\ drain = NoDrain
SiblingValid(n) ==
  /\ nodes[n].own = "none" => ~nodes[n].man /\ ~nodes[n].slotted
  /\ IF Sib(n).own = "node" THEN Sib(n).src = nodes[n].uid /\ (nodes[n].own = "cluster" => Sib(n).slotted)
     ELSE IF nodes[n].own = "cluster" THEN Sib(n).own = "cluster" /\ Sib(n).man /\ Sib(n).slotted
     ELSE Sib(n).own = "none"
Advances(n) == CycleRuns(n) /\ (nodes[n].cyc \/ nodes[n].drain)

\* The sibling is created before the phase that names it is durable.
Provision(n) ==
  /\ Advances(n) /\ nodes[n].phase = "" /\ SourceReady(n) /\ n[2] < MaxDepth /\ ~Paired(n)
  /\ Set(SiblingOf(n), [Built(FreshNode, "node", SiblingOf(n), 0) EXCEPT !.src = nodes[n].uid, !.slotted = nodes[n].own = "cluster",
                                                                         !.prof = nodes[n].prof])
  /\ flight' = [flight EXCEPT ![n].op = "phase"]
  /\ UNCHANGED <<user, ready, handoff, claims, work, garage, drain, legacy, cw>>
EnterProvisioning(n) ==
  /\ \/ flight[n].op = "phase"
     \/ Advances(n) /\ nodes[n].phase = "" /\ SourceReady(n) /\ Paired(n) /\ SiblingValid(n) /\ ~LayoutReady(SiblingOf(n))
  /\ Set(n, [nodes[n] EXCEPT !.phase = "Provisioning"]) /\ Ground(n)
  /\ UNCHANGED <<user, ready, handoff, claims, work, garage, drain, legacy, cw>>
\* A settled history is the join boundary; the drain is the data proof.
AdvanceCycle(n) ==
  /\ Advances(n) /\ nodes[n].phase # "Draining" /\ SourceReady(n) /\ Paired(n) /\ SiblingValid(n)
  /\ LayoutReady(SiblingOf(n)) /\ nodes[n].sibId \in {0, Sib(n).id}
  /\ Set(n, [nodes[n] EXCEPT !.sibId = Sib(n).id, !.phase = IF settled THEN "Draining" ELSE "Syncing"])
  /\ nodes' # nodes
  /\ UNCHANGED <<user, ready, handoff, claims, work, garage, drain, legacy, cw, flight>>
\* ensureCycleDrainRequested: the durable phase is the instruction to ask, again after a restart.
AskDrain(n) ==
  /\ Advances(n) /\ nodes[n].phase = "Draining" /\ Paired(n) /\ SiblingValid(n) /\ ~nodes[n].drain
  /\ Set(n, [nodes[n] EXCEPT !.drain = TRUE])
  /\ UNCHANGED <<user, ready, handoff, claims, work, garage, drain, legacy, cw, flight>>

\* completeCycleAfterDrainProof: the proof names the sibling, and the sibling still is what it names.
Replaces(n) == /\ Sib(n).id # 0 /\ Sib(n).id = nodes[n].sibId /\ Sib(n).id \in drain.dests
               /\ LayoutReady(SiblingOf(n))
Completes(n) == /\ Advances(n) /\ nodes[n].phase = "Draining" /\ nodes[n].drain
                /\ Paired(n) /\ SiblingValid(n) /\ Replaces(n)
RetainSource(n) ==
  /\ Completes(n) /\ Own(n) /\ ~work[n].keep
  /\ work' = [work EXCEPT ![n].keep = TRUE, ![n].seen = FALSE]
  /\ UNCHANGED <<user, ready, handoff, nodes, claims, garage, drain, legacy, cw, flight>>
Retained(n) == Own(n) /\ work[n].keep /\ work[n].seen /\ Running(n)
DetachSource(n) ==
  /\ Completes(n) /\ Retained(n) /\ ClaimOf(n).ctl = nodes[n].uid
  /\ claims' = [claims EXCEPT ![n].ctl = 0]
  /\ UNCHANGED <<user, ready, handoff, nodes, work, garage, drain, legacy, cw, flight>>
Detached(n) == Retained(n) /\ ClaimOf(n).ctl = 0
IsPromoted(n) == Sib(n).own # "node"
Promote(n) ==
  /\ Completes(n) /\ Detached(n) /\ ~IsPromoted(n)
  /\ Set(SiblingOf(n), IF nodes[n].own = "cluster" THEN [Sib(n) EXCEPT !.own = "cluster", !.src = 0, !.man = TRUE, !.slotted = TRUE]
                       ELSE [Sib(n) EXCEPT !.own = "none", !.src = 0])
  /\ UNCHANGED <<user, ready, handoff, claims, work, garage, drain, legacy, cw, flight>>
\* Mutant: the source goes before the sibling is promoted.
DeleteUnpromotedSource(n) ==
  /\ Completes(n) /\ Detached(n)
  /\ Set(n, [nodes[n] EXCEPT !.del = TRUE])
  /\ UNCHANGED <<user, ready, handoff, claims, work, garage, drain, legacy, cw, flight>>
DeleteSource(n) ==
  /\ Completes(n) /\ Detached(n) /\ IsPromoted(n)
  /\ Set(n, [nodes[n] EXCEPT !.del = TRUE])
  /\ UNCHANGED <<user, ready, handoff, claims, work, garage, drain, legacy, cw, flight>>

\* reconcileCycleCancellation: only once the user has removed the sibling.
ClearCycle(n) ==
  /\ CycleRuns(n) /\ ~nodes[n].cyc /\ nodes[n].phase # "" /\ ~nodes[n].drain /\ ~Paired(n)
  /\ Set(n, [nodes[n] EXCEPT !.phase = "", !.sibId = 0])
  /\ UNCHANGED <<user, ready, handoff, claims, work, garage, drain, legacy, cw, flight>>

-----------------------------------------------------------------------------
(* The user, through admission.                                            *)

DrainReady == drain = NoDrain /\ ready.ok /\ ready.gen = spec.gen /\ AllUp
Scale ==
  /\ Spend("scale") /\ drain = NoDrain /\ spec.pol = "Auto"
  /\ \E r \in 1..(MaxSlot + 1) \ {spec.rep} :
       /\ Storage /\ r < spec.rep => DrainReady
       /\ spec' = [spec EXCEPT !.rep = r, !.gen = @ + 1]
  /\ UNCHANGED <<scene, ready, handoff, nodes, claims, work, garage, drain, legacy, cw, flight>>
EditProfile ==
  /\ Spend("edit") /\ drain = NoDrain
  /\ spec' = [spec EXCEPT !.prof = 1 - @, !.gen = @ + 1]
  /\ UNCHANGED <<scene, ready, handoff, nodes, claims, work, garage, drain, legacy, cw, flight>>
GoManual ==
  /\ Spend("manual") /\ drain = NoDrain /\ spec.pol = "Auto"
  /\ spec' = [spec EXCEPT !.pol = "Manual", !.gen = @ + 1]
  /\ UNCHANGED <<scene, ready, handoff, nodes, claims, work, garage, drain, legacy, cw, flight>>
RequestCycle(n) ==
  /\ Spend("cycle") /\ Storage /\ Live(n) /\ ~Cycling(n) /\ ~nodes[n].drain /\ nodes[n].own # "node"
  /\ Conventional(n) /\ n[2] < MaxDepth /\ DrainReady /\ Joined(n) /\ nodes[n].obs # 0
  /\ Set(n, [nodes[n] EXCEPT !.cyc = TRUE])
  /\ UNCHANGED <<scene, spec, ready, handoff, claims, work, garage, drain, legacy, cw, flight>>
CancelCycle(n) ==
  /\ Spend("cancel") /\ Live(n) /\ nodes[n].cyc /\ drain = NoDrain /\ ~(nodes[n].phase = "Draining" /\ nodes[n].drain)
  /\ Set(n, [nodes[n] EXCEPT !.cyc = FALSE])
  /\ UNCHANGED <<scene, spec, ready, handoff, claims, work, garage, drain, legacy, cw, flight>>
\* What a blocked cancellation asks of the user.
Retire(n) == Live(n) /\ nodes[n].own = "node" /\ \E m \in Objects : SiblingOf(m) = n /\ ~nodes[m].cyc
UserDrain(n) ==
  /\ Retire(n) /\ ~nodes[n].drain /\ DrainReady /\ (Joined(n) \/ work[n].own = 0)
  /\ Set(n, [nodes[n] EXCEPT !.drain = TRUE])
  /\ UNCHANGED <<user, ready, handoff, claims, work, garage, drain, legacy, cw, flight>>
UserDelete(n) ==
  /\ Retire(n) /\ nodes[n].drain /\ (Proven(n) \/ (drain = NoDrain /\ PreparedWithoutLayout(n)))
  /\ Set(n, [nodes[n] EXCEPT !.del = TRUE])
  /\ UNCHANGED <<user, ready, handoff, claims, work, garage, drain, legacy, cw, flight>>
\* A claim of someone else under the predictable name, and its removal.
Squat(d) ==
  /\ Spend("squat") /\ ~Present(d) /\ d[2] >= 0
  /\ claims' = [claims EXCEPT ![d] = [uid |-> FreshClaim, pin |-> 0, nonce |-> 0, fin |-> FALSE, del |-> FALSE, ctl |-> 0, made |-> "foreign"]]
  /\ UNCHANGED <<scene, spec, ready, handoff, nodes, work, garage, drain, legacy, cw, flight>>
Unsquat(d) ==
  /\ Present(d) /\ claims[d].made = "foreign" /\ ~claims[d].del
  /\ claims' = [claims EXCEPT ![d].del = TRUE]
  /\ UNCHANGED <<user, ready, handoff, nodes, work, garage, drain, legacy, cw, flight>>
\* "scale the StatefulSet back up to its original replica count"
RestoreLegacy ==
  /\ Leftover /\ legacy.cond = "Failed"
  /\ legacy' = [legacy EXCEPT !.reps = spec.rep, !.pods = 0..(spec.rep - 1)]
  /\ UNCHANGED <<user, ready, handoff, nodes, claims, work, garage, drain, cw, flight>>

-----------------------------------------------------------------------------
(* Kubernetes and Garage.                                                  *)

\* The StatefulSet controller gives its claim an owner reference under Delete; once it has observed Retain it
\* gives none any more, whether or not it takes the old one back.
SyncRetention(n) ==
  /\ work[n].own # 0 /\ ~work[n].seen /\ (work[n].disk = n => Present(n))
  /\ work' = [work EXCEPT ![n].seen = TRUE]
  /\ IF work[n].disk # n THEN UNCHANGED claims
     ELSE \E ref \in IF work[n].keep THEN {0, claims[n].ctl} ELSE {IF claims[n].ctl = 0 THEN work[n].own ELSE claims[n].ctl} :
            claims' = [claims EXCEPT ![n].ctl = ref]
  /\ UNCHANGED <<user, ready, handoff, nodes, garage, drain, legacy, cw, flight>>
StartPod(n) ==
  /\ work[n].own # 0 /\ work[n].pod = 0 /\ Present(work[n].disk)
  /\ ~claims[work[n].disk].del /\ claims[work[n].disk].uid \notin Mounted
  /\ work' = [work EXCEPT ![n].pod = FreshPod, ![n].mount = claims[work[n].disk].uid]
  /\ UNCHANGED <<user, ready, handoff, nodes, claims, garage, drain, legacy, cw, flight>>
RestartPod(n) ==
  /\ Spend("restart") /\ Running(n)
  /\ work' = [work EXCEPT ![n].pod = 0, ![n].mount = 0]
  /\ UNCHANGED <<scene, spec, ready, handoff, nodes, claims, garage, drain, legacy, cw, flight>>
\* The garbage collector: the StatefulSet follows its node, its claims follow it.
CollectWork(n) ==
  /\ work[n].own # 0 /\ \A m \in Name : nodes[m].uid # work[n].own
  /\ work' = [work EXCEPT ![n] = NoWork]
  /\ claims' = [d \in Disk |-> IF Present(d) /\ claims[d].ctl = work[n].own THEN [claims[d] EXCEPT !.del = TRUE] ELSE claims[d]]
  /\ UNCHANGED <<user, ready, handoff, nodes, garage, drain, legacy, cw, flight>>
ClaimGone(d) ==
  /\ Present(d) /\ claims[d].del /\ ~claims[d].fin /\ claims[d].uid \notin Mounted
  /\ claims' = [claims EXCEPT ![d] = NoClaim]
  /\ UNCHANGED <<user, ready, handoff, nodes, work, garage, drain, legacy, cw, flight>>
Settle ==
  /\ ~settled /\ AllUp /\ settled' = TRUE
  /\ UNCHANGED <<user, ready, handoff, nodes, claims, work, roles, drain, legacy, cw, flight>>
Crash ==
  /\ Spend("crash") /\ <<cw, flight>> # <<Idle, [n \in Name |-> Grounded]>>
  /\ cw' = Idle /\ flight' = [n \in Name |-> Grounded]
  /\ UNCHANGED <<scene, spec, ready, handoff, nodes, claims, work, garage, drain, legacy>>

-----------------------------------------------------------------------------
(* What a behaviour starts from.                                           *)

NewClaim(uid, pin, ctl, made) ==
  [uid |-> uid, pin |-> pin, nonce |-> 0, fin |-> made = "op" /\ pin # 0, del |-> FALSE, ctl |-> ctl, made |-> made]
Joining(n, uid) == [Built(uid, "cluster", n, 0) EXCEPT !.id = uid, !.inl = TRUE, !.cur = TRUE, !.obs = uid, !.rec = [k |-> "uid", v |-> uid]]
Serving(uid, n) == [own |-> uid, disk |-> n, keep |-> scene.keep, seen |-> TRUE, pod |-> uid, mount |-> uid, ack |-> <<1, 0>>]
Old == scene.start \in {"legacy", "legacyZero", "legacyLost"}
Members == IF scene.start \in {"serving", "unproven", "promoted"} THEN 0..(scene.rep - 1) ELSE {}
Home(s) == IF scene.start = "promoted" /\ s = 0 THEN <<0, 1>> ELSE Canonical(s)
Homes == {Home(s) : s \in Members}
\* Objects of the releases before the records: no UID in the status, no pin and no barrier on the claim.
StartNode(n) ==
  LET r == Joining(n, n[1] + 1) IN
  IF scene.start = "unproven" THEN [r EXCEPT !.rec = NoRec]
  ELSE IF n[2] = 1 THEN [r EXCEPT !.own = "none", !.slotted = FALSE] ELSE r
StartClaim(d) ==
  IF Old /\ d[2] = -1 /\ d[1] < scene.rep /\ ~(scene.start = "legacyLost" /\ d[1] = 1)
  THEN NewClaim(d[1] + 1, 0, IF Storage THEN 0 ELSE -1, "legacy")
  ELSE IF d \in Homes THEN NewClaim(d[1] + 1, IF scene.start = "unproven" THEN 0 ELSE d[1] + 1, IF scene.keep THEN 0 ELSE d[1] + 1, "op")
  ELSE NoClaim

Init ==
  /\ scene \in Scenes
  /\ spec = [rep |-> scene.rep, pol |-> "Auto", prof |-> 0, gen |-> 1]
  /\ ready = [ok |-> Members # {}, gen |-> IF Members # {} THEN 1 ELSE 0, wait |-> FALSE]
  /\ handoff = [d \in Disk |-> NoHandoff]
  /\ nodes = [n \in Name |-> IF n \in Homes THEN StartNode(n) ELSE NoNode]
  /\ claims = [d \in Disk |-> StartClaim(d)]
  /\ work = [n \in Name |-> IF n \in Homes THEN Serving(n[1] + 1, n) ELSE NoWork]
  /\ roles = {claims[d].uid : d \in {e \in Disk : Present(e)}} /\ settled = TRUE
  /\ drain = NoDrain
  /\ legacy = [reps |-> IF scene.start \in {"legacy", "legacyLost"} THEN scene.rep ELSE IF scene.start = "legacyZero" THEN 0 ELSE -1,
               pods |-> IF scene.start \in {"legacy", "legacyLost"} THEN {s \in Slot : Present(LegacyDisk(s))} ELSE {},
               cond |-> IF Members # {} THEN "Completed" ELSE ""]
  /\ cw = Idle /\ flight = [n \in Name |-> Grounded] /\ spent = [k \in DOMAIN scene.b |-> 0]

ClusterNext ==
  \/ ReconcileHandoff \/ StartCreate \/ Reserve \/ CreateNode \/ BindReplacement \/ UpdateNode
  \/ RequestDrain \/ PublishHandoff \/ DeleteNode \/ RecoverDrain \/ ReconcileStorageRollout
  \/ LegacyAdopt \/ LegacyFail \/ LegacyDrop \/ LegacyPod \/ LegacySweep
  \/ \E n \in Name : AdoptPromoted(n) \/ Eject(n)
NodeNext(n) ==
  \/ CancelIntent(n) \/ ReserveClaim(n) \/ CreateClaim(n) \/ FenceClaim(n) \/ RecordClaim(n) \/ PinClaim(n)
  \/ CreateWorkload(n) \/ UpdateWorkload(n) \/ DiscoverID(n) \/ AddRole(n) \/ Observe(n)
  \/ PrepareNoLayout(n) \/ BeginDrain(n) \/ StartDrain(n) \/ RemoveRole(n) \/ FinishDrain(n)
  \/ RetireRole(n) \/ CleanupClaim(n) \/ Finalize(n)
CycleNext(n) ==
  \/ Provision(n) \/ EnterProvisioning(n) \/ AdvanceCycle(n) \/ AskDrain(n)
  \/ RetainSource(n) \/ DetachSource(n) \/ Promote(n) \/ DeleteSource(n) \/ ClearCycle(n)
KubeNext(n) == SyncRetention(n) \/ StartPod(n) \/ CollectWork(n)
UserNext == Scale \/ EditProfile \/ GoManual \/ Crash \/ \E n \in Name : RequestCycle(n) \/ CancelCycle(n) \/ RestartPod(n) \/ Squat(n)
\* The user finishes a cancellation, a squatter leaves, and a refused migration is answered.
AnswerNext == RestoreLegacy \/ \E n \in Name : UserDrain(n) \/ UserDelete(n) \/ Unsquat(n)
OperatorNext == ClusterNext \/ \E n \in Name : NodeNext(n) \/ CycleNext(n)
WorldNext == AnswerNext \/ Settle \/ (\E n \in Name : KubeNext(n)) \/ \E d \in Disk : ClaimGone(d)
Next == OperatorNext \/ WorldNext \/ UserNext

Spec == Init /\ [][Next]_vars
\* Controllers requeue what is unfinished, Kubernetes and Garage make progress; nobody has to scale, cycle,
\* squat or crash.  One condition for each side is enough: among themselves neither loops, except that a
\* drain is tried again and again until Kubernetes and Garage have settled.
FairSpec == Spec /\ WF_vars(OperatorNext) /\ WF_vars(WorldNext)

-----------------------------------------------------------------------------
(* Properties                                                              *)

\* Every variable stays in its range; ReconcileStorageRollout never reports Ready and a reason to wait at once.
TypeOK ==
  /\ spec.rep \in 1..(MaxSlot + 1) /\ spec.pol \in {"Auto", "Manual"} /\ ready.gen \in 0..spec.gen /\ ~(ready.ok /\ ready.wait)
  /\ \A n \in Objects : /\ nodes[n].uid \in 1..MaxNode /\ nodes[n].own \in {"cluster", "node", "none"}
                        /\ nodes[n].phase \in {"", "Provisioning", "Syncing", "Draining"}
                        /\ nodes[n].disk \in Disk /\ nodes[n].id \in 0..MaxClaim
                        /\ nodes[n].rec.k = "uid" => nodes[n].rec.v \in 1..MaxClaim
  /\ \A d \in Disk : Present(d) => claims[d].uid \in 1..MaxClaim /\ claims[d].made \in {"op", "foreign", "legacy"}
  /\ roles \subseteq 1..MaxClaim /\ drain # NoDrain => drain.actor \in 1..MaxNode /\ drain.id \in 1..MaxClaim

\* The process of a node never runs on a claim somebody else put under the predictable name, and runs
\* on exactly the claim whose UID the node recorded (validateConventionNamedNodePVCs).
DiskIsOurs ==
  \A n \in Objects : Own(n) /\ Running(n) =>
    /\ \A d \in Disk : Present(d) /\ claims[d].uid = work[n].mount => claims[d].made # "foreign"
    /\ nodes[n].rec.k = "uid" => nodes[n].rec.v = work[n].mount

\* No role outlives the object that could drain it: each belongs to a node that recorded the identity or is
\* bound to its disk.  An old gateway ordinal is the exception: its node may be scaled away before it has
\* learnt the identity, and then a role without capacity stays.
RoleHasNode ==
  \A id \in roles : \/ \E n \in Objects : id = nodes[n].id \/ (nodes[n].disk[2] = -1 /\ id = ClaimOf(n).uid)
                    \/ (legacy.reps >= 0 \/ ~Storage) /\ \E s \in Slot : claims[LegacyDisk(s)].uid = id

\* The disk of an identity that has a role is there and is not being deleted.
RoleHasDisk == \A id \in roles : \E d \in Disk : claims[d].uid = id /\ ~claims[d].del

\* While status promises a retained claim to the next holder of an ordinal, that very claim is kept, and
\* it is pinned to the one that left it or to the one it is promised to.
HandoffIsUsable ==
  \A d \in Disk : handoff[d].uid # 0 =>
    /\ claims[d].uid = handoff[d].uid /\ ~claims[d].del
    /\ claims[d].pin \in {handoff[d].prev, handoff[d].repl}

\* The source of a cycle is deleted only for a sibling that has been promoted and is in the layout, unless
\* the cluster itself asked for the deletion.
SourceOutlivesProof ==
  \A n \in Objects : nodes[n].del /\ nodes[n].phase = "Draining" /\ nodes[n].pgen = 0 =>
    Paired(n) /\ Live(SiblingOf(n)) /\ IsPromoted(n) /\ Sib(n).id \in roles

\* The dead ends: states the controllers leave only if the user edits something.  Each is a hazard of the
\* code that the README describes.
\* A drain published for a request that a later edit of the cluster withdrew: neither goes on nor away.
StaleIntent == \E n \in ActorOf : Live(n) /\ ~Intended(n)
\* A Pod restarted while its node is the source or the sibling of a cycle: the observation is never renewed.
StaleCycle == \E n \in Objects : Cycling(n) /\ \E m \in {n, SiblingOf(n)} \cap Objects : ~Bound(m)
\* The source of a cycle was scaled away and its sibling never promoted.
OrphanSibling == \E n \in Objects : nodes[n].own = "node" /\ ~\E m \in Objects : nodes[m].uid = nodes[n].src
\* A node taken over from Auto mode keeps the slot label, which every later cycle refuses.
EjectedCycle == \E n \in Objects : Cycling(n) /\ nodes[n].own = "none" /\ nodes[n].slotted
\* A retained claim that the successor cannot prove its own, because no handoff was published for it.
PinnedClaim == \E n \in Objects : Conventional(n) /\ Present(n) /\ ClaimOf(n).made = "op" /\ ~Handed(n) /\ ~Own(n) /\ ~Admitted(n)
\* A claim that was recorded but not pinned, or whose earlier handoff was not cleared, cannot be handed off.
HandoffRefused == Extras # {} /\ ~MayHandOff(Candidate)
\* The old gateway Pods outlive their StatefulSet, and nothing looks for them again.
LegacyPodsLeft == ~Storage /\ Migrated /\ legacy.pods # {}
DeadEnd == \/ StaleIntent \/ StaleCycle \/ OrphanSibling \/ EjectedCycle \/ PinnedClaim \/ HandoffRefused \/ LegacyPodsLeft
           \/ LegacyRefused

\* Every ordinal is served by one joined member and nothing is left over; under Manual every node that was
\* handed over still serves.
ServedBy(n) == Live(n) /\ LayoutReady(n) /\ nodes[n].id \in roles /\ ~nodes[n].drain /\ ~Cycling(n)
Served(s) == \E n \in Name : Current(s) = {n} /\ ServedBy(n) /\ nodes[n].prof = spec.prof
Stable == /\ drain = NoDrain /\ settled /\ legacy.pods = {}
          /\ IF spec.pol = "Manual" THEN Managed = {} /\ \A n \in Objects : ServedBy(n)
             ELSE /\ Migrated /\ \A s \in Wanted : Served(s)
                  /\ {n[1] : n \in Objects} = Wanted /\ Objects = Managed
                  /\ \A d \in Disk : handoff[d].uid # 0 => d[1] \notin Wanted
Converges == <>[](Stable \/ DeadEnd)

\* "Retain: PVCs for scaled-down pods are kept (allows scaling back up)": an ordinal that is wanted again gets a
\* member again.  Nothing but the user's two edits is needed to refute it: the drained member is deleted by
\* RecoverDrain, which publishes no handoff.
RetainedSlotsReturn == \A s \in Slot : (s \in Wanted) ~> (s \notin Wanted \/ Served(s))

\* The state is well formed, and a role in the layout has the node that can drain it and the disk that holds its
\* blocks (reconcileNode, finalize, cleanupOwnerlessManagedNodePVCs).
RoleIsBacked == TypeOK /\ RoleHasNode /\ RoleHasDisk
=============================================================================
