--------------------------- MODULE NodeLocalPool ---------------------------
(***************************************************************************)
(* The node-local pools of GarageClusters.  A pool selects Kubernetes      *)
(* Nodes; on each of them one Pod of the pool's DaemonSet mounts HostPaths *)
(* that hold a durable Garage identity.  The operator, not the selector,   *)
(* decides where a Pod may run: it writes an activation label (a token the *)
(* DaemonSet's template selects) and a HostPath claim on the Node, and it  *)
(* takes the scheduling gate off each Pod.  A member is retired in the     *)
(* opposite order: the claim is marked retiring, the GarageNode drained    *)
(* and deleted, the DaemonSet moved to a token the Node never carried, the *)
(* label taken off, and the claim released last.                           *)
(*                                                                         *)
(* Every pool uses the same HostPaths, so two Pods that are mounted on one *)
(* Node share a disk.  The durable identity of a disk is its Node: the     *)
(* claim's garageNodeID and the recovery annotation, which are written and *)
(* removed together, say only whether it is known.                         *)
(***************************************************************************)
EXTENDS Naturals, FiniteSets, FiniteSetsExt

CONSTANTS
  Cluster, Pool, Node,   \* GarageClusters, pools (numbers: the phases sort them), Kubernetes Nodes
  Scenes,                \* the topologies a behaviour starts from, each with its bounds
  Factor,                \* spec.replication.factor
  MaxUID, MaxToken       \* bounds: DaemonSet incarnations and activation tokens

ASSUME NodeLocalPoolAssumption ==
  /\ Pool \subseteq Nat /\ Node \subseteq Nat /\ IsFiniteSet(Pool) /\ IsFiniteSet(Node)
  /\ {Factor, MaxUID, MaxToken} \subseteq Nat
  /\ \A x \in Scenes : /\ x.owner \in [Pool -> Cluster] /\ x.decl \subseteq Pool
                       /\ x.match \in [Pool -> SUBSET Node] /\ x.others \in Nat

VARIABLES
  scene,    \* who owns which pool, storage roles that are not node-local, what is edited, bounds on edits and faults
  spec,     \* per cluster: generation, declared pools, deletion
  match,    \* per pool: the Nodes its selector matches
  label,    \* per pool and Node: the activation label's token
  claim,    \* per pool and Node: the HostPath claim
  ds,       \* per pool: the DaemonSet
  pods,     \* the Pods of the pools
  late,     \* creates the DaemonSet controller has decided on and not finished
  gn,       \* per pool and Node: the generated GarageNode
  roles,    \* the pairs with a role in the committed layout
  settled,  \* per cluster: no layout version is draining and nothing is staged
  drain,    \* per cluster: the member status.storageDrain is about
  cond,     \* per cluster: the condition NodeLocalPoolsReady
  w,        \* per cluster: the reconcile under way
  config,   \* the pools whose configuration resources exist
  spent     \* what the bounds count

vars == <<scene, spec, match, label, claim, ds, pods, late, gn, roles, settled, drain, cond, w, config, spent>>

owner == scene.owner
others == scene.others
Pair == Pool \X Node
None == 0
Fence == 0                                  \* a template with it selects no Node
Quarantine == MaxToken + 1                  \* a label no template selects
Token == 0..(MaxToken + 1)
Active(t) == t \notin {None, Quarantine}

NoClaim == [on |-> FALSE, ret |-> FALSE, id |-> FALSE]
NoDS == [uid |-> 0, tok |-> Fence, fence |-> {}, seen |-> TRUE]
IdleWorker == [pc |-> "idle", gen |-> 0, decl |-> {}, want |-> {}, have |-> {}, ret |-> {}, cand |-> {},
               act |-> FALSE, hold |-> FALSE, wait |-> FALSE, fin |-> FALSE]

Declared == UNION {spec[c].decl : c \in Cluster}
Mine(c) == {p \in Pool : owner[p] = c}
Foreign(p) == {q \in Pool : owner[q] # owner[p]}
Mounted(x) == x.st \in {"on", "dying"}       \* spec.nodeName is set
Targets(pr, x) == x.p = pr[1] /\ x.n = pr[2]
Current(x) == ds[x.p].uid = x.uid /\ x.uid # 0
Running(pr) == \E x \in pods : Targets(pr, x) /\ Current(x) /\ x.st = "on"
RolesOf(c) == {pr \in roles : owner[pr[1]] = c}
Members(c) == {pr \in Pair : owner[pr[1]] = c /\ gn[pr] # "none"}

(* Tokens and UIDs are hashes and UUIDs: a new one differs from all that   *)
(* can still be seen.  Within the bounds, who needs one waits until one of *)
(* them is seen no more.                                                   *)
UnseenTokens == 1..MaxToken \ ({ds[p].tok : p \in Pool} \cup {label[pr] : pr \in Pair}
                                 \cup {x.tok : x \in pods \cup late})
FreshToken == Min(UnseenTokens)
UnseenUIDs == 1..MaxUID \ ({ds[p].uid : p \in Pool} \cup {x.uid : x \in pods \cup late})
FreshUID == Min(UnseenUIDs)

Goto(c, pc) == w' = [w EXCEPT ![c].pc = pc]
Stop(c) == w' = [w EXCEPT ![c] = IdleWorker]
Unready(c) == cond' = [cond EXCEPT ![c] = "False"]
First(S) == CHOOSE a \in S : \A b \in S : a[1] < b[1] \/ (a[1] = b[1] /\ a[2] <= b[2])
\* The Admin API answers when some process of the cluster runs.
AdminUp(c) == others > 0 \/ \E pr \in Pair : owner[pr[1]] = c /\ Running(pr)

-----------------------------------------------------------------------------
(* HostPath ownership: claims of any other pool, and of foreign clusters   *)
(* whatever still shows that they use or will use the disk.                *)

ClaimedElsewhere(pr) == \E q \in Pool \ {pr[1]} : claim[<<q, pr[2]>>].on
ForeignSelection(pr) == \E q \in Foreign(pr[1]) \cap Declared :
  pr[2] \in match[q] \/ Active(label[<<q, pr[2]>>]) \/ claim[<<q, pr[2]>>].id
ForeignWorkload(pr) == \E q \in Foreign(pr[1]) :
  (ds[q].uid # 0 /\ Active(label[<<q, pr[2]>>])) \/ gn[<<q, pr[2]>>] # "none"
MountedElsewhere(pr) == \E x \in pods : x.n = pr[2] /\ Mounted(x) /\ ~(x.p = pr[1] /\ Current(x))
HostPathConflict(pr) ==
  ClaimedElsewhere(pr) \/ ForeignSelection(pr) \/ ForeignWorkload(pr) \/ MountedElsewhere(pr)

-----------------------------------------------------------------------------
(* preflight: the desired members without the ones that are retiring, and  *)
(* the GarageNodes that exist.                                             *)

Selected(c) == {pr \in Pair : pr[1] \in spec[c].decl /\ pr[2] \in match[pr[1]]}
SelectorConflict(c) == \E a, b \in Selected(c) : a # b /\ a[2] = b[2]
PersistedRetirements(c) == {pr \in Selected(c) : claim[pr].ret}

(* Whatever is left of the feature keeps the reconcile going.              *)
\* Mutant: a cluster that declares no pool has nothing to do.
RequiredByDeclaration(c) == spec[c].decl # {}
Required(c) ==
  \/ spec[c].decl # {} \/ Members(c) # {} \/ cond[c] # "absent"
  \/ \E p \in Mine(c) : ds[p].uid # 0

Preflight(c) ==
  /\ w[c].pc = "idle" /\ ~spec[c].del /\ Required(c)
  /\ ~SelectorConflict(c)
  /\ LET want == Selected(c) \ PersistedRetirements(c) IN
       /\ \A pr \in want : ~HostPathConflict(pr)
       /\ w' = [w EXCEPT ![c] = [IdleWorker EXCEPT !.pc = "publish", !.gen = spec[c].gen, !.decl = spec[c].decl, !.want = want,
                                  !.have = Members(c), !.ret = PersistedRetirements(c)]]
  /\ UNCHANGED <<scene, spec, match, label, claim, ds, pods, late, gn, roles, settled, drain, cond, config, spent>>

-----------------------------------------------------------------------------
(* ensureNodeLocalPoolActivation: the last checks before the Node update,  *)
(* which is a CAS.  It shares the layout lock with drain publication.      *)

Activatable(c, pr) ==
  /\ spec[c].gen = w[c].gen /\ ~spec[c].del /\ pr[1] \in spec[c].decl
  /\ drain[c] = {}
  /\ pr[2] \in match[pr[1]]
  /\ \A q \in spec[c].decl \ {pr[1]} : pr[2] \notin match[q]
  /\ ~HostPathConflict(pr)
  /\ ~claim[pr].ret

EnsureActivation(S, pinned) ==
  /\ label' = [pr \in Pair |-> IF pr \in S THEN ds[pr[1]].tok ELSE label[pr]]
  /\ claim' = [pr \in Pair |-> IF pr \in S
                 THEN [on |-> TRUE, ret |-> FALSE, id |-> claim[pr].id \/ pr \in pinned] ELSE claim[pr]]

-----------------------------------------------------------------------------
(* publishWorkloads.  Members that are active must still be publishable;   *)
(* a Node that carries another pool's label is a move and stops it.        *)

ActiveMembers(c) == {pr \in w[c].want : Active(label[pr]) /\ label[pr] = ds[pr[1]].tok}
PublishRefused(c) ==
  \/ drain[c] = {} /\ \E pr \in ActiveMembers(c) : ~claim[pr].ret /\ ~Activatable(c, pr)
  \/ \E pr \in w[c].want : \E q \in Mine(c) \ {pr[1]} : label[<<q, pr[2]>>] # None
  \/ \E a, b \in w[c].have : a # b /\ a[2] = b[2]
PoolPods(p) == {x \in pods : x.p = p}
Behind(c) == {p \in w[c].decl : ds[p].tok = Fence}      \* no DaemonSet, or one that has no token yet
QuarantineNodes(p) == label' = [pr \in Pair |-> IF pr[1] = p /\ label[pr] # None THEN Quarantine ELSE label[pr]]

NoPreviousPods(p) == PoolPods(p) = {}

PublishWorkloads(c) ==
  /\ w[c].pc = "publish"
  /\ \/ PublishRefused(c) /\ Stop(c) /\ Unready(c) /\ UNCHANGED <<label, ds, config>>
     \/ /\ ~PublishRefused(c) /\ Behind(c) = {}
        /\ Goto(c, "cleanup") /\ UNCHANGED <<label, ds, config, cond>>
     \/ /\ ~PublishRefused(c) /\ Behind(c) # {}
        /\ LET p == Min(Behind(c)) IN
             /\ QuarantineNodes(p)
             /\ IF ~NoPreviousPods(p) THEN Stop(c) /\ UNCHANGED <<ds, config>>
                ELSE IF ds[p].uid = 0
                THEN /\ UnseenUIDs # {} /\ ds' = [ds EXCEPT ![p] = [NoDS EXCEPT !.uid = FreshUID]]
                     /\ config' = config \cup {p} /\ Goto(c, "token")
                ELSE /\ UnseenTokens # {} /\ ds' = [ds EXCEPT ![p].tok = FreshToken, ![p].seen = FALSE]
                     /\ UNCHANGED <<w, config>>
        /\ UNCHANGED cond
  /\ UNCHANGED <<scene, spec, match, claim, pods, late, gn, roles, settled, drain, spent>>

(* The DaemonSet is created behind the fence; its token comes from the UID *)
(* the API server gave it.  A crash between the two is a Behind pool.      *)
PublishToken(c) ==
  /\ w[c].pc = "token"
  /\ LET p == Min(Behind(c)) IN
       IF ds[p].uid = 0 THEN Stop(c) /\ UNCHANGED ds
       ELSE /\ UnseenTokens # {} /\ ds' = [ds EXCEPT ![p].tok = FreshToken, ![p].seen = FALSE]
            /\ Goto(c, "publish")
  /\ UNCHANGED <<scene, spec, match, label, claim, pods, late, gn, roles, settled, drain, cond, config, spent>>

-----------------------------------------------------------------------------
(* cleanupNodeLocalPoolActivationState.                                    *)

Retiring(c) == {pr \in Pair : /\ owner[pr[1]] = c /\ (label[pr] # None \/ claim[pr].on)
                              /\ pr \notin w[c].have
                              /\ (pr \in w[c].want => claim[pr].ret)}
RetiringIn(c, p) == {n \in Node : <<p, n>> \in Retiring(c)}

(* The membership fence: a token the retiring Nodes never carried, and     *)
(* every older create of the DaemonSet controller finished.  The pools are *)
(* taken in order, and survivors follow to the new token one reconcile     *)
(* each.                                                                   *)
Fenced(c, p) == ds[p].fence = RetiringIn(c, p)
FenceUnobserved(p) == ~ds[p].seen
Strays(c, p) == {pr \in w[c].want : pr[1] = p /\ label[pr] # ds[p].tok /\ pr \notin Retiring(c)}
Fencing(c) == {p \in Mine(c) : /\ RetiringIn(c, p) # {} /\ ds[p].uid # 0
                               /\ ~Fenced(c, p) \/ FenceUnobserved(p) \/ Strays(c, p) # {}}
CanMigrate(c, pr) ==
  /\ spec[c].gen = w[c].gen /\ ~spec[c].del /\ pr[2] \in match[pr[1]]
  /\ claim[pr].on /\ ~claim[pr].ret /\ Active(label[pr])

EnsureMembershipFence(c) ==
  /\ w[c].pc = "cleanup" /\ Fencing(c) # {}
  /\ LET p == Min(Fencing(c)) IN
       IF ~Fenced(c, p)
       THEN /\ UnseenTokens # {} /\ UNCHANGED label
            /\ ds' = [ds EXCEPT ![p].tok = FreshToken, ![p].fence = RetiringIn(c, p), ![p].seen = FALSE]
       ELSE /\ label' = IF ~FenceUnobserved(p) /\ CanMigrate(c, First(Strays(c, p)))
                        THEN [label EXCEPT ![First(Strays(c, p))] = ds[p].tok] ELSE label
            /\ UNCHANGED ds
  /\ Stop(c) /\ Unready(c)
  /\ UNCHANGED <<scene, spec, match, claim, pods, late, gn, roles, settled, drain, config, spent>>

(* Labels go before annotations, and a claim is released only when nothing *)
(* can still use the disk and the settled layout has no role for it.       *)
Kept(c, pr) ==
  \/ pr \in w[c].want /\ ~claim[pr].ret
  \/ pr \in w[c].have
  \/ pr[1] \notin w[c].decl /\ ds[pr[1]].uid # 0
  \/ \E x \in pods : Targets(pr, x)
RoleProvenAbsent(c, pr) == ~claim[pr].id \/ (AdminUp(c) /\ settled[c] /\ pr \notin roles)

TakenLabels(c) == {pr \in Retiring(c) : label[pr] # None}
Releasable(c) == {pr \in Retiring(c) : /\ claim[pr].on /\ ~Kept(c, pr) /\ RoleProvenAbsent(c, pr)
                                       /\ \A q \in Pool : <<q, pr[2]>> \notin TakenLabels(c)}
MarkRetiring(c, pr) == [claim[pr] EXCEPT !.ret = @ \/ (claim[pr].on /\ pr \in Retiring(c))]
CleanupActivationState(c) ==
  /\ w[c].pc = "cleanup" /\ Fencing(c) = {}
  /\ claim' = [pr \in Pair |-> IF pr \in Releasable(c) THEN NoClaim ELSE MarkRetiring(c, pr)]
  /\ label' = [pr \in Pair |-> IF pr \in TakenLabels(c) THEN None ELSE label[pr]]
  /\ IF TakenLabels(c) # {} THEN Stop(c) /\ Unready(c)
     ELSE /\ w' = [w EXCEPT ![c].hold = Retiring(c) # {},
                            ![c].pc = IF Retiring(c) # {} /\ ~w[c].fin THEN "gates" ELSE "sweep"]
          /\ UNCHANGED cond
  /\ UNCHANGED <<scene, spec, match, ds, pods, late, gn, roles, settled, drain, config, spent>>

(* cleanupRetiredNodeLocalPoolResources: the DaemonSet of a pool that is   *)
(* neither declared nor has a GarageNode, then its Pods, then what they    *)
(* mount.                                                                  *)
Retired(c) == {p \in Mine(c) : p \notin w[c].decl /\ \A n \in Node : <<p, n>> \notin w[c].have}
DeleteRetiredDS(c) == {p \in Retired(c) : ds[p].uid # 0}
\* Mutant: the configuration goes with the DaemonSet, before its Pods.
ConfigOfRetired(c) == Retired(c) \cap config
UnmountedConfig(c) == {p \in Retired(c) \cap config : PoolPods(p) = {}}
CleanupRetiredResources(c) ==
  /\ w[c].pc = "sweep"
  /\ IF DeleteRetiredDS(c) # {}
     THEN ds' = [ds EXCEPT ![Min(DeleteRetiredDS(c))] = NoDS] /\ UNCHANGED config
     ELSE config' = config \ UnmountedConfig(c) /\ UNCHANGED ds
  /\ IF \/ DeleteRetiredDS(c) # {} \/ UnmountedConfig(c) # {} \/ w[c].hold
        \/ \E p \in Retired(c) : PoolPods(p) # {}
     THEN Stop(c) /\ Unready(c)
     ELSE Goto(c, IF w[c].fin THEN "project" ELSE "activate") /\ UNCHANGED cond
  /\ UNCHANGED <<scene, spec, match, label, claim, pods, late, gn, roles, settled, drain, spent>>

-----------------------------------------------------------------------------
(* clusterLayoutReadyForMutation.                                          *)

PendingActivation(c) == {pr \in Pair : owner[pr[1]] = c /\ Active(label[pr]) /\ gn[pr] = "none"}
Bootstrap(c) == others = 0 /\ {pr \in roles : owner[pr[1]] = c} = {}
LayoutReady(c, ignored) ==
  /\ \A pr \in Members(c) \ ignored : gn[pr] = "ready"
  /\ AdminUp(c) /\ PendingActivation(c) = {} /\ settled[c]
ReadyForBootstrap(c) ==
  /\ \A pr \in Members(c) : gn[pr] # "del"
  /\ Bootstrap(c)
  /\ \/ Members(c) = {} /\ PendingActivation(c) = {} /\ others = 0
     \/ AdminUp(c) /\ settled[c]

-----------------------------------------------------------------------------
(* observeActors, planActivations, executeActivations.  A known identity   *)
(* is one on the Node, in the GarageNode's status or in the layout.        *)

Known(c, pr) == claim[pr].id \/ gn[pr] \in {"ready", "del"} \/ (AdminUp(c) /\ pr \in roles)
Mover(c, pr) == \E q \in Pool \ {pr[1]} : <<q, pr[2]>> \in w[c].have
PreviousPod(c, pr) == \E x \in pods : x.n = pr[2] /\ Mounted(x) /\ owner[x.p] = c /\ ~(x.p = pr[1] /\ Current(x))
Plannable(c) == {pr \in w[c].want : ~Mover(c, pr) /\ ~PreviousPod(c, pr)}
Immediate(c) == {pr \in Plannable(c) : IF label[pr] = ds[pr[1]].tok THEN drain[c] = {} ELSE pr \in w[c].have}
New(c) == {pr \in Plannable(c) : label[pr] # ds[pr[1]].tok /\ pr \notin w[c].have}
Recovered(c) == {pr \in New(c) : Known(c, pr)}
Fresh(c) ==
  IF Recovered(c) # {} \/ New(c) = {} THEN {}
  ELSE IF ReadyForBootstrap(c) THEN New(c)
  ELSE IF LayoutReady(c, {}) THEN {First(New(c))} ELSE {}

ExecuteActivations(c) ==
  /\ w[c].pc = "activate"
  /\ LET pinned == {pr \in w[c].want : Known(c, pr)}
         failed == \E pr \in Immediate(c) : ~Activatable(c, pr)
         stop == \E pr \in w[c].want : Mover(c, pr) \/ PreviousPod(c, pr)
         batch == Recovered(c) \cup Fresh(c)
         now == IF failed \/ stop THEN Immediate(c) ELSE Immediate(c) \cup batch
     IN /\ EnsureActivation({pr \in now : Activatable(c, pr)}, pinned)
        /\ IF failed \/ stop \/ \E pr \in batch : ~Activatable(c, pr)
           THEN Stop(c) /\ Unready(c)
           ELSE /\ w' = [w EXCEPT ![c].pc = "gates", ![c].act = batch # {}, ![c].wait = batch = {} /\ New(c) # {}]
                /\ UNCHANGED cond
  /\ UNCHANGED <<scene, spec, match, ds, pods, late, gn, roles, settled, drain, config, spent>>

-----------------------------------------------------------------------------
(* releaseNodeLocalPoolPodSchedulingGates: the last authorization before a *)
(* process can mount a disk.                                               *)

GateAuthorized(c, x) == LET pr == <<x.p, x.n>> IN
  /\ label[pr] = ds[x.p].tok /\ x.n \in match[x.p]
  /\ claim[pr].on /\ ~claim[pr].ret
  /\ \A y \in pods \ {x} : y.n = x.n /\ owner[y.p] = c => y.st = "gated"

GateCandidates(c) == {x \in pods : /\ x.p \in w[c].decl /\ Current(x) /\ x.st = "gated"
                                   /\ x.tok = ds[x.p].tok /\ <<x.p, x.n>> \in w[c].want}
GateBlocked(c) == \E x \in pods :
  /\ x.p \in w[c].decl /\ Current(x)
  /\ \/ x.st = "free" \/ (x.st = "gated" /\ x.tok # ds[x.p].tok)
     \/ x \in GateCandidates(c) /\ ~GateAuthorized(c, x)
GatesReadable(c) == spec[c].gen = w[c].gen /\ ~spec[c].del /\ \A p \in w[c].decl : ds[p].uid # 0

ReleasePodSchedulingGates(c) ==
  /\ w[c].pc = "gates"
  /\ LET open == {x \in GateCandidates(c) : GateAuthorized(c, x)} IN
     IF ~GatesReadable(c) THEN Stop(c) /\ UNCHANGED <<pods, cond>>
     ELSE /\ pods' = (pods \ open) \cup {[x EXCEPT !.st = "free"] : x \in open}
          /\ IF GateBlocked(c) /\ ~w[c].hold THEN Stop(c) /\ Unready(c)
             ELSE /\ w' = [w EXCEPT ![c].pc = IF w[c].hold THEN "sweep" ELSE "materialize",
                                    ![c].act = w[c].act \/ open # {}]
                  /\ UNCHANGED cond
  /\ UNCHANGED <<scene, spec, match, label, claim, ds, late, gn, roles, settled, drain, config, spent>>

-----------------------------------------------------------------------------
(* materializeMembers, retireOneMember, projectReadiness.                  *)

Ready(pr) == gn[pr] = "ready" /\ Running(pr)
MaterializeMembers(c) ==
  /\ w[c].pc = "materialize"
  /\ LET made == {pr \in w[c].want : gn[pr] = "none" /\ Running(pr)} IN
       /\ gn' = [pr \in Pair |-> IF pr \in made THEN "new" ELSE gn[pr]]
       /\ w' = [w EXCEPT ![c].have = @ \cup made, ![c].pc = "retire"]
  /\ UNCHANGED <<scene, spec, match, label, claim, ds, pods, late, roles, settled, drain, cond, config, spent>>

Stale(c) == {pr \in w[c].have \ w[c].want : gn[pr] # "none"}
CountSurviving(c, pr) == others + Cardinality({a \in Members(c) \ {pr} : Ready(a)})
\* Mutant: the member that leaves is counted.
EnoughNow(c, pr) == others + Cardinality({a \in Members(c) : Ready(a)}) >= Factor
EnoughSurvive(c, pr) == CountSurviving(c, pr) >= Factor
MayRetire(c, pr) == LET p == pr[1] IN
  /\ \A a \in w[c].want : a[1] = p => Ready(a)
  /\ p \in w[c].decl /\ (\A n \in Node : <<p, n>> \notin w[c].want) => pr \in w[c].ret
  /\ EnoughSurvive(c, pr) /\ LayoutReady(c, {pr}) /\ drain[c] = {}
  /\ \A a \in RolesOf(c) : Running(a)                  \* requireStorageDrainStartReady: Garage is fully healthy

(* markNodeLocalPoolClaimRetiring refuses a Node that matches again before *)
(* it looks whether the claim is retiring already.                         *)
MarkClaimRetiring(c, pr) ==
  /\ spec[c].gen = w[c].gen /\ ~spec[c].del
  /\ ~(pr[1] \in spec[c].decl /\ pr[2] \in match[pr[1]]) /\ claim[pr].on

RetireOneMember(c) ==
  /\ w[c].pc = "retire"
  /\ IF ~w[c].wait /\ ~w[c].act /\ Stale(c) = {}
     THEN w' = [w EXCEPT ![c].pc = "cleanup", ![c].fin = TRUE] /\ UNCHANGED <<claim, cond>>
     ELSE LET pr == First(Stale(c)) IN
          IF /\ ~w[c].wait /\ ~w[c].act /\ \A a \in Stale(c) : gn[a] # "del"
             /\ MayRetire(c, pr) /\ MarkClaimRetiring(c, pr)
          THEN /\ claim' = [claim EXCEPT ![pr].ret = TRUE]
               /\ w' = [w EXCEPT ![c].pc = "drain", ![c].cand = {pr}] /\ UNCHANGED cond
          ELSE Stop(c) /\ Unready(c) /\ UNCHANGED claim
  /\ UNCHANGED <<scene, spec, match, label, ds, pods, late, gn, roles, settled, drain, config, spent>>

(* prepareGarageNodeDeletionDrain persists the drain before the GarageNode *)
(* is deleted; its preflight may refuse.                                   *)
PrepareDrain(c) ==
  /\ w[c].pc = "drain" /\ drain[c] = {}
  /\ drain' = [drain EXCEPT ![c] = w[c].cand]
  /\ gn' = [pr \in Pair |-> IF pr \in w[c].cand THEN "del" ELSE gn[pr]]
  /\ Stop(c) /\ Unready(c)
  /\ UNCHANGED <<scene, spec, match, label, claim, ds, pods, late, roles, settled, config, spent>>
RefuseDrain(c) ==
  /\ w[c].pc = "drain" /\ spent.faults < scene.faults
  /\ spent' = [spent EXCEPT !.faults = @ + 1]
  /\ Stop(c) /\ Unready(c)
  /\ UNCHANGED <<scene, spec, match, label, claim, ds, pods, late, gn, roles, settled, drain, config>>

ProjectReadiness(c) ==
  /\ w[c].pc = "project"
  /\ cond' = [cond EXCEPT ![c] =
       IF w[c].decl = {} THEN "absent"
       ELSE IF /\ \A pr \in w[c].want : Ready(pr)
               /\ \A p \in w[c].decl : \E n \in Node : <<p, n>> \in w[c].want \cup w[c].ret
               /\ LayoutReady(c, {}) THEN "True" ELSE "False"]
  /\ Stop(c)
  /\ UNCHANGED <<scene, spec, match, label, claim, ds, pods, late, gn, roles, settled, drain, config, spent>>

-----------------------------------------------------------------------------
(* deleteStorageDaemonSet, when the roles have been removed from the       *)
(* layout: labels, then DaemonSets, then Pods, then claims.                *)

\* Mutant: the claims go with the DaemonSets.
PodsMayStay(c) == TRUE
PoolPodsGone(c) == \A p \in Mine(c) : PoolPods(p) = {}
DeleteStorageDaemonSet(c) ==
  /\ spec[c].del /\ w[c].pc = "idle"
  /\ \A pr \in Pair : owner[pr[1]] = c => gn[pr] = "none" /\ pr \notin roles
  /\ LET labelled == {pr \in Pair : owner[pr[1]] = c /\ label[pr] # None}
         claimed == {pr \in Pair : owner[pr[1]] = c /\ claim[pr].on}
         sets == {p \in Mine(c) : ds[p].uid # 0}
     IN \/ /\ labelled # {}
           /\ label' = [pr \in Pair |-> IF pr \in labelled THEN None ELSE label[pr]]
           /\ UNCHANGED <<ds, claim>>
        \/ /\ labelled = {} /\ sets # {}
           /\ ds' = [p \in Pool |-> IF p \in sets THEN NoDS ELSE ds[p]]
           /\ UNCHANGED <<label, claim>>
        \/ /\ labelled = {} /\ sets = {} /\ PoolPodsGone(c) /\ claimed # {}
           /\ claim' = [pr \in Pair |-> IF pr \in claimed THEN NoClaim ELSE claim[pr]]
           /\ UNCHANGED <<label, ds>>
  /\ UNCHANGED <<scene, spec, match, pods, late, gn, roles, settled, drain, cond, w, config, spent>>

(* The cluster's finalizer first has its GarageNodes leave the layout.     *)
FinalizeMember(c) == \E pr \in Members(c) :
  /\ spec[c].del /\ w[c].pc = "idle" /\ drain[c] \subseteq {pr}
  /\ gn' = [gn EXCEPT ![pr] = "none"] /\ roles' = roles \ {pr} /\ drain' = [drain EXCEPT ![c] = {}]
  /\ UNCHANGED <<scene, spec, match, label, claim, ds, pods, late, settled, cond, w, config, spent>>

-----------------------------------------------------------------------------
(* The GarageNode controller, whose drains LayoutMutation details.         *)

Join(c) == LET S == {pr \in Members(c) : gn[pr] = "new" /\ Running(pr)} IN
  /\ S # {} /\ drain[c] = {} /\ settled[c] /\ others + Cardinality(RolesOf(c) \cup S) >= Factor
  /\ roles' = roles \cup S
  /\ gn' = [pr \in Pair |-> IF pr \in S THEN "ready" ELSE gn[pr]]
  /\ settled' = [settled EXCEPT ![c] = FALSE]
  /\ UNCHANGED <<scene, spec, match, label, claim, ds, pods, late, drain, cond, w, config, spent>>
LayoutSync(c) ==
  /\ ~settled[c] /\ \A pr \in RolesOf(c) : Running(pr)
  /\ settled' = [settled EXCEPT ![c] = TRUE]
  /\ UNCHANGED <<scene, spec, match, label, claim, ds, pods, late, gn, roles, drain, cond, w, config, spent>>
DrainDone(c) ==
  /\ drain[c] \cap roles # {} /\ settled[c] /\ \A pr \in RolesOf(c) : Running(pr)
  /\ roles' = roles \ drain[c] /\ settled' = [settled EXCEPT ![c] = FALSE]
  /\ UNCHANGED <<scene, spec, match, label, claim, ds, pods, late, gn, drain, cond, w, config, spent>>
DropNodeFinalizer(c) ==
  /\ drain[c] # {} /\ drain[c] \cap roles = {} /\ settled[c]
  /\ gn' = [pr \in Pair |-> IF pr \in drain[c] THEN "none" ELSE gn[pr]]
  /\ drain' = [drain EXCEPT ![c] = {}]
  /\ UNCHANGED <<scene, spec, match, label, claim, ds, pods, late, roles, settled, cond, w, config, spent>>

-----------------------------------------------------------------------------
(* Kubernetes.  The DaemonSet controller's creates may arrive late; it and *)
(* the scheduler act on what they saw.                                     *)

DSDecide(p, n) ==
  /\ ds[p].uid # 0 /\ ds[p].tok # Fence /\ label[<<p, n>>] = ds[p].tok
  /\ \A x \in pods \cup late : ~(x.p = p /\ x.n = n /\ x.uid = ds[p].uid)
  /\ late' = late \cup {[p |-> p, n |-> n, uid |-> ds[p].uid, tok |-> ds[p].tok]}
  /\ UNCHANGED <<scene, spec, match, label, claim, ds, pods, gn, roles, settled, drain, cond, w, config, spent>>
DSCreate == \E y \in late :
  /\ late' = late \ {y}
  /\ pods' = pods \cup {[p |-> y.p, n |-> y.n, uid |-> y.uid, tok |-> y.tok, st |-> "gated"]}
  /\ UNCHANGED <<scene, spec, match, label, claim, ds, gn, roles, settled, drain, cond, w, config, spent>>

Misplaced(x) == Current(x) /\ label[<<x.p, x.n>>] # ds[x.p].tok
(* Pods on Nodes the template does not select, and Pods whose DaemonSet is *)
(* gone, are deleted: a Pod that is not bound vanishes, a running one ends. *)
DeletePod == \E x \in pods :
  /\ Misplaced(x) \/ ~Current(x)
  /\ x.st # "dying"
  /\ pods' = (pods \ {x}) \cup IF x.st = "on" THEN {[x EXCEPT !.st = "dying"]} ELSE {}
  /\ UNCHANGED <<scene, spec, match, label, claim, ds, late, gn, roles, settled, drain, cond, w, config, spent>>
DSObserve(p) ==
  /\ ds[p].uid # 0 /\ ~ds[p].seen
  /\ \A y \in late : y.uid = ds[p].uid => y.tok = ds[p].tok
  /\ \A x \in PoolPods(p) : Misplaced(x) => x.st = "dying"
  /\ ds' = [ds EXCEPT ![p].seen = TRUE]
  /\ UNCHANGED <<scene, spec, match, label, claim, pods, late, gn, roles, settled, drain, cond, w, config, spent>>
Schedule == \E x \in pods :
  /\ x.st = "free" /\ pods' = (pods \ {x}) \cup {[x EXCEPT !.st = "on"]}
  /\ UNCHANGED <<scene, spec, match, label, claim, ds, late, gn, roles, settled, drain, cond, w, config, spent>>
Kubelet == \E x \in pods :
  /\ x.st = "dying" /\ pods' = pods \ {x}
  /\ UNCHANGED <<scene, spec, match, label, claim, ds, late, gn, roles, settled, drain, cond, w, config, spent>>

-----------------------------------------------------------------------------
(* Users and faults.  The webhook freezes the spec of a cluster in a drain;*)
(* the labels of a Node are nobody's to freeze.                            *)

Edit(kind) == kind \in scene.kinds /\ spent.edits < scene.edits /\ spent' = [spent EXCEPT !.edits = @ + 1]
EditSelector(p, S) == LET c == owner[p] IN
  /\ Edit("selector") /\ p \in spec[c].decl /\ ~spec[c].del /\ drain[c] = {} /\ S # match[p]
  /\ match' = [match EXCEPT ![p] = S]
  /\ spec' = [spec EXCEPT ![c].gen = @ + 1]
  /\ UNCHANGED <<scene, label, claim, ds, pods, late, gn, roles, settled, drain, cond, w, config>>
RelabelNode(n, S) ==
  /\ Edit("relabel") /\ \E p \in Declared : (n \in match[p]) # (p \in S)
  /\ match' = [p \in Pool |-> IF p \notin Declared THEN match[p] ELSE IF p \in S THEN match[p] \cup {n} ELSE match[p] \ {n}]
  /\ UNCHANGED <<scene, spec, label, claim, ds, pods, late, gn, roles, settled, drain, cond, w, config>>
ToggleDeclaration(p) == LET c == owner[p] IN
  /\ Edit("declare") /\ ~spec[c].del /\ drain[c] = {}
  /\ spec' = [spec EXCEPT ![c].gen = @ + 1, ![c].decl = IF p \in @ THEN @ \ {p} ELSE @ \cup {p}]
  /\ UNCHANGED <<scene, match, label, claim, ds, pods, late, gn, roles, settled, drain, cond, w, config>>
DeleteDaemonSet(p) ==
  /\ Edit("workload") /\ ds[p].uid # 0
  /\ ds' = [ds EXCEPT ![p] = NoDS]
  /\ UNCHANGED <<scene, spec, match, label, claim, pods, late, gn, roles, settled, drain, cond, w, config>>
DeleteCluster(c) ==
  /\ Edit("delete") /\ ~spec[c].del /\ drain[c] = {}
  /\ spec' = [spec EXCEPT ![c].del = TRUE]
  /\ UNCHANGED <<scene, match, label, claim, ds, pods, late, gn, roles, settled, drain, cond, w, config>>
Crash(c) ==
  /\ spent.faults < scene.faults /\ w[c].pc # "idle"
  /\ spent' = [spent EXCEPT !.faults = @ + 1] /\ Stop(c)
  /\ UNCHANGED <<scene, spec, match, label, claim, ds, pods, late, gn, roles, settled, drain, cond, config>>
NoticeDeletion(c) ==
  /\ spec[c].del /\ w[c].pc # "idle" /\ Stop(c)
  /\ UNCHANGED <<scene, spec, match, label, claim, ds, pods, late, gn, roles, settled, drain, cond, config, spent>>

-----------------------------------------------------------------------------
Init ==
  /\ \E x \in Scenes : /\ scene = x /\ match = x.match
                       /\ spec = [c \in Cluster |-> [gen |-> 1, decl |-> {p \in x.decl : x.owner[p] = c}, del |-> FALSE]]
  /\ label = [pr \in Pair |-> None] /\ claim = [pr \in Pair |-> NoClaim]
  /\ ds = [p \in Pool |-> NoDS] /\ pods = {} /\ late = {}
  /\ gn = [pr \in Pair |-> "none"] /\ roles = {} /\ settled = [c \in Cluster |-> TRUE]
  /\ drain = [c \in Cluster |-> {}] /\ cond = [c \in Cluster |-> "absent"]
  /\ w = [c \in Cluster |-> IdleWorker] /\ config = {} /\ spent = [edits |-> 0, faults |-> 0]

Reconcile(c) ==
  \/ Preflight(c) \/ PublishWorkloads(c) \/ PublishToken(c) \/ EnsureMembershipFence(c)
  \/ CleanupActivationState(c) \/ CleanupRetiredResources(c) \/ ExecuteActivations(c)
  \/ ReleasePodSchedulingGates(c) \/ MaterializeMembers(c) \/ RetireOneMember(c) \/ PrepareDrain(c)
  \/ ProjectReadiness(c) \/ DeleteStorageDaemonSet(c) \/ FinalizeMember(c) \/ NoticeDeletion(c)
NodeController(c) == Join(c) \/ LayoutSync(c) \/ DrainDone(c) \/ DropNodeFinalizer(c)
Kubernetes == (\E p \in Pool, n \in Node : DSDecide(p, n)) \/ DSCreate \/ DeletePod
               \/ (\E p \in Pool : DSObserve(p)) \/ Schedule \/ Kubelet
Users ==
  \/ \E p \in Pool, S \in SUBSET Node : EditSelector(p, S)
  \/ \E n \in Node, S \in SUBSET Declared : RelabelNode(n, S)
  \/ \E p \in Pool : ToggleDeclaration(p) \/ DeleteDaemonSet(p)
  \/ \E c \in Cluster : DeleteCluster(c)
Faults == \E c \in Cluster : Crash(c) \/ RefuseDrain(c)

Next == (\E c \in Cluster : Reconcile(c) \/ NodeController(c)) \/ Kubernetes \/ Users \/ Faults
Spec == Init /\ [][Next]_vars
FairSpec ==
  /\ Spec /\ WF_vars(Kubernetes)
  /\ \A c \in Cluster : WF_vars(Reconcile(c)) /\ WF_vars(NodeController(c))

-----------------------------------------------------------------------------
(* Types: one drain per cluster, tokens and UIDs within their bounds, the  *)
(* states of GarageNodes and Pods, pools declared by their own cluster.    *)
TypeOK ==
  /\ \A c \in Cluster : spec[c].decl \subseteq Mine(c) /\ Cardinality(drain[c]) <= 1
  /\ \A p \in Pool : ds[p].uid \in 0..MaxUID /\ ds[p].tok \in 0..MaxToken /\ match[p] \subseteq Node
  /\ \A pr \in Pair : label[pr] \in Token /\ gn[pr] \in {"none", "new", "ready", "del"}
  /\ \A x \in pods : x.st \in {"gated", "free", "on", "dying"}

(* Two processes never use one Node's disk: whatever DaemonSets are        *)
(* deleted, recreated or fenced and however late their Pods are created,   *)
(* the scheduling gates bind one Pod at a time to a Node.                  *)
OneProcessPerDisk == \A x, y \in pods : Mounted(x) /\ Mounted(y) /\ x.n = y.n => x = y

(* A bound Pod, and a role of the layout, have a claim on their disk: the  *)
(* claim is released only after the label, the Pod and the role are gone,  *)
(* by retirement as well as by the deletion of the cluster.                *)
DiskIsClaimed ==
  /\ \A x \in pods : Mounted(x) => claim[<<x.p, x.n>>].on
  /\ \A pr \in roles : claim[pr].on

(* A Node's disk has one owner, also when two clusters come to select the  *)
(* Node at the same time: the conflict scan is repeated before each claim. *)
OneClaimPerDisk == \A p, q \in Pool, n \in Node : claim[<<p, n>>].on /\ claim[<<q, n>>].on => p = q

(* The configuration a Pod past its gate mounts exists: the resources of a *)
(* retired pool go after its DaemonSet's last Pod.                         *)
MountedConfigExists == \A x \in pods : x.st # "gated" => x.p \in config

(* The roles a retirement takes out of the committed layout leave at least *)
(* the replication factor: countSurvivingStorageNodes is evaluated before  *)
(* the drain, and neither a later reconcile nor a second pool may spend    *)
(* the same survivors again.                                               *)
RolesSuffice == [][\A c \in Cluster : LET after == {pr \in roles' : owner[pr[1]] = c} IN
  ~spec[c].del /\ after # RolesOf(c) /\ after \subseteq RolesOf(c)
     => others + Cardinality(after) >= Factor]_vars

(* A retirement is one-way: a retiring claim is released, never revived,   *)
(* even when the Node matches the selector again in the middle of it.      *)
RetirementIsOneWay == [][\A pr \in Pair : claim[pr].ret /\ claim'[pr].on => claim'[pr].ret]_vars

(* A Node that leaves a pool while another, not yet active, enters it: the *)
(* migration refuses the newcomer, and with it the whole cleanup.          *)
Wedged(c) == \E p \in spec[c].decl, m, n \in Node :
  /\ (label[<<p, m>>] # None \/ claim[<<p, m>>].on) /\ (m \in match[p] => claim[<<p, m>>].ret)
  /\ n \in match[p] /\ ~(claim[<<p, n>>].on /\ Active(label[<<p, n>>]))
\* A direct move between pools, which the documentation forbids, or two clusters that select one Node.
DirectMove(c) == \E pr \in Selected(c) : \E q \in Pool \ {pr[1]} :
                   claim[<<q, pr[2]>>].on \/ (q \in Foreign(pr[1]) \cap Declared /\ pr[2] \in match[q])
(* A Node reselected between the rotation of the token and the removal of  *)
(* its label, before it had a GarageNode: the layout barrier waits for the *)
(* Pod of a token that no template selects any more.                       *)
StaleToken(c) == \E pr \in Selected(c) : gn[pr] = "none" /\ Active(label[pr]) /\ label[pr] # ds[pr[1]].tok
(* A gated Pod of the old token on a Node that has the new one: the        *)
(* DaemonSet controller keeps it (OnDelete) and its gate is never opened.  *)
StaleGate(c) == \E x \in pods : /\ x.p \in Mine(c) /\ Current(x) /\ x.st = "gated"
                               /\ x.tok # ds[x.p].tok /\ label[<<x.p, x.n>>] = ds[x.p].tok
(* A member that left while its DaemonSet was deleted out of band: nobody  *)
(* starts its process again, and a drain needs its source.                 *)
OfflineSource(c) == \E pr \in RolesOf(c) \ Selected(c) : ~Running(pr)
Stuck(c) == \/ spec[c].del \/ SelectorConflict(c) \/ DirectMove(c)
            \/ Wedged(c) \/ StaleToken(c) \/ OfflineSource(c) \/ StaleGate(c)

(* Once users and faults rest, each selected Node has a connected member   *)
(* in the layout, and nothing is left of a pool that was removed or of a   *)
(* Node that left one (unless too few roles would survive).                *)
Gone(pr) == label[pr] = None /\ ~claim[pr].on /\ gn[pr] = "none" /\ pr \notin roles
Converged(c) ==
  /\ \A pr \in Selected(c) : Ready(pr)
  /\ others + Cardinality(Selected(c)) >= Factor => \A p \in Mine(c) :
       IF p \in spec[c].decl THEN match[p] # {} => \A n \in Node \ match[p] : Gone(<<p, n>>)
       ELSE ds[p].uid = 0 /\ p \notin config /\ \A n \in Node : Gone(<<p, n>>)
Converges == \A c \in Cluster : <>[](Converged(c) \/ Stuck(c))

(* A member whose drain began is released in the end: its Pod, label and   *)
(* claim go, whatever becomes selected meanwhile.                          *)
RetirementCompletes == \A pr \in Pair : gn[pr] = "del" ~> ~claim[pr].on

-----------------------------------------------------------------------------
(* What the runs check.                                                    *)

(* The state is well formed, and the disk of a Node has one claim, one     *)
(* process, and a claim for as long as a Pod or a role uses it             *)
(* (nodeLocalPoolHostPathConflicts, the scheduling gates, the cleanup).    *)
DiskHasOneOwner == TypeOK /\ OneProcessPerDisk /\ OneClaimPerDisk /\ DiskIsClaimed

(* A retirement leaves enough roles and is never undone                    *)
(* (countSurvivingStorageNodes, the retiring claim).                       *)
RetirementIsSafe == RolesSuffice /\ RetirementIsOneWay
=============================================================================
