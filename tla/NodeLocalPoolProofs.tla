------------------------- MODULE NodeLocalPoolProofs -------------------------
(***************************************************************************)
(* Theorems about NodeLocalPool that hold for every set of clusters, pools *)
(* and Nodes, every topology a behaviour starts from and every bound.      *)
(*                                                                         *)
(* One inductive invariant, IndInv, carries all of them.  Its parts are    *)
(* the types, what a reconcile knows of its cluster, how GarageNodes,      *)
(* drains and roles go together, who may use a disk, and how many roles    *)
(* the drain under way leaves.  Each part has a lemma of its own, whose    *)
(* steps are the groups of actions that touch the part.                    *)
(***************************************************************************)
EXTENDS NodeLocalPool, TLAPS, FiniteSetTheorems, WellFoundedInduction

Points == {"idle", "publish", "token", "cleanup", "sweep", "activate", "gates", "materialize",
           "retire", "drain", "project"}
Workers ==
  [pc : Points, gen : Nat, decl : SUBSET Pool, want : SUBSET Pair, have : SUBSET Pair,
   ret : SUBSET Pair, cand : SUBSET Pair, act : BOOLEAN, hold : BOOLEAN, wait : BOOLEAN, fin : BOOLEAN]
Specs == [gen : Nat, decl : SUBSET Pool, del : BOOLEAN]
Claims == [on : BOOLEAN, ret : BOOLEAN, id : BOOLEAN]
DaemonSets == [uid : 0..MaxUID, tok : 0..MaxToken, fence : SUBSET Node, seen : BOOLEAN]
PodStates == {"gated", "free", "on", "dying"}
Pods == [p : Pool, n : Node, uid : 1..MaxUID, tok : 1..MaxToken, st : PodStates]
Creates == [p : Pool, n : Node, uid : 1..MaxUID, tok : 1..MaxToken]

\* The types of the variables.
Typed ==
  /\ scene \in Scenes
  /\ spec \in [Cluster -> Specs]
  /\ match \in [Pool -> SUBSET Node]
  /\ label \in [Pair -> Token]
  /\ claim \in [Pair -> Claims]
  /\ ds \in [Pool -> DaemonSets]
  /\ pods \subseteq Pods
  /\ late \subseteq Creates
  /\ gn \in [Pair -> {"none", "new", "ready", "del"}]
  /\ roles \subseteq Pair
  /\ drain \in [Cluster -> SUBSET Pair]
  /\ w \in [Cluster -> Workers]
  /\ config \subseteq Pool

-----------------------------------------------------------------------------
(* Choices.                                                                *)

\* A nonempty set of natural numbers has a least element.
LEMMA LeastNumber ==
  ASSUME NEW S \in SUBSET Nat, S # {}
  PROVE  \E x \in S : \A y \in S : x <= y
<1> DEFINE Less == {ss \in Nat \X Nat : ss[1] < ss[2]}
<1>1. IsWellFoundedOn(Less, Nat)
  BY NatLessThanWellFounded, Zenon DEF OpToRel
<1>2. PICK x \in S : \A y \in S : ~(<<y, x>> \in Less)
  <2> HIDE DEF Less
  <2> QED
    BY <1>1, WFMin, Zenon
<1>3. \A y \in S : ~(y < x)
  BY <1>2
<1> QED
  BY <1>3

\* Min of a nonempty set of numbers is one of them.
LEMMA MinIn ==
  ASSUME NEW S \in SUBSET Nat, S # {}
  PROVE  Min(S) \in S
<1>1. PICK x \in S : \A y \in S : x <= y
  BY LeastNumber
<1> QED
  BY <1>1, Zenon DEF Min

\* The first of a nonempty set of pairs is one of them.
LEMMA FirstIn ==
  ASSUME NEW S \in SUBSET Pair, S # {}
  PROVE  First(S) \in S
<1>0. \A a \in S : a[1] \in Nat /\ a[2] \in Nat
  BY NodeLocalPoolAssumption DEF Pair
<1> DEFINE Pools == {a[1] : a \in S}
<1>1. Pools \in SUBSET Nat /\ Pools # {}
  BY <1>0
<1>2. PICK p \in Pools : \A q \in Pools : p <= q
  <2> HIDE DEF Pools
  <2> QED
    BY <1>1, LeastNumber
<1> DEFINE Nodes == {a[2] : a \in {b \in S : b[1] = p}}
<1>3. Nodes \in SUBSET Nat /\ Nodes # {}
  BY <1>0, <1>2
<1>4. PICK n \in Nodes : \A m \in Nodes : n <= m
  <2> HIDE DEF Nodes
  <2> QED
    BY <1>3, LeastNumber
<1>5. PICK a \in S : a[1] = p /\ a[2] = n
  BY <1>4
<1>6. ASSUME NEW b \in S PROVE a[1] < b[1] \/ (a[1] = b[1] /\ a[2] <= b[2])
  <2>1. b[1] \in Pools /\ p <= b[1]
    BY <1>2
  <2>2. CASE b[1] = p
    <3>1. b[2] \in Nodes
      BY <2>2
    <3> QED
      BY <1>4, <1>5, <2>2, <3>1
  <2>3. CASE b[1] # p
    BY <1>0, <1>5, <2>1, <2>3
  <2> QED
    BY <2>2, <2>3
<1> HIDE DEF Pools, Nodes
<1> QED
  BY <1>6, Zenon DEF First

\* A fresh token and a fresh UID are within their bounds.
LEMMA FreshIn ==
  /\ UnseenTokens # {} => FreshToken \in 1..MaxToken
  /\ UnseenUIDs # {} => FreshUID \in 1..MaxUID
<1>1. UnseenTokens \subseteq 1..MaxToken /\ UnseenUIDs \subseteq 1..MaxUID
  BY DEF UnseenTokens, UnseenUIDs
<1>2. UnseenTokens \in SUBSET Nat /\ UnseenUIDs \in SUBSET Nat
  BY <1>1, NodeLocalPoolAssumption
<1>3. UnseenTokens # {} => FreshToken \in UnseenTokens
  BY <1>2, MinIn DEF FreshToken
<1>4. UnseenUIDs # {} => FreshUID \in UnseenUIDs
  BY <1>2, MinIn DEF FreshUID
<1> QED
  BY <1>1, <1>3, <1>4

\* The topology of a scene.
LEMMA SceneTypes ==
  ASSUME scene \in Scenes
  PROVE  /\ owner \in [Pool -> Cluster] /\ others \in Nat
         /\ scene.decl \subseteq Pool /\ scene.match \in [Pool -> SUBSET Node]
  BY NodeLocalPoolAssumption DEF owner, others

-----------------------------------------------------------------------------
(* Types.                                                                  *)

\* Moving to another program point, and stopping, leave a worker.
LEMMA WorkerMoves ==
  ASSUME w \in [Cluster -> Workers], NEW c \in Cluster
  PROVE  /\ IdleWorker \in Workers
         /\ Stop(c) => w' \in [Cluster -> Workers]
         /\ \A pc \in Points : Goto(c, pc) => w' \in [Cluster -> Workers]
<1>1. IdleWorker \in Workers
  BY NodeLocalPoolAssumption DEF IdleWorker, Workers, Points
<1>2. Stop(c) => w' \in [Cluster -> Workers]
  BY <1>1 DEF Stop
<1>3. ASSUME NEW pc \in Points, Goto(c, pc) PROVE w' \in [Cluster -> Workers]
  <2>1. [w[c] EXCEPT !.pc = pc] \in Workers
    BY DEF Workers
  <2> QED
    BY <1>3, <2>1 DEF Goto
<1> QED
  BY <1>1, <1>2, <1>3

\* A DaemonSet that gets a new token is a DaemonSet.
LEMMA TokenChange ==
  ASSUME ds \in [Pool -> DaemonSets], NEW p \in Pool, UnseenTokens # {}
  PROVE  [ds EXCEPT ![p].tok = FreshToken, ![p].seen = FALSE] \in [Pool -> DaemonSets]
<1>1. FreshToken \in 0..MaxToken
  BY FreshIn, NodeLocalPoolAssumption
<1>2. [ds[p] EXCEPT !.tok = FreshToken, !.seen = FALSE] \in DaemonSets
  BY <1>1 DEF DaemonSets
<1> QED
  BY <1>2

\* publishWorkloads and the fences.
LEMMA PublicationTyped ==
  ASSUME Typed, NEW c \in Cluster,
         Preflight(c) \/ PublishWorkloads(c) \/ PublishToken(c) \/ EnsureMembershipFence(c)
  PROVE  Typed'
<1>0. Pool \subseteq Nat /\ 0 \in 0..MaxUID /\ 0 \in 0..MaxToken /\ {0, MaxToken + 1} \subseteq Token
  BY NodeLocalPoolAssumption DEF Token
<1>a. w \in [Cluster -> Workers] /\ w[c] \in Workers
  BY DEF Typed
<1>b. Behind(c) \subseteq Pool
  BY <1>a DEF Behind, Workers
<1>c. Behind(c) # {} => Min(Behind(c)) \in Behind(c)
  BY <1>0, <1>b, MinIn
<1>1. CASE Preflight(c)
  <2>1. w'[c] \in Workers /\ w' = [w EXCEPT ![c] = w'[c]]
    <3> DEFINE want == Selected(c) \ PersistedRetirements(c)
               r == [IdleWorker EXCEPT !.pc = "publish", !.gen = spec[c].gen, !.decl = spec[c].decl,
                       !.want = want, !.have = Members(c), !.ret = PersistedRetirements(c)]
    <3>1. want \in SUBSET Pair /\ Members(c) \in SUBSET Pair /\ PersistedRetirements(c) \in SUBSET Pair
      BY DEF Selected, PersistedRetirements, Members
    <3>2. spec[c].gen \in Nat /\ spec[c].decl \in SUBSET Pool
      BY DEF Typed, Specs
    <3>3. IdleWorker \in Workers
      BY <1>a, WorkerMoves
    <3>4. r \in Workers
      <4> HIDE DEF want
      <4> QED
        BY <3>1, <3>2, <3>3 DEF Workers, Points
    <3>5. w' = [w EXCEPT ![c] = r]
      BY <1>1 DEF Preflight
    <3> HIDE DEF r
    <3> QED
      BY <1>a, <3>4, <3>5
  <2> QED
    BY <1>1, <1>a, <2>1 DEF Preflight, Typed
<1>2. CASE PublishWorkloads(c)
  <2>1. w' \in [Cluster -> Workers]
    <3>1. Stop(c) \/ Goto(c, "cleanup") \/ Goto(c, "token") \/ w' = w
      BY <1>2 DEF PublishWorkloads
    <3> QED
      BY <1>a, <3>1, WorkerMoves DEF Points
  <2>2. label' \in [Pair -> Token]
    <3>1. \A p \in Pool : QuarantineNodes(p) => label' \in [Pair -> Token]
      BY <1>0 DEF Typed, QuarantineNodes, Quarantine
    <3>2. label' = label \/ (Behind(c) # {} /\ QuarantineNodes(Min(Behind(c))))
      BY <1>2 DEF PublishWorkloads
    <3> QED
      BY <1>b, <1>c, <3>1, <3>2 DEF Typed
  <2>3. ds' \in [Pool -> DaemonSets] /\ config' \subseteq Pool
    <3>1. CASE Behind(c) = {} \/ PublishRefused(c)
      BY <1>2, <3>1 DEF PublishWorkloads, Typed
    <3>2. CASE Behind(c) # {} /\ ~PublishRefused(c)
      <4> DEFINE p == Min(Behind(c))
      <4>1. p \in Pool
        BY <1>b, <1>c, <3>2
      <4> HIDE DEF p
      <4>2. UnseenUIDs # {} => [NoDS EXCEPT !.uid = FreshUID] \in DaemonSets
        <5>1. UnseenUIDs # {} => FreshUID \in 0..MaxUID
          BY FreshIn, NodeLocalPoolAssumption
        <5> QED
          BY <1>0, <5>1 DEF NoDS, DaemonSets, Fence
      <4>3. \/ ds' = ds /\ config' = config
            \/ UnseenUIDs # {} /\ ds' = [ds EXCEPT ![p] = [NoDS EXCEPT !.uid = FreshUID]] /\ config' = config \cup {p}
            \/ UnseenTokens # {} /\ ds' = [ds EXCEPT ![p].tok = FreshToken, ![p].seen = FALSE] /\ config' = config
        BY <1>2, <3>2, Zenon DEF PublishWorkloads, p
      <4>4. ds \in [Pool -> DaemonSets] /\ config \subseteq Pool
        BY DEF Typed
      <4> QED
        BY <4>1, <4>2, <4>3, <4>4, TokenChange
    <3> QED
      BY <3>1, <3>2
  <2> QED
    BY <1>2, <2>1, <2>2, <2>3 DEF PublishWorkloads, Typed
<1>3. CASE PublishToken(c)
  <2>1. w' \in [Cluster -> Workers]
    BY <1>3, <1>a, WorkerMoves DEF PublishToken, Points
  <2>2. ds' \in [Pool -> DaemonSets]
    <3> DEFINE p == Min(Behind(c))
    <3>1. ds' = ds \/ (p \in Pool /\ UnseenTokens # {} /\ ds' = [ds EXCEPT ![p].tok = FreshToken, ![p].seen = FALSE])
                   \/ (p \notin Pool /\ ds' = [ds EXCEPT ![p].tok = FreshToken, ![p].seen = FALSE])
      BY <1>3, Zenon DEF PublishToken
    <3> HIDE DEF p
    <3> QED
      BY <3>1, TokenChange DEF Typed
  <2> QED
    BY <1>3, <2>1, <2>2 DEF PublishToken, Typed
<1>4. CASE EnsureMembershipFence(c)
  <2> DEFINE p == Min(Fencing(c))
  <2>1. p \in Pool
    <3>1. Fencing(c) \subseteq Pool /\ Fencing(c) # {}
      BY <1>4 DEF EnsureMembershipFence, Fencing, Mine
    <3> QED
      BY <1>0, <3>1, MinIn
  <2>2. w' \in [Cluster -> Workers]
    BY <1>4, <1>a, WorkerMoves DEF EnsureMembershipFence
  <2>3. \/ UnseenTokens # {} /\ label' = label
           /\ ds' = [ds EXCEPT ![p].tok = FreshToken, ![p].fence = RetiringIn(c, p), ![p].seen = FALSE]
        \/ ds' = ds /\ (label' = label \/ label' = [label EXCEPT ![First(Strays(c, p))] = ds[p].tok])
    BY <1>4, Zenon DEF EnsureMembershipFence
  <2>4. RetiringIn(c, p) \subseteq Node
    BY DEF RetiringIn
  <2> HIDE DEF p
  <2>5. ds \in [Pool -> DaemonSets] /\ label \in [Pair -> Token] /\ ds[p] \in DaemonSets
    BY <2>1 DEF Typed
  <2>6. label' \in [Pair -> Token]
    <3>1. ds[p].tok \in Token
      BY <2>5, NodeLocalPoolAssumption DEF DaemonSets, Token
    <3> QED
      BY <2>3, <2>5, <3>1
  <2>7. ds' \in [Pool -> DaemonSets]
    <3>1. CASE ds' = ds
      BY <2>5, <3>1
    <3>2. CASE UnseenTokens # {} /\ ds' = [ds EXCEPT ![p].tok = FreshToken, ![p].fence = RetiringIn(c, p), ![p].seen = FALSE]
      <4>1. FreshToken \in 0..MaxToken
        BY <3>2, FreshIn, NodeLocalPoolAssumption
      <4>2. [ds[p] EXCEPT !.tok = FreshToken, !.fence = RetiringIn(c, p), !.seen = FALSE] \in DaemonSets
        BY <2>4, <2>5, <4>1 DEF DaemonSets
      <4> QED
        BY <2>1, <2>5, <3>2, <4>2
    <3> QED
      BY <2>3, <3>1, <3>2
  <2> QED
    BY <1>4, <2>2, <2>6, <2>7 DEF EnsureMembershipFence, Typed
<1> QED
  BY <1>1, <1>2, <1>3, <1>4

\* cleanupNodeLocalPoolActivationState and cleanupRetiredNodeLocalPoolResources.
LEMMA CleanupTyped ==
  ASSUME Typed, NEW c \in Cluster,
         CleanupActivationState(c) \/ CleanupRetiredResources(c) \/ DeleteStorageDaemonSet(c)
  PROVE  Typed'
<1>a. w \in [Cluster -> Workers] /\ w[c] \in Workers
  BY DEF Typed
<1>b. NoClaim \in Claims /\ NoDS \in DaemonSets /\ None \in Token
  BY NodeLocalPoolAssumption DEF NoClaim, Claims, NoDS, DaemonSets, Fence, None, Token
<1>1. CASE CleanupActivationState(c)
  <2>1. claim' \in [Pair -> Claims]
    <3>1. \A pr \in Pair : MarkRetiring(c, pr) \in Claims
      BY DEF MarkRetiring, Claims, Typed
    <3> QED
      BY <1>1, <1>b, <3>1 DEF CleanupActivationState
  <2>2. label' \in [Pair -> Token]
    BY <1>1, <1>b DEF CleanupActivationState, Typed
  <2>3. w' \in [Cluster -> Workers]
    <3> DEFINE hold == Retiring(c) # {}
               pc == IF Retiring(c) # {} /\ ~w[c].fin THEN "gates" ELSE "sweep"
    <3>1. hold \in BOOLEAN /\ pc \in Points
      BY DEF Points
    <3>2. [w[c] EXCEPT !.hold = hold, !.pc = pc] \in Workers
      <4> HIDE DEF hold, pc
      <4> QED
        BY <1>a, <3>1 DEF Workers
    <3>3. Stop(c) \/ w' = [w EXCEPT ![c].hold = hold, ![c].pc = pc]
      BY <1>1 DEF CleanupActivationState
    <3> HIDE DEF hold, pc
    <3> QED
      BY <1>a, <3>2, <3>3, WorkerMoves
  <2> QED
    BY <1>1, <2>1, <2>2, <2>3 DEF CleanupActivationState, Typed
<1>2. CASE CleanupRetiredResources(c)
  <2>1. w' \in [Cluster -> Workers]
    <3>1. Stop(c) \/ Goto(c, "project") \/ Goto(c, "activate")
      BY <1>2 DEF CleanupRetiredResources
    <3> QED
      BY <1>a, <3>1, WorkerMoves DEF Points
  <2>2. ds' \in [Pool -> DaemonSets] /\ config' \subseteq Pool
    BY <1>2, <1>b DEF CleanupRetiredResources, Typed
  <2> QED
    BY <1>2, <2>1, <2>2 DEF CleanupRetiredResources, Typed
<1>3. CASE DeleteStorageDaemonSet(c)
  <2>1. label' \in [Pair -> Token] /\ ds' \in [Pool -> DaemonSets] /\ claim' \in [Pair -> Claims]
    BY <1>3, <1>b DEF DeleteStorageDaemonSet, Typed
  <2> QED
    BY <1>3, <2>1 DEF DeleteStorageDaemonSet, Typed
<1> QED
  BY <1>1, <1>2, <1>3

\* executeActivations and releaseNodeLocalPoolPodSchedulingGates.
LEMMA ActivationTyped ==
  ASSUME Typed, NEW c \in Cluster, ExecuteActivations(c) \/ ReleasePodSchedulingGates(c)
  PROVE  Typed'
<1>a. w \in [Cluster -> Workers] /\ w[c] \in Workers
  BY DEF Typed
<1>1. CASE ExecuteActivations(c)
  <2>1. \E S, pinned : EnsureActivation(S, pinned)
    BY <1>1, Zenon DEF ExecuteActivations
  <2>2. PICK S, pinned : EnsureActivation(S, pinned)
    BY <2>1
  <2>3. label' \in [Pair -> Token]
    <3>1. \A pr \in Pair : ds[pr[1]].tok \in Token
      <4>1. \A pr \in Pair : ds[pr[1]] \in DaemonSets
        BY DEF Typed, Pair
      <4>2. 0..MaxToken \subseteq Token
        BY NodeLocalPoolAssumption DEF Token
      <4> QED
        BY <4>1, <4>2 DEF DaemonSets
    <3> QED
      BY <2>2, <3>1 DEF EnsureActivation, Typed
  <2>4. claim' \in [Pair -> Claims]
    <3>1. \A pr \in Pair : [on |-> TRUE, ret |-> FALSE, id |-> claim[pr].id \/ pr \in pinned] \in Claims
      BY DEF Typed, Claims
    <3> QED
      BY <2>2, <3>1 DEF EnsureActivation, Typed
  <2>5. w' \in [Cluster -> Workers]
    <3>1. \/ Stop(c)
          \/ \E act, wait \in BOOLEAN : w' = [w EXCEPT ![c].pc = "gates", ![c].act = act, ![c].wait = wait]
      <4>1. \/ Stop(c)
            \/ \E act, wait : /\ act \in BOOLEAN /\ wait \in BOOLEAN
                              /\ w' = [w EXCEPT ![c].pc = "gates", ![c].act = act, ![c].wait = wait]
        <5> DEFINE batch == Recovered(c) \cup Fresh(c)
        <5>1. Stop(c) \/ w' = [w EXCEPT ![c].pc = "gates", ![c].act = batch # {},
                                        ![c].wait = batch = {} /\ New(c) # {}]
          BY <1>1 DEF ExecuteActivations
        <5>2. (batch # {}) \in BOOLEAN /\ (batch = {} /\ New(c) # {}) \in BOOLEAN
          OBVIOUS
        <5> HIDE DEF batch
        <5> QED
          BY <5>1, <5>2
      <4> QED
        BY <4>1
    <3>2. ASSUME NEW act \in BOOLEAN, NEW wait \in BOOLEAN
          PROVE  [w[c] EXCEPT !.pc = "gates", !.act = act, !.wait = wait] \in Workers
      BY <1>a DEF Workers, Points
    <3>3. CASE Stop(c)
      BY <1>a, <3>3, WorkerMoves
    <3>4. ASSUME NEW act \in BOOLEAN, NEW wait \in BOOLEAN,
                 w' = [w EXCEPT ![c].pc = "gates", ![c].act = act, ![c].wait = wait]
          PROVE  w' \in [Cluster -> Workers]
      <4> DEFINE x == [w[c] EXCEPT !.pc = "gates", !.act = act, !.wait = wait]
      <4>1. w' = [w EXCEPT ![c] = x]
        BY <1>a, <3>4 DEF Workers
      <4>2. x \in Workers
        BY <3>2
      <4> HIDE DEF x
      <4> QED
        BY <1>a, <4>1, <4>2
    <3> QED
      BY <3>1, <3>3, <3>4
  <2> QED
    BY <1>1, <2>3, <2>4, <2>5 DEF ExecuteActivations, Typed
<1>2. CASE ReleasePodSchedulingGates(c)
  <2> DEFINE open == {x \in GateCandidates(c) : GateAuthorized(c, x)}
  <2>1. pods' \subseteq Pods
    <3>1. \A x \in open : x \in Pods
      BY DEF GateCandidates, Typed
    <3>2. \A x \in open : [x EXCEPT !.st = "free"] \in Pods
      <4> HIDE DEF open
      <4> QED
        BY <3>1 DEF Pods, PodStates
    <3>3. pods' = pods \/ pods' = (pods \ open) \cup {[x EXCEPT !.st = "free"] : x \in open}
      BY <1>2 DEF ReleasePodSchedulingGates
    <3> HIDE DEF open
    <3> QED
      BY <3>2, <3>3 DEF Typed
  <2>2. w' \in [Cluster -> Workers]
    <3> DEFINE pc == IF w[c].hold THEN "sweep" ELSE "materialize"
               act == w[c].act \/ open # {}
    <3>1. Stop(c) \/ w' = [w EXCEPT ![c].pc = pc, ![c].act = act]
      BY <1>2 DEF ReleasePodSchedulingGates
    <3>2. pc \in Points /\ act \in BOOLEAN
      BY DEF Points
    <3> HIDE DEF pc, act
    <3>3. [w[c] EXCEPT !.pc = pc, !.act = act] \in Workers
      BY <1>a, <3>2 DEF Workers
    <3> QED
      BY <1>a, <3>1, <3>3, WorkerMoves
  <2> QED
    BY <1>2, <2>1, <2>2 DEF ReleasePodSchedulingGates, Typed
<1> QED
  BY <1>1, <1>2

\* materializeMembers, retireOneMember, the drain and projectReadiness.
LEMMA MembershipTyped ==
  ASSUME Typed, NEW c \in Cluster,
         \/ MaterializeMembers(c) \/ RetireOneMember(c) \/ PrepareDrain(c)
         \/ RefuseDrain(c) \/ ProjectReadiness(c)
  PROVE  Typed'
<1>a. w \in [Cluster -> Workers] /\ w[c] \in Workers
  BY DEF Typed
<1>1. CASE MaterializeMembers(c)
  <2> DEFINE made == {pr \in w[c].want : gn[pr] = "none" /\ Running(pr)}
  <2>1. made \subseteq Pair
    BY <1>a DEF Workers
  <2>2. [w[c] EXCEPT !.have = @ \cup made, !.pc = "retire"] \in Workers
    <3> HIDE DEF made
    <3> QED
      BY <1>a, <2>1 DEF Workers, Points
  <2>3. w' = [w EXCEPT ![c].have = @ \cup made, ![c].pc = "retire"]
    BY <1>1 DEF MaterializeMembers
  <2>4. w' \in [Cluster -> Workers]
    <3> HIDE DEF made
    <3> QED
      BY <1>a, <2>2, <2>3
  <2>5. gn' \in [Pair -> {"none", "new", "ready", "del"}]
    BY <1>1 DEF MaterializeMembers, Typed
  <2> QED
    BY <1>1, <2>4, <2>5 DEF MaterializeMembers, Typed
<1>2. CASE RetireOneMember(c)
  <2> DEFINE pr == First(Stale(c))
  <2>1. \/ w' = [w EXCEPT ![c].pc = "cleanup", ![c].fin = TRUE] /\ claim' = claim
        \/ Stop(c) /\ claim' = claim
        \/ /\ Stale(c) # {} /\ claim' = [claim EXCEPT ![pr].ret = TRUE]
           /\ w' = [w EXCEPT ![c].pc = "drain", ![c].cand = {pr}]
    BY <1>2, Zenon DEF RetireOneMember
  <2>2. Stale(c) # {} => pr \in Pair
    <3>1. Stale(c) \in SUBSET Pair
      BY <1>a DEF Stale, Workers
    <3> QED
      BY <3>1, FirstIn
  <2> HIDE DEF pr
  <2>3. [w[c] EXCEPT !.pc = "cleanup", !.fin = TRUE] \in Workers
    BY <1>a DEF Workers, Points
  <2>4. Stale(c) # {} => [w[c] EXCEPT !.pc = "drain", !.cand = {pr}] \in Workers
    BY <1>a, <2>2 DEF Workers, Points
  <2>5. w' \in [Cluster -> Workers]
    BY <1>a, <2>1, <2>3, <2>4, WorkerMoves
  <2>6. claim' \in [Pair -> Claims]
    <3>1. claim \in [Pair -> Claims]
      BY DEF Typed
    <3> QED
      BY <2>1, <2>2, <3>1 DEF Claims
  <2> QED
    BY <1>2, <2>5, <2>6 DEF RetireOneMember, Typed
<1>3. CASE PrepareDrain(c)
  <2>1. w[c].cand \in SUBSET Pair
    BY <1>a DEF Workers
  <2>2. w' \in [Cluster -> Workers]
    BY <1>3, <1>a, WorkerMoves DEF PrepareDrain
  <2> QED
    BY <1>3, <2>1, <2>2 DEF PrepareDrain, Typed
<1>4. CASE RefuseDrain(c)
  BY <1>4, <1>a, WorkerMoves DEF RefuseDrain, Typed
<1>5. CASE ProjectReadiness(c)
  BY <1>5, <1>a, WorkerMoves DEF ProjectReadiness, Typed
<1> QED
  BY <1>1, <1>2, <1>3, <1>4, <1>5

\* The finalizer and the GarageNode controller.
LEMMA LayoutTyped ==
  ASSUME Typed, NEW c \in Cluster,
         FinalizeMember(c) \/ Join(c) \/ LayoutSync(c) \/ DrainDone(c) \/ DropNodeFinalizer(c)
  PROVE  Typed'
<1>1. CASE FinalizeMember(c)
  <2>1. /\ gn' \in [Pair -> {"none", "new", "ready", "del"}] /\ roles' \subseteq Pair
        /\ drain' \in [Cluster -> SUBSET Pair]
    BY <1>1 DEF FinalizeMember, Typed
  <2> QED
    BY <1>1, <2>1 DEF FinalizeMember, Typed
<1>2. CASE Join(c)
  <2>1. gn' \in [Pair -> {"none", "new", "ready", "del"}] /\ roles' \subseteq Pair
    BY <1>2 DEF Join, Typed, Members
  <2> QED
    BY <1>2, <2>1 DEF Join, Typed
<1>3. CASE LayoutSync(c)
  BY <1>3 DEF LayoutSync, Typed
<1>4. CASE DrainDone(c)
  BY <1>4 DEF DrainDone, Typed
<1>5. CASE DropNodeFinalizer(c)
  BY <1>5 DEF DropNodeFinalizer, Typed
<1> QED
  BY <1>1, <1>2, <1>3, <1>4, <1>5

\* Kubernetes.
LEMMA KubernetesTyped ==
  ASSUME Typed, Kubernetes
  PROVE  Typed'
<1>1. ASSUME NEW p \in Pool, NEW n \in Node, DSDecide(p, n) PROVE Typed'
  <2>1. [p |-> p, n |-> n, uid |-> ds[p].uid, tok |-> ds[p].tok] \in Creates
    <3>1. ds[p] \in DaemonSets
      BY DEF Typed
    <3> QED
      BY <1>1, <3>1, NodeLocalPoolAssumption DEF DSDecide, DaemonSets, Creates, Fence
  <2>2. late' \subseteq Creates
    BY <1>1, <2>1 DEF DSDecide, Typed
  <2> QED
    BY <1>1, <2>2 DEF DSDecide, Typed
<1>2. ASSUME DSCreate PROVE Typed'
  <2>1. PICK y \in late : pods' = pods \cup {[p |-> y.p, n |-> y.n, uid |-> y.uid, tok |-> y.tok, st |-> "gated"]}
    BY <1>2 DEF DSCreate
  <2>2. y \in Creates
    BY DEF Typed
  <2>3. [p |-> y.p, n |-> y.n, uid |-> y.uid, tok |-> y.tok, st |-> "gated"] \in Pods
    BY <2>2 DEF Creates, Pods, PodStates
  <2>4. pods' \subseteq Pods
    BY <2>1, <2>3 DEF Typed
  <2> QED
    BY <1>2, <2>4 DEF DSCreate, Typed
<1>3. ASSUME DeletePod \/ Schedule \/ Kubelet PROVE Typed'
  <2>1. \E x \in pods : \/ pods' \subseteq pods
                        \/ pods' = (pods \ {x}) \cup {[x EXCEPT !.st = "dying"]}
                        \/ pods' = (pods \ {x}) \cup {[x EXCEPT !.st = "on"]}
    BY <1>3 DEF DeletePod, Schedule, Kubelet
  <2>2. \A x \in pods : [x EXCEPT !.st = "dying"] \in Pods /\ [x EXCEPT !.st = "on"] \in Pods
    BY DEF Typed, Pods, PodStates
  <2>3. pods' \subseteq Pods
    BY <2>1, <2>2 DEF Typed
  <2> QED
    BY <1>3, <2>3 DEF DeletePod, Schedule, Kubelet, Typed
<1>4. ASSUME NEW p \in Pool, DSObserve(p) PROVE Typed'
  <2>1. ds' \in [Pool -> DaemonSets]
    BY <1>4 DEF DSObserve, Typed, DaemonSets
  <2> QED
    BY <1>4, <2>1 DEF DSObserve, Typed
<1> QED
  BY <1>1, <1>2, <1>3, <1>4 DEF Kubernetes

\* Users, crashes and the deletion a reconcile notices.
LEMMA UserTyped ==
  ASSUME Typed, Users \/ \E c \in Cluster : Crash(c) \/ NoticeDeletion(c)
  PROVE  Typed'
<1>1. ASSUME NEW p \in Pool, NEW S \in SUBSET Node, EditSelector(p, S) PROVE Typed'
  <2>1. owner[p] \in Cluster
    BY SceneTypes DEF Typed
  <2> DEFINE c == owner[p]
  <2>2. spec' \in [Cluster -> Specs]
    <3>1. spec' = [spec EXCEPT ![c].gen = @ + 1]
      BY <1>1 DEF EditSelector
    <3>2. c \in Cluster /\ spec \in [Cluster -> Specs]
      BY <2>1 DEF Typed
    <3> HIDE DEF c
    <3> QED
      BY <3>1, <3>2 DEF Specs
  <2>3. match' \in [Pool -> SUBSET Node]
    BY <1>1 DEF EditSelector, Typed
  <2> QED
    BY <1>1, <2>2, <2>3 DEF EditSelector, Typed
<1>2. ASSUME NEW n \in Node, NEW S \in SUBSET Declared, RelabelNode(n, S) PROVE Typed'
  <2>1. match' \in [Pool -> SUBSET Node]
    BY <1>2 DEF RelabelNode, Typed
  <2> QED
    BY <1>2, <2>1 DEF RelabelNode, Typed
<1>3. ASSUME NEW p \in Pool, ToggleDeclaration(p) PROVE Typed'
  <2>1. owner[p] \in Cluster
    BY SceneTypes DEF Typed
  <2> DEFINE c == owner[p]
  <2>2. spec' = [spec EXCEPT ![c].gen = @ + 1, ![c].decl = IF p \in @ THEN @ \ {p} ELSE @ \cup {p}]
    BY <1>3 DEF ToggleDeclaration
  <2> HIDE DEF c
  <2>3. spec' \in [Cluster -> Specs]
    BY <2>1, <2>2 DEF c, Typed, Specs
  <2> QED
    BY <1>3, <2>3 DEF ToggleDeclaration, Typed
<1>4. ASSUME NEW p \in Pool, DeleteDaemonSet(p) PROVE Typed'
  <2>1. NoDS \in DaemonSets
    BY NodeLocalPoolAssumption DEF NoDS, DaemonSets, Fence
  <2> QED
    BY <1>4, <2>1 DEF DeleteDaemonSet, Typed
<1>5. ASSUME NEW c \in Cluster, DeleteCluster(c) PROVE Typed'
  <2>1. spec' \in [Cluster -> Specs]
    BY <1>5 DEF DeleteCluster, Typed, Specs
  <2> QED
    BY <1>5, <2>1 DEF DeleteCluster, Typed
<1>6. ASSUME NEW c \in Cluster, Crash(c) \/ NoticeDeletion(c) PROVE Typed'
  BY <1>6, WorkerMoves DEF Crash, NoticeDeletion, Typed
<1> QED
  BY <1>1, <1>2, <1>3, <1>4, <1>5, <1>6 DEF Users

\* Every step keeps the types.
LEMMA NextTyped ==
  ASSUME Typed, [Next]_vars
  PROVE  Typed'
<1>1. ASSUME NEW c \in Cluster, Reconcile(c) \/ NodeController(c) PROVE Typed'
  BY <1>1, PublicationTyped, CleanupTyped, ActivationTyped, MembershipTyped, LayoutTyped, UserTyped
     DEF Reconcile, NodeController
<1>2. CASE Kubernetes
  BY <1>2, KubernetesTyped
<1>3. CASE Users
  BY <1>3, UserTyped
<1>4. CASE Faults
  BY <1>4, UserTyped, MembershipTyped DEF Faults
<1>5. CASE UNCHANGED vars
  BY <1>5 DEF vars, Typed
<1> QED
  BY <1>1, <1>2, <1>3, <1>4, <1>5 DEF Next

-----------------------------------------------------------------------------
(* Who changes what.                                                       *)

\* Only users edit the spec of a cluster.
LEMMA OnlyUsersEdit ==
  ASSUME [Next]_vars, ~Users
  PROVE  scene' = scene /\ spec' = spec
<1>1. ASSUME NEW c \in Cluster, Reconcile(c) PROVE scene' = scene /\ spec' = spec
  BY <1>1 DEF Reconcile, Preflight, PublishWorkloads, PublishToken, EnsureMembershipFence,
     CleanupActivationState, CleanupRetiredResources, ExecuteActivations, ReleasePodSchedulingGates,
     MaterializeMembers, RetireOneMember, PrepareDrain, ProjectReadiness, DeleteStorageDaemonSet,
     FinalizeMember, NoticeDeletion
<1>2. ASSUME NEW c \in Cluster, NodeController(c) PROVE scene' = scene /\ spec' = spec
  BY <1>2 DEF NodeController, Join, LayoutSync, DrainDone, DropNodeFinalizer
<1>3. ASSUME Kubernetes PROVE scene' = scene /\ spec' = spec
  BY <1>3 DEF Kubernetes, DSDecide, DSCreate, DeletePod, DSObserve, Schedule, Kubelet
<1>5. ASSUME Faults PROVE scene' = scene /\ spec' = spec
  BY <1>5 DEF Faults, Crash, RefuseDrain
<1>6. ASSUME UNCHANGED vars PROVE scene' = scene /\ spec' = spec
  BY <1>6 DEF vars
<1> QED
  BY <1>1, <1>2, <1>3, <1>5, <1>6 DEF Next

\* No step changes the topology, and a cluster that is deleted stays deleted.
LEMMA SceneIsFixed ==
  ASSUME Typed, [Next]_vars
  PROVE  scene' = scene /\ \A d \in Cluster : spec[d].del => spec'[d].del
<1>0. spec \in [Cluster -> Specs]
  BY DEF Typed
<1>4. CASE Users
  <2>1. ASSUME NEW p \in Pool, NEW S, EditSelector(p, S)
        PROVE  scene' = scene /\ \A d \in Cluster : spec[d].del => spec'[d].del
    BY <1>0, <2>1 DEF EditSelector, Specs
  <2>2. ASSUME NEW p \in Pool, ToggleDeclaration(p)
        PROVE  scene' = scene /\ \A d \in Cluster : spec[d].del => spec'[d].del
    BY <1>0, <2>2 DEF ToggleDeclaration, Specs
  <2>3. ASSUME NEW c \in Cluster, DeleteCluster(c)
        PROVE  scene' = scene /\ \A d \in Cluster : spec[d].del => spec'[d].del
    BY <1>0, <2>3 DEF DeleteCluster, Specs
  <2>4. \A n \in Node, S \in SUBSET Declared : RelabelNode(n, S) => scene' = scene /\ spec' = spec
    BY DEF RelabelNode
  <2>5. \A p \in Pool : DeleteDaemonSet(p) => scene' = scene /\ spec' = spec
    BY DEF DeleteDaemonSet
  <2> QED
    BY <1>4, <2>1, <2>2, <2>3, <2>4, <2>5 DEF Users
<1> QED
  BY <1>4, OnlyUsersEdit

\* What a reconcile holds in its hands.
Holding(d) == <<w[d].want, w[d].have, w[d].cand>>

\* A worker is left alone, ends, starts, creates GarageNodes, plans a retirement, or moves on with what it holds.
WorkerStep(d) ==
  \/ w'[d] = w[d]
  \/ w'[d] = IdleWorker
  \/ Preflight(d)
  \/ MaterializeMembers(d)
  \/ RetireOneMember(d)
  \/ w[d].pc # "idle" /\ w'[d].pc # "drain" /\ Holding(d)' = Holding(d)

LEMMA WorkerStepForm ==
  ASSUME Typed, [Next]_vars
  PROVE  \A d \in Cluster : WorkerStep(d)
<1>0. w \in [Cluster -> Workers]
  BY DEF Typed
<1>1. ASSUME NEW c \in Cluster, Stop(c) PROVE \A d \in Cluster : WorkerStep(d)
  BY <1>0, <1>1 DEF Stop, WorkerStep
<1>2. ASSUME NEW c \in Cluster, NEW pc, pc # "drain", w[c].pc # "idle", Goto(c, pc)
      PROVE  \A d \in Cluster : WorkerStep(d)
  BY <1>0, <1>2 DEF Goto, WorkerStep, Holding, Workers
<1>3. ASSUME w' = w PROVE \A d \in Cluster : WorkerStep(d)
  BY <1>3 DEF WorkerStep
<1>4. ASSUME NEW c \in Cluster, Reconcile(c) PROVE \A d \in Cluster : WorkerStep(d)
  <2>1. CASE Preflight(c)
    BY <1>0, <2>1 DEF Preflight, WorkerStep
  <2>2. CASE PublishWorkloads(c)
    <3>1. w[c].pc # "idle" /\ (Stop(c) \/ Goto(c, "cleanup") \/ Goto(c, "token") \/ w' = w)
      BY <2>2 DEF PublishWorkloads
    <3> QED
      BY <1>1, <1>2, <1>3, <3>1
  <2>3. CASE PublishToken(c)
    BY <1>1, <1>2, <2>3 DEF PublishToken
  <2>4. CASE EnsureMembershipFence(c)
    BY <1>1, <2>4 DEF EnsureMembershipFence
  <2>5. CASE CleanupActivationState(c)
    <3>1. \/ Stop(c)
          \/ w' = [w EXCEPT ![c].hold = Retiring(c) # {},
                            ![c].pc = IF Retiring(c) # {} /\ ~w[c].fin THEN "gates" ELSE "sweep"]
      BY <2>5 DEF CleanupActivationState
    <3>2. w[c].pc # "idle"
      BY <2>5 DEF CleanupActivationState
    <3> QED
      BY <1>0, <1>1, <3>1, <3>2 DEF WorkerStep, Holding, Workers
  <2>6. CASE CleanupRetiredResources(c)
    <3>1. w[c].pc # "idle" /\ (Stop(c) \/ Goto(c, "project") \/ Goto(c, "activate"))
      BY <2>6 DEF CleanupRetiredResources
    <3> QED
      BY <1>1, <1>2, <3>1
  <2>7. CASE ExecuteActivations(c)
    <3>1. \/ Stop(c)
          \/ \E act, wait : w' = [w EXCEPT ![c].pc = "gates", ![c].act = act, ![c].wait = wait]
      BY <2>7 DEF ExecuteActivations
    <3>2. w[c].pc # "idle"
      BY <2>7 DEF ExecuteActivations
    <3>3. ASSUME NEW act, NEW wait, w' = [w EXCEPT ![c].pc = "gates", ![c].act = act, ![c].wait = wait]
          PROVE  \A d \in Cluster : WorkerStep(d)
      BY <1>0, <3>2, <3>3 DEF WorkerStep, Holding, Workers
    <3> QED
      BY <1>1, <3>1, <3>3
  <2>8. CASE ReleasePodSchedulingGates(c)
    <3>1. \/ Stop(c)
          \/ \E act : w' = [w EXCEPT ![c].pc = IF w[c].hold THEN "sweep" ELSE "materialize", ![c].act = act]
      BY <2>8 DEF ReleasePodSchedulingGates
    <3>2. w[c].pc # "idle"
      BY <2>8 DEF ReleasePodSchedulingGates
    <3> QED
      BY <1>0, <1>1, <3>1, <3>2 DEF WorkerStep, Holding, Workers
  <2>9. CASE MaterializeMembers(c)
    BY <1>0, <2>9 DEF MaterializeMembers, WorkerStep
  <2>10. CASE RetireOneMember(c)
    BY <1>0, <2>10 DEF RetireOneMember, Stop, WorkerStep
  <2>11. CASE PrepareDrain(c) \/ ProjectReadiness(c) \/ NoticeDeletion(c)
    BY <1>1, <2>11 DEF PrepareDrain, ProjectReadiness, NoticeDeletion
  <2>12. CASE DeleteStorageDaemonSet(c) \/ FinalizeMember(c)
    BY <1>3, <2>12 DEF DeleteStorageDaemonSet, FinalizeMember
  <2> QED
    BY <1>4, <2>1, <2>2, <2>3, <2>4, <2>5, <2>6, <2>7, <2>8, <2>9, <2>10, <2>11, <2>12 DEF Reconcile
<1>5. ASSUME NEW c \in Cluster, NodeController(c) PROVE w' = w
  BY <1>5 DEF NodeController, Join, LayoutSync, DrainDone, DropNodeFinalizer
<1>6. ASSUME Kubernetes PROVE w' = w
  BY <1>6 DEF Kubernetes, DSDecide, DSCreate, DeletePod, DSObserve, Schedule, Kubelet
<1>7. ASSUME Users PROVE w' = w
  BY <1>7 DEF Users, EditSelector, RelabelNode, ToggleDeclaration, DeleteDaemonSet, DeleteCluster
<1>8. ASSUME Faults PROVE \A d \in Cluster : WorkerStep(d)
  BY <1>1, <1>8 DEF Faults, Crash, RefuseDrain
<1>9. ASSUME UNCHANGED vars PROVE w' = w
  BY <1>9 DEF vars
<1> QED
  BY <1>3, <1>4, <1>5, <1>6, <1>7, <1>8, <1>9 DEF Next

\* The steps that create, join, drain or remove members.
MemberStep(c) ==
  \/ MaterializeMembers(c) \/ PrepareDrain(c) \/ FinalizeMember(c)
  \/ Join(c) \/ DrainDone(c) \/ DropNodeFinalizer(c)

LEMMA OnlyMemberSteps ==
  ASSUME [Next]_vars
  PROVE  UNCHANGED <<gn, roles, drain>> \/ \E c \in Cluster : MemberStep(c)
<1>1. ASSUME NEW c \in Cluster, Reconcile(c) \/ NodeController(c)
      PROVE  UNCHANGED <<gn, roles, drain>> \/ MemberStep(c)
  BY <1>1 DEF Reconcile, Preflight, PublishWorkloads, PublishToken, EnsureMembershipFence,
     CleanupActivationState, CleanupRetiredResources, ExecuteActivations, ReleasePodSchedulingGates,
     RetireOneMember, ProjectReadiness, DeleteStorageDaemonSet, NoticeDeletion, NodeController,
     LayoutSync, MemberStep
<1>2. ASSUME Kubernetes PROVE UNCHANGED <<gn, roles, drain>>
  BY <1>2 DEF Kubernetes, DSDecide, DSCreate, DeletePod, DSObserve, Schedule, Kubelet
<1>3. ASSUME Users PROVE UNCHANGED <<gn, roles, drain>>
  BY <1>3 DEF Users, EditSelector, RelabelNode, ToggleDeclaration, DeleteDaemonSet, DeleteCluster
<1>4. ASSUME Faults PROVE UNCHANGED <<gn, roles, drain>>
  BY <1>4 DEF Faults, Crash, RefuseDrain
<1>5. ASSUME UNCHANGED vars PROVE UNCHANGED <<gn, roles, drain>>
  BY <1>5 DEF vars
<1> QED
  BY <1>1, <1>2, <1>3, <1>4, <1>5 DEF Next

\* The steps that write claims or change Pods.
DiskStep(c) ==
  \/ ExecuteActivations(c) \/ CleanupActivationState(c) \/ RetireOneMember(c)
  \/ DeleteStorageDaemonSet(c) \/ ReleasePodSchedulingGates(c)
PodStep == DSCreate \/ DeletePod \/ Schedule \/ Kubelet

LEMMA OnlyDiskSteps ==
  ASSUME [Next]_vars
  PROVE  UNCHANGED <<claim, pods>> \/ PodStep \/ \E c \in Cluster : DiskStep(c)
<1>1. ASSUME NEW c \in Cluster, Reconcile(c)
      PROVE  UNCHANGED <<claim, pods>> \/ DiskStep(c)
  BY <1>1 DEF Reconcile, Preflight, PublishWorkloads, PublishToken, EnsureMembershipFence,
     CleanupRetiredResources, MaterializeMembers, PrepareDrain, ProjectReadiness, FinalizeMember,
     NoticeDeletion, DiskStep
<1>2. ASSUME NEW c \in Cluster, NodeController(c) PROVE UNCHANGED <<claim, pods>>
  BY <1>2 DEF NodeController, Join, LayoutSync, DrainDone, DropNodeFinalizer
<1>3. ASSUME Kubernetes PROVE UNCHANGED <<claim, pods>> \/ PodStep
  BY <1>3 DEF Kubernetes, DSDecide, DSObserve, PodStep
<1>4. ASSUME Users PROVE UNCHANGED <<claim, pods>>
  BY <1>4 DEF Users, EditSelector, RelabelNode, ToggleDeclaration, DeleteDaemonSet, DeleteCluster
<1>5. ASSUME Faults PROVE UNCHANGED <<claim, pods>>
  BY <1>5 DEF Faults, Crash, RefuseDrain
<1>6. ASSUME UNCHANGED vars PROVE UNCHANGED <<claim, pods>>
  BY <1>6 DEF vars
<1> QED
  BY <1>1, <1>2, <1>3, <1>4, <1>5, <1>6 DEF Next

\* The steps that create or delete a DaemonSet or what its Pods mount.
WorkloadStep ==
  \/ \E c \in Cluster : PublishWorkloads(c) \/ CleanupRetiredResources(c) \/ DeleteStorageDaemonSet(c)
  \/ \E p \in Pool : DeleteDaemonSet(p)

LEMMA OnlyWorkloadSteps ==
  ASSUME Typed, [Next]_vars
  PROVE  WorkloadStep \/ (config' = config /\ \A p \in Pool : ds'[p].uid = ds[p].uid)
<1> DEFINE Unmoved == config' = config /\ \A p \in Pool : ds'[p].uid = ds[p].uid
<1>0. ds \in [Pool -> DaemonSets]
  BY DEF Typed
<1>1. ASSUME NEW c \in Cluster, Reconcile(c) PROVE WorkloadStep \/ Unmoved
  <2>1. CASE PublishToken(c)
    BY <1>0, <2>1 DEF PublishToken, DaemonSets
  <2>2. CASE EnsureMembershipFence(c)
    <3>1. config' = config
      BY <2>2 DEF EnsureMembershipFence
    <3>2. ds' = ds \/ \E p, t, f : ds' = [ds EXCEPT ![p].tok = t, ![p].fence = f, ![p].seen = FALSE]
      BY <2>2 DEF EnsureMembershipFence
    <3>3. ASSUME NEW p, NEW t, NEW f, ds' = [ds EXCEPT ![p].tok = t, ![p].fence = f, ![p].seen = FALSE]
          PROVE  \A q \in Pool : ds'[q].uid = ds[q].uid
      BY <1>0, <3>3 DEF DaemonSets
    <3> QED
      BY <3>1, <3>2, <3>3
  <2>3. CASE PublishWorkloads(c) \/ CleanupRetiredResources(c) \/ DeleteStorageDaemonSet(c)
    BY <2>3, Zenon DEF WorkloadStep
  <2>4. CASE \/ Preflight(c) \/ CleanupActivationState(c) \/ ExecuteActivations(c)
             \/ ReleasePodSchedulingGates(c) \/ MaterializeMembers(c) \/ RetireOneMember(c) \/ PrepareDrain(c)
             \/ ProjectReadiness(c) \/ FinalizeMember(c) \/ NoticeDeletion(c)
    BY <2>4 DEF Preflight, CleanupActivationState, ExecuteActivations,
       ReleasePodSchedulingGates, MaterializeMembers, RetireOneMember, PrepareDrain, ProjectReadiness,
       FinalizeMember, NoticeDeletion
  <2> QED
    BY <1>1, <2>1, <2>2, <2>3, <2>4 DEF Reconcile
<1>2. ASSUME NEW c \in Cluster, NodeController(c) PROVE Unmoved
  BY <1>2 DEF NodeController, Join, LayoutSync, DrainDone, DropNodeFinalizer
<1>3. ASSUME Kubernetes PROVE Unmoved
  <2>1. ASSUME NEW p \in Pool, DSObserve(p) PROVE Unmoved
    BY <1>0, <2>1 DEF DSObserve, DaemonSets
  <2>2. ASSUME NEW p \in Pool, NEW n \in Node, DSDecide(p, n) PROVE Unmoved
    BY <2>2 DEF DSDecide
  <2>3. ASSUME DSCreate \/ DeletePod \/ Schedule \/ Kubelet PROVE Unmoved
    BY <2>3 DEF DSCreate, DeletePod, Schedule, Kubelet
  <2> HIDE DEF Unmoved
  <2> QED
    BY <1>3, <2>1, <2>2, <2>3 DEF Kubernetes
<1>4. ASSUME Users PROVE WorkloadStep \/ Unmoved
  BY <1>4 DEF Users, EditSelector, RelabelNode, ToggleDeclaration, DeleteCluster, WorkloadStep
<1>5. ASSUME Faults PROVE Unmoved
  BY <1>5 DEF Faults, Crash, RefuseDrain
<1>6. ASSUME UNCHANGED vars PROVE Unmoved
  BY <1>6 DEF vars
<1> HIDE DEF Unmoved
<1>7. WorkloadStep \/ Unmoved
  BY <1>1, <1>2, <1>3, <1>4, <1>5, <1>6 DEF Next
<1> QED
  BY <1>7 DEF Unmoved

-----------------------------------------------------------------------------
(* What a reconcile knows.                                                 *)

OwnPairs(c) == {pr \in Pair : owner[pr[1]] = c}

\* Pools, members in hand and drains are a cluster's own.
Ownership == \A c \in Cluster :
  /\ spec[c].decl \subseteq Mine(c)
  /\ w[c].want \subseteq OwnPairs(c) /\ w[c].have \subseteq OwnPairs(c)
  /\ drain[c] \subseteq OwnPairs(c)

\* A reconcile has every GarageNode of its cluster in hand, because nobody else creates any; about to publish a
\* drain, it has one candidate and no other drain is under way.
WorkerKnows == \A c \in Cluster :
  /\ w[c].pc # "idle" => Members(c) \subseteq w[c].have
  /\ w[c].pc = "drain" => drain[c] = {} /\ \E pr \in OwnPairs(c) : w[c].cand = {pr}

LEMMA NextOwnership ==
  ASSUME Typed, Ownership, WorkerKnows, [Next]_vars
  PROVE  Ownership'
<1>0. scene' = scene /\ \A c : OwnPairs(c)' = OwnPairs(c) /\ Mine(c)' = Mine(c)
  BY SceneIsFixed DEF OwnPairs, Mine, owner
<1>1. ASSUME NEW d \in Cluster PROVE spec'[d].decl \subseteq Mine(d)
  <2>0. spec \in [Cluster -> Specs] /\ spec[d].decl \subseteq Mine(d)
    BY DEF Typed, Ownership
  <2>1. ASSUME NEW p \in Pool, NEW S, EditSelector(p, S) PROVE spec'[d].decl = spec[d].decl
    BY <2>0, <2>1 DEF EditSelector, Specs
  <2>2. ASSUME NEW p \in Pool, ToggleDeclaration(p) PROVE spec'[d].decl \subseteq Mine(d)
    <3> DEFINE c == owner[p]
    <3>1. spec' = [spec EXCEPT ![c].gen = @ + 1, ![c].decl = IF p \in @ THEN @ \ {p} ELSE @ \cup {p}]
      BY <2>2 DEF ToggleDeclaration
    <3>2. p \in Mine(c)
      BY DEF Mine
    <3> HIDE DEF c
    <3> QED
      BY <2>0, <3>1, <3>2 DEF Specs
  <2>3. ASSUME NEW c \in Cluster, DeleteCluster(c) PROVE spec'[d].decl = spec[d].decl
    BY <2>0, <2>3 DEF DeleteCluster, Specs
  <2>4. CASE Users
    <3>1. \A n \in Node, S \in SUBSET Declared : RelabelNode(n, S) => spec' = spec
      BY DEF RelabelNode
    <3>2. \A p \in Pool : DeleteDaemonSet(p) => spec' = spec
      BY DEF DeleteDaemonSet
    <3> QED
      BY <2>0, <2>1, <2>2, <2>3, <2>4, <3>1, <3>2 DEF Users
  <2>5. ~Users => spec' = spec
    BY OnlyUsersEdit
  <2> QED
    BY <2>0, <2>4, <2>5
<1>2. ASSUME NEW d \in Cluster PROVE w'[d].want \subseteq OwnPairs(d) /\ w'[d].have \subseteq OwnPairs(d)
  <2>0. /\ w[d].want \subseteq OwnPairs(d) /\ w[d].have \subseteq OwnPairs(d)
        /\ w \in [Cluster -> Workers] /\ w[d] \in Workers
    BY DEF Ownership, Typed
  <2>1. WorkerStep(d)
    BY WorkerStepForm
  <2>2. CASE w'[d] = w[d] \/ w'[d] = IdleWorker \/ Holding(d)' = Holding(d)
    BY <2>0, <2>2 DEF IdleWorker, Holding
  <2>3. CASE Preflight(d)
    <3>1. w'[d].want \subseteq Selected(d) /\ w'[d].have = Members(d)
      BY <2>0, <2>3 DEF Preflight
    <3>2. Selected(d) \subseteq OwnPairs(d)
      BY DEF Selected, Ownership, OwnPairs, Mine
    <3>3. Members(d) \subseteq OwnPairs(d)
      BY DEF Members, OwnPairs
    <3> QED
      BY <3>1, <3>2, <3>3
  <2>4. CASE MaterializeMembers(d)
    <3> DEFINE made == {pr \in w[d].want : gn[pr] = "none" /\ Running(pr)}
    <3>1. w' = [w EXCEPT ![d].have = @ \cup made, ![d].pc = "retire"] /\ made \subseteq w[d].want
      BY <2>4 DEF MaterializeMembers
    <3> HIDE DEF made
    <3>2. w'[d].want = w[d].want /\ w'[d].have = w[d].have \cup made
      BY <2>0, <3>1 DEF Workers
    <3> QED
      BY <2>0, <3>1, <3>2
  <2>5. CASE RetireOneMember(d)
    <3>1. \/ w' = [w EXCEPT ![d].pc = "cleanup", ![d].fin = TRUE]
          \/ w' = [w EXCEPT ![d] = IdleWorker]
          \/ w' = [w EXCEPT ![d].pc = "drain", ![d].cand = {First(Stale(d))}]
      BY <2>5, Zenon DEF RetireOneMember, Stop
    <3>2. \/ w'[d].want = w[d].want /\ w'[d].have = w[d].have
          \/ w'[d] = IdleWorker
      BY <2>0, <3>1 DEF Workers
    <3> QED
      BY <2>0, <3>2 DEF IdleWorker
  <2> QED
    BY <2>1, <2>2, <2>3, <2>4, <2>5 DEF WorkerStep
<1>3. ASSUME NEW d \in Cluster PROVE drain'[d] \subseteq OwnPairs(d)
  <2>0. drain[d] \subseteq OwnPairs(d) /\ drain \in [Cluster -> SUBSET Pair]
    BY DEF Ownership, Typed
  <2>1. ASSUME NEW c \in Cluster, MemberStep(c)
        PROVE  drain' = drain \/ drain' = [drain EXCEPT ![c] = {}] \/ PrepareDrain(c)
    BY <2>1 DEF MemberStep, MaterializeMembers, FinalizeMember, Join, DrainDone, DropNodeFinalizer
  <2>2. ASSUME NEW c \in Cluster, PrepareDrain(c) PROVE drain'[d] \subseteq OwnPairs(d)
    <3>1. w[c].cand \subseteq OwnPairs(c) /\ drain' = [drain EXCEPT ![c] = w[c].cand]
      BY <2>2 DEF PrepareDrain, WorkerKnows
    <3> QED
      BY <2>0, <3>1
  <2>3. drain' = drain \/ (\E c \in Cluster : drain' = [drain EXCEPT ![c] = {}]) \/ \E c \in Cluster : PrepareDrain(c)
    BY <2>1, OnlyMemberSteps
  <2> QED
    BY <2>0, <2>2, <2>3
<1> QED
  BY <1>0, <1>1, <1>2, <1>3 DEF Ownership

\* Only a cluster's own reconcile creates its GarageNodes, and puts them in its hands.
LEMMA NewMembers ==
  ASSUME Typed, Ownership, WorkerKnows, [Next]_vars, NEW d \in Cluster
  PROVE  \/ Members(d)' \subseteq Members(d)
         \/ MaterializeMembers(d)
         \/ PrepareDrain(d)
<1>0. gn \in [Pair -> {"none", "new", "ready", "del"}] /\ scene' = scene
  BY SceneIsFixed DEF Typed
<1>1. CASE gn' = gn
  BY <1>0, <1>1 DEF Members, owner
<1>2. ASSUME NEW c \in Cluster, FinalizeMember(c) \/ Join(c) \/ DrainDone(c) \/ DropNodeFinalizer(c)
      PROVE  Members(d)' \subseteq Members(d)
  <2>1. CASE FinalizeMember(c)
    BY <1>0, <2>1 DEF FinalizeMember, Members, owner
  <2>2. CASE Join(c)
    BY <1>0, <2>2 DEF Join, Members, owner
  <2>3. CASE DrainDone(c)
    BY <1>0, <2>3 DEF DrainDone, Members, owner
  <2>4. CASE DropNodeFinalizer(c)
    BY <1>0, <2>4 DEF DropNodeFinalizer, Members, owner
  <2> QED
    BY <1>2, <2>1, <2>2, <2>3, <2>4
<1>3. ASSUME NEW c \in Cluster, c # d, MaterializeMembers(c) PROVE Members(d)' \subseteq Members(d)
  <2>1. w[c].want \subseteq OwnPairs(c)
    BY DEF Ownership
  <2> QED
    BY <1>0, <1>3, <2>1 DEF MaterializeMembers, Members, OwnPairs, owner
<1>4. ASSUME NEW c \in Cluster, c # d, PrepareDrain(c) PROVE Members(d)' \subseteq Members(d)
  <2>1. w[c].cand \subseteq OwnPairs(c)
    BY <1>4 DEF WorkerKnows, PrepareDrain
  <2> QED
    BY <1>0, <1>4, <2>1 DEF PrepareDrain, Members, OwnPairs, owner
<1> QED
  BY <1>1, <1>2, <1>3, <1>4, OnlyMemberSteps DEF MemberStep

LEMMA NextWorkerKnows ==
  ASSUME Typed, Ownership, WorkerKnows, [Next]_vars
  PROVE  WorkerKnows'
<1>0. /\ scene' = scene /\ \A c : OwnPairs(c)' = OwnPairs(c)
      /\ w \in [Cluster -> Workers] /\ drain \in [Cluster -> SUBSET Pair]
  BY SceneIsFixed DEF OwnPairs, owner, Typed
<1>1. ASSUME NEW d \in Cluster, w'[d].pc # "idle" PROVE Members(d)' \subseteq w'[d].have
  <2>0. w[d] \in Workers /\ (w[d].pc # "idle" => Members(d) \subseteq w[d].have) /\ w'[d] # IdleWorker
    BY <1>0, <1>1 DEF WorkerKnows, IdleWorker
  <2>1. ~PrepareDrain(d)
    BY <1>0, <2>0 DEF PrepareDrain, Stop
  <2>2. CASE MaterializeMembers(d)
    <3> DEFINE made == {pr \in w[d].want : gn[pr] = "none" /\ Running(pr)}
    <3>1. /\ w' = [w EXCEPT ![d].have = @ \cup made, ![d].pc = "retire"]
          /\ gn' = [pr \in Pair |-> IF pr \in made THEN "new" ELSE gn[pr]]
          /\ w[d].pc # "idle"
      BY <2>2 DEF MaterializeMembers
    <3> HIDE DEF made
    <3>2. w'[d].have = w[d].have \cup made
      BY <1>0, <2>0, <3>1 DEF Workers
    <3>3. Members(d)' \subseteq Members(d) \cup made
      BY <1>0, <3>1 DEF Members, owner
    <3> QED
      BY <2>0, <3>1, <3>2, <3>3
  <2>3. CASE ~MaterializeMembers(d)
    <3>1. Members(d)' \subseteq Members(d)
      BY <2>1, <2>3, NewMembers
    <3>2. CASE Preflight(d)
      <4>1. w'[d].have = Members(d)
        BY <1>0, <3>2 DEF Preflight
      <4> QED
        BY <3>1, <4>1
    <3>3. CASE RetireOneMember(d)
      <4>1. \/ w' = [w EXCEPT ![d].pc = "cleanup", ![d].fin = TRUE]
            \/ w' = [w EXCEPT ![d] = IdleWorker]
            \/ w' = [w EXCEPT ![d].pc = "drain", ![d].cand = {First(Stale(d))}]
        BY <3>3, Zenon DEF RetireOneMember, Stop
      <4>2. w'[d].have = w[d].have /\ w[d].pc # "idle"
        BY <1>0, <2>0, <3>3, <4>1 DEF Workers, RetireOneMember
      <4> QED
        BY <2>0, <3>1, <4>2
    <3>4. CASE w'[d] = w[d] \/ (w[d].pc # "idle" /\ Holding(d)' = Holding(d))
      BY <1>1, <2>0, <3>1, <3>4 DEF Holding
    <3> QED
      BY <2>0, <2>3, <3>2, <3>3, <3>4, WorkerStepForm DEF WorkerStep
  <2> QED
    BY <2>2, <2>3
<1>2. ASSUME NEW d \in Cluster, w'[d].pc = "drain"
      PROVE  drain'[d] = {} /\ \E pr \in OwnPairs(d) : w'[d].cand = {pr}
  <2>0. w[d] \in Workers /\ w'[d] # IdleWorker
    BY <1>0, <1>2 DEF IdleWorker
  <2>1. \/ w'[d] = w[d]
        \/ RetireOneMember(d)
    <3>1. ~Preflight(d)
      BY <1>0, <1>2 DEF Preflight, IdleWorker
    <3>2. ~MaterializeMembers(d)
      BY <1>0, <1>2, <2>0 DEF MaterializeMembers, Workers
    <3> QED
      BY <1>2, <2>0, <3>1, <3>2, WorkerStepForm DEF WorkerStep
  <2>2. CASE RetireOneMember(d)
    <3> DEFINE pr == First(Stale(d))
    <3>1. \/ w' = [w EXCEPT ![d].pc = "cleanup", ![d].fin = TRUE]
          \/ w' = [w EXCEPT ![d] = IdleWorker]
          \/ w' = [w EXCEPT ![d].pc = "drain", ![d].cand = {pr}] /\ Stale(d) # {} /\ MayRetire(d, pr)
      BY <2>2, Zenon DEF RetireOneMember, Stop
    <3>2. w' = [w EXCEPT ![d].pc = "drain", ![d].cand = {pr}] /\ Stale(d) # {} /\ MayRetire(d, pr)
      <4> HIDE DEF pr
      <4> QED
        BY <1>0, <1>2, <2>0, <3>1 DEF Workers
    <3>3. pr \in Stale(d)
      <4>1. Stale(d) \in SUBSET Pair
        BY <2>0 DEF Stale, Workers
      <4> QED
        BY <3>2, <4>1, FirstIn
    <3>4. pr \in OwnPairs(d)
      BY <3>3 DEF Stale, Ownership
    <3>5. drain[d] = {} /\ drain' = drain
      BY <2>2, <3>2 DEF MayRetire, RetireOneMember
    <3> HIDE DEF pr
    <3>6. w'[d].cand = {pr}
      BY <1>0, <2>0, <3>2 DEF Workers
    <3> QED
      BY <3>4, <3>5, <3>6
  <2>3. CASE w'[d] = w[d]
    <3>1. drain[d] = {} /\ \E pr \in OwnPairs(d) : w[d].cand = {pr}
      BY <1>2, <2>3 DEF WorkerKnows
    <3>2. drain'[d] = {}
      <4>1. ~PrepareDrain(d)
        BY <1>0, <2>0 DEF PrepareDrain, Stop
      <4>2. ASSUME NEW c \in Cluster, MemberStep(c), ~PrepareDrain(c) PROVE drain'[d] \in {drain[d], {}}
        BY <1>0, <4>2 DEF MemberStep, MaterializeMembers, FinalizeMember, Join, DrainDone, DropNodeFinalizer
      <4>3. ASSUME NEW c \in Cluster, PrepareDrain(c), c # d PROVE drain'[d] = drain[d]
        BY <1>0, <4>3 DEF PrepareDrain
      <4> QED
        BY <3>1, <4>1, <4>2, <4>3, OnlyMemberSteps
    <3> QED
      BY <2>3, <3>1, <3>2
  <2> QED
    BY <2>1, <2>2, <2>3
<1> QED
  BY <1>0, <1>1, <1>2 DEF WorkerKnows

-----------------------------------------------------------------------------
(* GarageNodes, drains and roles.                                          *)

\* Whoever has a role is a member that joined, and whoever joined and does not leave has one.
RoleOfMember ==
  /\ \A pr \in roles : gn[pr] \in {"ready", "del"}
  /\ \A pr \in Pair : gn[pr] = "ready" => pr \in roles

\* A drain is about one member, which is leaving.
DrainOfMember == \A c \in Cluster :
  /\ drain[c] = {} \/ \E pr \in Pair : drain[c] = {pr}
  /\ \A pr \in drain[c] : gn[pr] = "del"

LEMMA NextMembers ==
  ASSUME Typed, Ownership, WorkerKnows, RoleOfMember, DrainOfMember, [Next]_vars
  PROVE  RoleOfMember' /\ DrainOfMember'
<1>0. /\ gn \in [Pair -> {"none", "new", "ready", "del"}] /\ roles \subseteq Pair
      /\ drain \in [Cluster -> SUBSET Pair]
  BY DEF Typed
<1>a. \A c, d \in Cluster : c # d => OwnPairs(c) \cap OwnPairs(d) = {}
  BY DEF OwnPairs
<1>1. CASE UNCHANGED <<gn, roles, drain>>
  BY <1>1 DEF RoleOfMember, DrainOfMember
<1>2. ASSUME NEW c \in Cluster, MaterializeMembers(c) PROVE RoleOfMember' /\ DrainOfMember'
  BY <1>0, <1>2 DEF MaterializeMembers, RoleOfMember, DrainOfMember
<1>3. ASSUME NEW c \in Cluster, PrepareDrain(c) PROVE RoleOfMember' /\ DrainOfMember'
  <2>1. PICK pr \in OwnPairs(c) : w[c].cand = {pr}
    BY <1>3 DEF PrepareDrain, WorkerKnows
  <2>2. pr \in Pair
    BY DEF OwnPairs
  <2> QED
    BY <1>0, <1>3, <2>1, <2>2 DEF PrepareDrain, RoleOfMember, DrainOfMember
<1>4. ASSUME NEW c \in Cluster, FinalizeMember(c) PROVE RoleOfMember' /\ DrainOfMember'
  <2>1. PICK pr \in Members(c) : /\ drain[c] \subseteq {pr} /\ gn' = [gn EXCEPT ![pr] = "none"]
                                 /\ roles' = roles \ {pr} /\ drain' = [drain EXCEPT ![c] = {}]
    BY <1>4 DEF FinalizeMember
  <2>2. pr \in OwnPairs(c) /\ pr \in Pair
    BY DEF Members, OwnPairs
  <2>3. \A d \in Cluster \ {c} : pr \notin drain[d]
    BY <1>a, <2>2 DEF Ownership
  <2> QED
    BY <1>0, <2>1, <2>2, <2>3 DEF RoleOfMember, DrainOfMember
<1>5. ASSUME NEW c \in Cluster, Join(c) PROVE RoleOfMember' /\ DrainOfMember'
  BY <1>0, <1>5 DEF Join, Members, RoleOfMember, DrainOfMember
<1>6. ASSUME NEW c \in Cluster, DrainDone(c) PROVE RoleOfMember' /\ DrainOfMember'
  BY <1>0, <1>6 DEF DrainDone, RoleOfMember, DrainOfMember
<1>7. ASSUME NEW c \in Cluster, DropNodeFinalizer(c) PROVE RoleOfMember' /\ DrainOfMember'
  <2>1. \A d \in Cluster \ {c} : drain[c] \cap drain[d] = {}
    BY <1>a DEF Ownership
  <2> QED
    BY <1>0, <1>7, <2>1 DEF DropNodeFinalizer, RoleOfMember, DrainOfMember
<1> QED
  BY <1>1, <1>2, <1>3, <1>4, <1>5, <1>6, <1>7, OnlyMemberSteps DEF MemberStep

-----------------------------------------------------------------------------
(* Who may use a disk.                                                     *)

\* A Pod whose scheduling gate is off.
Open(x) == x.st # "gated"

\* On each Node one gate at most is off, and it stays the same Pod until it is gone.
OneOpenPod == \A x, y \in pods : Open(x) /\ Open(y) /\ x.n = y.n => x = y

\* Behind every open gate and every role stands a claim on the disk.
OpenIsClaimed == \A x \in pods : Open(x) => claim[<<x.p, x.n>>].on
RoleIsClaimed == \A pr \in roles : claim[pr].on

\* What changes a claim: activation takes one no other pool has on the Node, cleanup and deletion give one up that
\* nothing uses, and the retiring mark leaves it.
LEMMA ClaimChanges ==
  ASSUME Typed, Ownership, WorkerKnows, RoleOfMember, [Next]_vars, NEW pr \in Pair, claim'[pr].on # claim[pr].on
  PROVE  \/ /\ claim'[pr].on /\ ~ClaimedElsewhere(pr)
            /\ \E c \in Cluster : ExecuteActivations(c) /\ pr[1] \in spec[c].decl /\ pr[2] \in match[pr[1]]
                 /\ \A q \in spec[c].decl \ {pr[1]} : pr[2] \notin match[q]
         \/ ~claim'[pr].on /\ pr \notin roles /\ roles' = roles /\ pods' = pods /\ \A x \in pods : ~Targets(pr, x)
<1>0. claim \in [Pair -> Claims] /\ NoClaim.on = FALSE
  BY DEF Typed, NoClaim
<1>1. ASSUME NEW c \in Cluster, ExecuteActivations(c)
      PROVE  /\ claim'[pr].on /\ ~ClaimedElsewhere(pr)
             /\ pr[1] \in spec[c].decl /\ pr[2] \in match[pr[1]]
             /\ \A q \in spec[c].decl \ {pr[1]} : pr[2] \notin match[q]
  <2>1. \E S, pinned : EnsureActivation({a \in S : Activatable(c, a)}, pinned)
    BY <1>1, Zenon DEF ExecuteActivations
  <2>2. PICK S, pinned : EnsureActivation({a \in S : Activatable(c, a)}, pinned)
    BY <2>1
  <2>3. claim'[pr].on /\ Activatable(c, pr)
    BY <1>0, <2>2 DEF EnsureActivation, Claims
  <2> QED
    BY <2>3 DEF Activatable, HostPathConflict
<1>2. ASSUME NEW c \in Cluster, CleanupActivationState(c)
      PROVE  ~claim'[pr].on /\ pr \notin roles /\ roles' = roles /\ pods' = pods /\ \A x \in pods : ~Targets(pr, x)
  <2>1. claim' = [a \in Pair |-> IF a \in Releasable(c) THEN NoClaim ELSE MarkRetiring(c, a)] /\ w[c].pc = "cleanup"
    BY <1>2 DEF CleanupActivationState
  <2>2. pr \in Releasable(c) /\ ~claim'[pr].on
    BY <1>0, <2>1 DEF MarkRetiring, Claims
  <2>3. ~Kept(c, pr) /\ pr \in Retiring(c)
    BY <2>2 DEF Releasable
  <2>4. pr \notin Members(c) /\ owner[pr[1]] = c
    BY <2>1, <2>3 DEF WorkerKnows, Kept, Retiring
  <2>5. pr \notin roles
    BY <2>4 DEF Members, RoleOfMember
  <2> QED
    BY <1>2, <2>2, <2>3, <2>5 DEF Kept, CleanupActivationState
<1>3. ASSUME NEW c \in Cluster, RetireOneMember(c) PROVE FALSE
  <2>1. claim' = claim \/ claim' = [claim EXCEPT ![First(Stale(c))].ret = TRUE]
    BY <1>3, Zenon DEF RetireOneMember
  <2> QED
    BY <1>0, <2>1 DEF Claims
<1>4. ASSUME NEW c \in Cluster, DeleteStorageDaemonSet(c)
      PROVE  ~claim'[pr].on /\ pr \notin roles /\ roles' = roles /\ pods' = pods /\ \A x \in pods : ~Targets(pr, x)
  <2>1. /\ owner[pr[1]] = c /\ ~claim'[pr].on /\ PoolPodsGone(c)
        /\ \A a \in Pair : owner[a[1]] = c => a \notin roles
        /\ UNCHANGED <<roles, pods>>
    BY <1>0, <1>4, Zenon DEF DeleteStorageDaemonSet
  <2>2. pr[1] \in Mine(c)
    BY <2>1 DEF Mine, Pair
  <2> QED
    BY <2>1, <2>2 DEF PoolPodsGone, PoolPods, Targets
<1>5. ASSUME NEW c \in Cluster, ReleasePodSchedulingGates(c) PROVE FALSE
  BY <1>5 DEF ReleasePodSchedulingGates
<1>6. ASSUME PodStep PROVE FALSE
  BY <1>6 DEF PodStep, DSCreate, DeletePod, Schedule, Kubelet
<1> QED
  BY <1>1, <1>2, <1>3, <1>4, <1>5, <1>6, OnlyDiskSteps DEF DiskStep

LEMMA NextOneClaim ==
  ASSUME Typed, Ownership, WorkerKnows, RoleOfMember, OneClaimPerDisk, [Next]_vars
  PROVE  OneClaimPerDisk'
<1> SUFFICES ASSUME NEW p \in Pool, NEW q \in Pool, NEW n \in Node,
                    claim'[<<p, n>>].on, claim'[<<q, n>>].on, p # q
             PROVE  FALSE
  BY DEF OneClaimPerDisk
<1> DEFINE a == <<p, n>>
           b == <<q, n>>
<1>0. a \in Pair /\ b \in Pair /\ a[1] = p /\ b[1] = q /\ a[2] = n /\ b[2] = n
  BY DEF Pair
<1>1. ~(claim[a].on /\ claim[b].on)
  BY DEF OneClaimPerDisk
<1> HIDE DEF a, b
<1>c. claim \in [Pair -> Claims] /\ claim'[a].on /\ claim'[b].on
  BY DEF Typed, a, b
<1>2. CASE ~claim[a].on /\ claim[b].on
  <2>1. ~ClaimedElsewhere(a)
    BY <1>0, <1>2, <1>c, ClaimChanges
  <2> QED
    BY <1>0, <1>2, <2>1 DEF ClaimedElsewhere, b
<1>3. CASE claim[a].on /\ ~claim[b].on
  <2>1. ~ClaimedElsewhere(b)
    BY <1>0, <1>3, <1>c, ClaimChanges
  <2> QED
    BY <1>0, <1>3, <2>1 DEF ClaimedElsewhere, a
<1>4. CASE ~claim[a].on /\ ~claim[b].on
  <2>1. PICK c \in Cluster : /\ ExecuteActivations(c) /\ p \in spec[c].decl
                             /\ \A r \in spec[c].decl \ {p} : n \notin match[r]
    BY <1>0, <1>4, <1>c, ClaimChanges
  <2>2. PICK d \in Cluster : ExecuteActivations(d) /\ q \in spec[d].decl /\ n \in match[q]
    BY <1>0, <1>4, <1>c, ClaimChanges
  <2>3. c = d
    <3>1. w \in [Cluster -> Workers] /\ w'[c].pc # w[c].pc /\ w'[d].pc # w[d].pc
      <4>1. w \in [Cluster -> Workers]
        BY DEF Typed
      <4>2. \A e \in Cluster : ExecuteActivations(e) => w'[e].pc # w[e].pc
        <5>1. ASSUME NEW e \in Cluster, ExecuteActivations(e) PROVE w'[e].pc # w[e].pc
          <6>1. w[e].pc = "activate" /\ (Stop(e) \/ \E act, wait : w' = [w EXCEPT ![e].pc = "gates", ![e].act = act, ![e].wait = wait])
            BY <5>1 DEF ExecuteActivations
          <6>2. Stop(e) => w'[e].pc = "idle"
            BY <4>1 DEF Stop, IdleWorker
          <6>3. ASSUME NEW act, NEW wait, w' = [w EXCEPT ![e].pc = "gates", ![e].act = act, ![e].wait = wait]
                PROVE  w'[e].pc = "gates"
            BY <4>1, <6>3 DEF Workers
          <6> QED
            BY <6>1, <6>2, <6>3
        <5> QED
          BY <5>1
      <4> QED
        BY <2>1, <2>2, <4>1, <4>2
    <3>2. \A e \in Cluster \ {c} : w'[e] = w[e]
      <4>1. Stop(c) \/ \E act, wait : w' = [w EXCEPT ![c].pc = "gates", ![c].act = act, ![c].wait = wait]
        BY <2>1 DEF ExecuteActivations
      <4> QED
        BY <3>1, <4>1 DEF Stop
    <3> QED
      BY <3>1, <3>2
  <2> QED
    BY <2>1, <2>2, <2>3
<1> QED
  BY <1>1, <1>2, <1>3, <1>4, <1>c DEF Claims

\* The Pods whose gate a pass of the cluster c takes off.
Admitted(c) == {x \in GateCandidates(c) : GateAuthorized(c, x)}

\* A Pod with an open gate had it before the step, or was admitted by it.
LEMMA OpenPods ==
  ASSUME Typed, [Next]_vars, NEW x \in pods', Open(x)
  PROVE  \/ \E y \in pods : Open(y) /\ y.p = x.p /\ y.n = x.n
         \/ \E c \in Cluster : ReleasePodSchedulingGates(c) /\ \E y \in Admitted(c) : x = [y EXCEPT !.st = "free"]
<1>0. pods \subseteq Pods
  BY DEF Typed
<1>1. CASE pods' = pods
  BY <1>1
<1>2. CASE PodStep
  <2>1. CASE DSCreate
    BY <2>1 DEF DSCreate, Open
  <2>2. CASE DeletePod
    <3>1. PICK y \in pods : pods' = (pods \ {y}) \cup IF y.st = "on" THEN {[y EXCEPT !.st = "dying"]} ELSE {}
      BY <2>2 DEF DeletePod
    <3>2. y \in Pods
      BY <1>0
    <3>3. x \in pods \/ (y.st = "on" /\ x = [y EXCEPT !.st = "dying"])
      BY <3>1
    <3> QED
      BY <3>2, <3>3 DEF Open, Pods
  <2>3. CASE Schedule
    <3>1. PICK y \in pods : y.st = "free" /\ pods' = (pods \ {y}) \cup {[y EXCEPT !.st = "on"]}
      BY <2>3 DEF Schedule
    <3>2. y \in Pods
      BY <1>0
    <3> QED
      BY <3>1, <3>2 DEF Open, Pods
  <2>4. CASE Kubelet
    BY <2>4 DEF Kubelet
  <2> QED
    BY <1>2, <2>1, <2>2, <2>3, <2>4 DEF PodStep
<1>3. ASSUME NEW c \in Cluster, ReleasePodSchedulingGates(c), x \notin pods
      PROVE  \E y \in Admitted(c) : x = [y EXCEPT !.st = "free"]
  BY <1>3 DEF ReleasePodSchedulingGates, Admitted
<1>4. ASSUME NEW c \in Cluster, DiskStep(c), ~ReleasePodSchedulingGates(c) PROVE pods' = pods
  BY <1>4 DEF DiskStep, ExecuteActivations, CleanupActivationState, RetireOneMember, DeleteStorageDaemonSet
<1> QED
  BY <1>1, <1>2, <1>3, <1>4, OnlyDiskSteps

\* What an admitted Pod may rely on.
LEMMA AdmittedPods ==
  ASSUME Typed, Ownership, OpenIsClaimed, OneClaimPerDisk, NEW c \in Cluster, NEW x \in Admitted(c)
  PROVE  /\ x \in Pods /\ x \in pods /\ ~Open(x) /\ claim[<<x.p, x.n>>].on /\ Current(x) /\ x.tok = ds[x.p].tok
         /\ \A y \in pods : Open(y) => y.n # x.n
<1>1. x \in Pods /\ x \in pods /\ ~Open(x) /\ claim[<<x.p, x.n>>].on /\ Current(x) /\ x.tok = ds[x.p].tok
  BY DEF Admitted, GateCandidates, GateAuthorized, Open, Typed
<1>2. owner[x.p] = c
  BY DEF Admitted, GateCandidates, Ownership, OwnPairs
<1>3. ASSUME NEW y \in pods, Open(y), y.n = x.n PROVE FALSE
  <2>1. y.p \in Pool /\ x.p \in Pool /\ x.n \in Node
    BY <1>1 DEF Typed, Pods
  <2>2. claim[<<y.p, y.n>>].on
    BY <1>3 DEF OpenIsClaimed
  <2>3. y.p = x.p
    BY <1>1, <1>3, <2>1, <2>2 DEF OneClaimPerDisk
  <2>4. y.st = "gated"
    BY <1>1, <1>2, <1>3, <2>3 DEF Admitted, GateAuthorized, Open
  <2> QED
    BY <1>3, <2>4 DEF Open
<1> QED
  BY <1>1, <1>3

LEMMA NextOpenIsClaimed ==
  ASSUME Typed, Ownership, WorkerKnows, RoleOfMember, OpenIsClaimed, OneClaimPerDisk, [Next]_vars
  PROVE  OpenIsClaimed'
<1> SUFFICES ASSUME NEW x \in pods', Open(x)
             PROVE  claim'[<<x.p, x.n>>].on
  BY DEF OpenIsClaimed, Open
<1> DEFINE pr == <<x.p, x.n>>
<1>0. claim \in [Pair -> Claims] /\ Typed'
  BY NextTyped DEF Typed
<1>1. pr \in Pair /\ claim'[pr].on \in BOOLEAN
  BY <1>0 DEF Typed, Pods, Pair, Claims
<1>2. CASE \E y \in pods : Open(y) /\ y.p = x.p /\ y.n = x.n
  <2>1. claim[pr].on
    BY <1>2 DEF OpenIsClaimed
  <2>2. PICK y \in pods : Targets(pr, y)
    BY <1>2 DEF Targets
  <2> QED
    BY <1>1, <2>1, <2>2, ClaimChanges
<1>3. ASSUME NEW c \in Cluster, ReleasePodSchedulingGates(c), NEW y \in Admitted(c), x = [y EXCEPT !.st = "free"]
      PROVE  claim'[pr].on
  <2>1. y \in Pods /\ claim[<<y.p, y.n>>].on
    BY AdmittedPods
  <2>2. claim' = claim
    BY <1>3 DEF ReleasePodSchedulingGates
  <2> QED
    BY <1>3, <2>1, <2>2 DEF Pods
<1> QED
  BY <1>2, <1>3, OpenPods

LEMMA NextRoleIsClaimed ==
  ASSUME Typed, Ownership, WorkerKnows, RoleOfMember, OpenIsClaimed, RoleIsClaimed, [Next]_vars
  PROVE  RoleIsClaimed'
<1> SUFFICES ASSUME NEW pr \in roles'
             PROVE  claim'[pr].on
  BY DEF RoleIsClaimed
<1>0. Typed' /\ pr \in Pair /\ claim'[pr].on \in BOOLEAN
  BY NextTyped DEF Typed, Claims
<1>1. CASE pr \in roles
  BY <1>0, <1>1, ClaimChanges DEF RoleIsClaimed
<1>2. CASE pr \notin roles
  <2>1. PICK c \in Cluster : Join(c) /\ Running(pr)
    BY <1>2, OnlyMemberSteps DEF MemberStep, MaterializeMembers, PrepareDrain, FinalizeMember, Join,
       DrainDone, DropNodeFinalizer
  <2>2. PICK x \in pods : Targets(pr, x) /\ Open(x)
    BY <2>1 DEF Running, Open
  <2>3. pr = <<x.p, x.n>>
    BY <1>0, <2>2 DEF Targets, Pair
  <2> QED
    BY <2>1, <2>2, <2>3 DEF OpenIsClaimed, Join
<1> QED
  BY <1>1, <1>2

LEMMA NextOneOpenPod ==
  ASSUME Typed, Ownership, OpenIsClaimed, OneClaimPerDisk, OneOpenPod, [Next]_vars
  PROVE  OneOpenPod'
<1>0. pods \subseteq Pods
  BY DEF Typed
<1>1. ASSUME pods' \subseteq pods PROVE OneOpenPod'
  BY <1>1 DEF OneOpenPod, Open
<1>2. ASSUME NEW z \in pods, Open(z), NEW st, pods' = (pods \ {z}) \cup {[z EXCEPT !.st = st]} PROVE OneOpenPod'
  <2>1. z \in Pods /\ [z EXCEPT !.st = st].n = z.n
    BY <1>0 DEF Pods
  <2>2. \A y \in pods \ {z} : Open(y) => y.n # z.n
    BY <1>2 DEF OneOpenPod
  <2> QED
    BY <1>2, <2>1, <2>2 DEF OneOpenPod, Open
<1>3. CASE PodStep
  <2>1. CASE DSCreate
    <3>1. \A x \in pods' : Open(x) => x \in pods
      BY <2>1 DEF DSCreate, Open
    <3> QED
      BY <3>1 DEF OneOpenPod, Open
  <2>2. CASE DeletePod
    <3>1. PICK z \in pods : pods' = (pods \ {z}) \cup IF z.st = "on" THEN {[z EXCEPT !.st = "dying"]} ELSE {}
      BY <2>2 DEF DeletePod
    <3>2. CASE z.st = "on"
      BY <1>2, <3>1, <3>2 DEF Open
    <3>3. CASE z.st # "on"
      BY <1>1, <3>1, <3>3
    <3> QED
      BY <3>2, <3>3
  <2>3. CASE Schedule
    BY <1>2, <2>3 DEF Schedule, Open
  <2>4. CASE Kubelet
    BY <1>1, <2>4 DEF Kubelet
  <2> QED
    BY <1>3, <2>1, <2>2, <2>3, <2>4 DEF PodStep
<1>4. ASSUME NEW c \in Cluster, ReleasePodSchedulingGates(c) PROVE OneOpenPod'
  <2>1. \/ pods' = pods
        \/ pods' = (pods \ Admitted(c)) \cup {[x EXCEPT !.st = "free"] : x \in Admitted(c)}
    BY <1>4 DEF ReleasePodSchedulingGates, Admitted
  <2>2. \A x \in pods' : \/ x \in pods \ Admitted(c)
                         \/ \E u \in Admitted(c) : x = [u EXCEPT !.st = "free"] /\ x.n = u.n
                         \/ pods' = pods
    <3>1. \A u \in Admitted(c) : u \in Pods
      BY AdmittedPods
    <3> QED
      BY <2>1, <3>1 DEF Pods
  <2>3. ASSUME NEW u \in Admitted(c), NEW v \in Admitted(c), u.n = v.n PROVE u = v
    <3>1. /\ u \in Pods /\ claim[<<u.p, u.n>>].on /\ Current(u) /\ u.tok = ds[u.p].tok /\ ~Open(u)
          /\ v \in Pods /\ claim[<<v.p, v.n>>].on /\ Current(v) /\ v.tok = ds[v.p].tok /\ ~Open(v)
      BY AdmittedPods
    <3>2. u.p = v.p
      BY <2>3, <3>1 DEF OneClaimPerDisk, Pods
    <3> QED
      BY <2>3, <3>1, <3>2 DEF Pods, Current, Open
  <2>4. ASSUME NEW u \in Admitted(c), NEW y \in pods \ Admitted(c), Open(y) PROVE y.n # u.n
    BY <2>4, AdmittedPods
  <2>5. \A x, y \in pods \ Admitted(c) : Open(x) /\ Open(y) /\ x.n = y.n => x = y
    BY DEF OneOpenPod
  <2> SUFFICES ASSUME pods' # pods, NEW x \in pods', NEW y \in pods', Open(x), Open(y), x.n = y.n
               PROVE  x = y
    BY <1>1 DEF OneOpenPod, Open
  <2>6. CASE x \in pods \ Admitted(c) /\ y \in pods \ Admitted(c)
    BY <2>5, <2>6
  <2>7. CASE x \in pods \ Admitted(c) /\ \E v \in Admitted(c) : y = [v EXCEPT !.st = "free"] /\ y.n = v.n
    BY <2>4, <2>7
  <2>8. CASE y \in pods \ Admitted(c) /\ \E u \in Admitted(c) : x = [u EXCEPT !.st = "free"] /\ x.n = u.n
    BY <2>4, <2>8
  <2>9. CASE /\ \E u \in Admitted(c) : x = [u EXCEPT !.st = "free"] /\ x.n = u.n
             /\ \E v \in Admitted(c) : y = [v EXCEPT !.st = "free"] /\ y.n = v.n
    BY <2>3, <2>9
  <2> QED
    BY <2>2, <2>6, <2>7, <2>8, <2>9
<1>5. ASSUME NEW c \in Cluster, DiskStep(c), ~ReleasePodSchedulingGates(c) PROVE pods' = pods
  BY <1>5 DEF DiskStep, ExecuteActivations, CleanupActivationState, RetireOneMember, DeleteStorageDaemonSet
<1> QED
  BY <1>1, <1>3, <1>4, <1>5, OnlyDiskSteps

-----------------------------------------------------------------------------
(* What Pods mount.                                                        *)

\* The configuration of a pool exists for as long as its DaemonSet does.
ConfigExists == \A p \in Pool : ds[p].uid # 0 => p \in config

LEMMA NextConfig ==
  ASSUME Typed, Ownership, OpenIsClaimed, OneClaimPerDisk, ConfigExists, MountedConfigExists, [Next]_vars
  PROVE  ConfigExists' /\ MountedConfigExists'
<1>0. ds \in [Pool -> DaemonSets] /\ w \in [Cluster -> Workers] /\ NoDS.uid = 0
  BY DEF Typed, NoDS
<1>1. ConfigExists' /\ \A p \in config : p \notin config' => PoolPods(p) = {} /\ pods' = pods
  <2>1. ASSUME NEW c \in Cluster, PublishWorkloads(c)
        PROVE  ConfigExists' /\ config \subseteq config'
    <3> DEFINE p == Min(Behind(c))
    <3>1. Behind(c) # {} => p \in Pool
      <4>1. Behind(c) \subseteq Pool /\ Pool \subseteq Nat
        BY <1>0, NodeLocalPoolAssumption DEF Behind, Workers
      <4> QED
        BY <4>1, MinIn
    <3>2. \/ ds' = ds /\ config' = config
          \/ Behind(c) # {} /\ (\E r : ds' = [ds EXCEPT ![p] = r]) /\ config' = config \cup {p}
          \/ /\ ds' = [ds EXCEPT ![p].tok = FreshToken, ![p].seen = FALSE] /\ config' = config
             /\ Behind(c) # {}
      BY <2>1, Zenon DEF PublishWorkloads
    <3> HIDE DEF p
    <3>3. CASE ds' = ds /\ config' = config
      BY <3>3 DEF ConfigExists
    <3>4. CASE Behind(c) # {} /\ (\E r : ds' = [ds EXCEPT ![p] = r]) /\ config' = config \cup {p}
      BY <1>0, <3>1, <3>4 DEF ConfigExists
    <3>5. CASE /\ ds' = [ds EXCEPT ![p].tok = FreshToken, ![p].seen = FALSE] /\ config' = config
               /\ Behind(c) # {}
      BY <1>0, <3>1, <3>5 DEF ConfigExists, DaemonSets
    <3> QED
      BY <3>2, <3>3, <3>4, <3>5
  <2>2. ASSUME NEW c \in Cluster, CleanupRetiredResources(c)
        PROVE  ConfigExists' /\ \A p \in config : p \notin config' => PoolPods(p) = {} /\ pods' = pods
    <3>1. pods' = pods
      BY <2>2 DEF CleanupRetiredResources
    <3>2. CASE DeleteRetiredDS(c) # {}
      <4>1. config' = config /\ ds' = [ds EXCEPT ![Min(DeleteRetiredDS(c))] = NoDS]
        BY <2>2, <3>2 DEF CleanupRetiredResources
      <4> QED
        BY <1>0, <4>1 DEF ConfigExists
    <3>3. CASE DeleteRetiredDS(c) = {}
      <4>1. ds' = ds /\ config' = config \ UnmountedConfig(c)
        BY <2>2, <3>3 DEF CleanupRetiredResources
      <4>2. \A p \in UnmountedConfig(c) : PoolPods(p) = {} /\ ds[p].uid = 0
        BY <3>3 DEF UnmountedConfig, DeleteRetiredDS
      <4> QED
        BY <3>1, <4>1, <4>2 DEF ConfigExists
    <3> QED
      BY <3>2, <3>3
  <2>3. ASSUME NEW c \in Cluster, DeleteStorageDaemonSet(c) PROVE ConfigExists' /\ config' = config
    BY <1>0, <2>3 DEF DeleteStorageDaemonSet, ConfigExists
  <2>4. ASSUME NEW p \in Pool, DeleteDaemonSet(p) PROVE ConfigExists' /\ config' = config
    BY <1>0, <2>4 DEF DeleteDaemonSet, ConfigExists
  <2>5. ASSUME config' = config, \A p \in Pool : ds'[p].uid = ds[p].uid PROVE ConfigExists'
    BY <2>5 DEF ConfigExists
  <2> QED
    BY <2>1, <2>2, <2>3, <2>4, <2>5, OnlyWorkloadSteps DEF WorkloadStep
<1>2. ASSUME NEW x \in pods', x.st # "gated" PROVE x.p \in config'
  <2>1. CASE \E y \in pods : Open(y) /\ y.p = x.p /\ y.n = x.n
    <3>1. PICK y \in pods : Open(y) /\ y.p = x.p
      BY <2>1
    <3>2. y.p \in config /\ PoolPods(y.p) # {}
      BY <3>1 DEF MountedConfigExists, Open, PoolPods
    <3> QED
      BY <1>1, <3>1, <3>2
  <2>2. ASSUME NEW c \in Cluster, ReleasePodSchedulingGates(c), NEW y \in Admitted(c), x = [y EXCEPT !.st = "free"]
        PROVE  x.p \in config'
    <3>1. y \in Pods /\ ds[y.p].uid # 0
      BY AdmittedPods DEF Current
    <3>2. config' = config /\ x.p = y.p /\ y.p \in Pool
      BY <2>2, <3>1 DEF ReleasePodSchedulingGates, Pods
    <3> QED
      BY <3>1, <3>2 DEF ConfigExists
  <2> QED
    BY <1>2, <2>1, <2>2, OpenPods DEF Open
<1> QED
  BY <1>1, <1>2 DEF MountedConfigExists

-----------------------------------------------------------------------------
(* How many roles a drain leaves.                                          *)

\* The member a cluster is about to drain or drains.
Departing(c) == IF w[c].pc = "drain" THEN w[c].cand ELSE drain[c]

\* Without it, at least Factor storage roles remain: they were counted when it was chosen, and until it has gone
\* no other role of the cluster goes.
EnoughRemain == \A c \in Cluster : ~spec[c].del /\ Departing(c) # {} =>
  others + Cardinality(RolesOf(c) \ Departing(c)) >= Factor

\* Sets of roles are finite.
LEMMA RolesAreFinite ==
  ASSUME NEW S \in SUBSET Pair
  PROVE  /\ IsFiniteSet(S) /\ Cardinality(S) \in Nat
         /\ \A T \in SUBSET S : IsFiniteSet(T) /\ Cardinality(T) \in Nat /\ Cardinality(T) <= Cardinality(S)
<1>1. IsFiniteSet(Pair)
  BY NodeLocalPoolAssumption, FS_Product DEF Pair
<1>2. IsFiniteSet(S)
  BY <1>1, FS_Subset
<1>3. \A T \in SUBSET S : IsFiniteSet(T) /\ Cardinality(T) <= Cardinality(S)
  BY <1>2, FS_Subset
<1> QED
  BY <1>2, <1>3, FS_CardinalityType

\* The roles of a cluster grow, shrink by a drain, or are those of a cluster that is deleted.
LEMMA RoleChanges ==
  ASSUME Typed, Ownership, [Next]_vars, NEW d \in Cluster
  PROVE  \/ RolesOf(d) \subseteq RolesOf(d)'
         \/ DrainDone(d) /\ RolesOf(d)' = RolesOf(d) \ drain[d]
         \/ spec[d].del
<1>0. scene' = scene /\ roles \subseteq Pair
  BY SceneIsFixed DEF Typed
<1>1. CASE UNCHANGED <<gn, roles, drain>>
  BY <1>0, <1>1 DEF RolesOf, owner
<1>2. ASSUME NEW c \in Cluster, MaterializeMembers(c) \/ PrepareDrain(c) \/ DropNodeFinalizer(c)
      PROVE  RolesOf(d) \subseteq RolesOf(d)'
  BY <1>0, <1>2 DEF MaterializeMembers, PrepareDrain, DropNodeFinalizer, RolesOf, owner
<1>3. ASSUME NEW c \in Cluster, Join(c) PROVE RolesOf(d) \subseteq RolesOf(d)'
  BY <1>0, <1>3 DEF Join, RolesOf, owner
<1>4. ASSUME NEW c \in Cluster, FinalizeMember(c) PROVE RolesOf(d) \subseteq RolesOf(d)' \/ spec[d].del
  BY <1>0, <1>4 DEF FinalizeMember, Members, RolesOf, owner
<1>5. ASSUME NEW c \in Cluster, DrainDone(c), c # d PROVE RolesOf(d) \subseteq RolesOf(d)'
  <2>1. drain[c] \subseteq OwnPairs(c)
    BY DEF Ownership
  <2> QED
    BY <1>0, <1>5, <2>1 DEF DrainDone, RolesOf, OwnPairs, owner
<1>6. ASSUME DrainDone(d) PROVE RolesOf(d)' = RolesOf(d) \ drain[d]
  BY <1>0, <1>6 DEF DrainDone, RolesOf, owner
<1> QED
  BY <1>1, <1>2, <1>3, <1>4, <1>5, <1>6, OnlyMemberSteps DEF MemberStep

\* Who departs stays who it is until it has gone; a new one is chosen by retireOneMember only.
LEMMA DepartureChanges ==
  ASSUME Typed, Ownership, WorkerKnows, [Next]_vars, NEW d \in Cluster, Departing(d)' # {}
  PROVE  \/ Departing(d)' = Departing(d)
         \/ /\ RetireOneMember(d) /\ roles' = roles /\ gn' = gn
            /\ \E pr \in OwnPairs(d) : Departing(d)' = {pr} /\ MayRetire(d, pr)
<1>0. w \in [Cluster -> Workers] /\ drain \in [Cluster -> SUBSET Pair]
  BY DEF Typed
<1>1. CASE PrepareDrain(d)
  <2>1. drain'[d] = w[d].cand /\ w[d].pc = "drain" /\ w'[d].pc = "idle"
    BY <1>0, <1>1 DEF PrepareDrain, Stop, IdleWorker
  <2> QED
    BY <2>1 DEF Departing
<1>2. CASE ~PrepareDrain(d)
  <2>1. drain'[d] \in {drain[d], {}}
    <3>1. ASSUME NEW c \in Cluster, MemberStep(c), ~PrepareDrain(c) PROVE drain'[d] \in {drain[d], {}}
      BY <1>0, <3>1 DEF MemberStep, MaterializeMembers, FinalizeMember, Join, DrainDone, DropNodeFinalizer
    <3>2. ASSUME NEW c \in Cluster, PrepareDrain(c), c # d PROVE drain'[d] = drain[d]
      BY <1>0, <3>2 DEF PrepareDrain
    <3> QED
      BY <1>2, <3>1, <3>2, OnlyMemberSteps
  <2>2. CASE w'[d].pc # "drain"
    <3>1. drain'[d] = drain[d] /\ drain[d] # {}
      BY <2>1, <2>2 DEF Departing
    <3>2. w[d].pc # "drain"
      BY <3>1 DEF WorkerKnows
    <3> QED
      BY <2>2, <3>1, <3>2 DEF Departing
  <2>3. CASE w'[d].pc = "drain"
    <3>1. w'[d] = w[d] \/ RetireOneMember(d)
      <4>1. ~Preflight(d)
        BY <1>0, <2>3 DEF Preflight, IdleWorker
      <4>2. ~MaterializeMembers(d)
        BY <1>0, <2>3 DEF MaterializeMembers, Workers
      <4>3. w'[d] # IdleWorker
        BY <2>3 DEF IdleWorker
      <4> QED
        BY <2>3, <4>1, <4>2, <4>3, WorkerStepForm DEF WorkerStep
    <3>2. CASE w'[d] = w[d]
      BY <2>3, <3>2 DEF Departing
    <3>3. CASE RetireOneMember(d)
      <4> DEFINE pr == First(Stale(d))
      <4>1. \/ w' = [w EXCEPT ![d].pc = "cleanup", ![d].fin = TRUE]
            \/ w' = [w EXCEPT ![d] = IdleWorker]
            \/ w' = [w EXCEPT ![d].pc = "drain", ![d].cand = {pr}] /\ Stale(d) # {} /\ MayRetire(d, pr)
        BY <3>3, Zenon DEF RetireOneMember, Stop
      <4>2. w' = [w EXCEPT ![d].pc = "drain", ![d].cand = {pr}] /\ Stale(d) # {} /\ MayRetire(d, pr)
        <5> HIDE DEF pr
        <5> QED
          BY <1>0, <2>3, <4>1 DEF Workers, IdleWorker
      <4>3. pr \in OwnPairs(d)
        <5>1. Stale(d) \in SUBSET OwnPairs(d)
          BY DEF Stale, Ownership
        <5>2. Stale(d) \in SUBSET Pair
          BY <5>1 DEF OwnPairs
        <5> QED
          BY <4>2, <5>1, <5>2, FirstIn
      <4> HIDE DEF pr
      <4>4. Departing(d)' = {pr}
        BY <1>0, <4>2 DEF Workers, Departing
      <4> QED
        BY <3>3, <4>2, <4>3, <4>4 DEF RetireOneMember
    <3> QED
      BY <3>1, <3>2, <3>3
  <2> QED
    BY <2>2, <2>3
<1> QED
  BY <1>1, <1>2

LEMMA NextEnoughRemain ==
  ASSUME Typed, Ownership, WorkerKnows, RoleOfMember, DrainOfMember, EnoughRemain, [Next]_vars
  PROVE  EnoughRemain'
<1>0. /\ scene' = scene /\ (\A d \in Cluster : spec[d].del => spec'[d].del) /\ roles \subseteq Pair
      /\ Typed' /\ others \in Nat /\ others' = others /\ Factor \in Nat
  BY SceneIsFixed, SceneTypes, NextTyped, NodeLocalPoolAssumption DEF Typed, others
<1> SUFFICES ASSUME NEW d \in Cluster, ~spec'[d].del, Departing(d)' # {}
             PROVE  others + Cardinality(RolesOf(d)' \ Departing(d)') >= Factor
  BY <1>0 DEF EnoughRemain
<1>1. ~spec[d].del
  BY <1>0
<1>a. RolesOf(d) \in SUBSET Pair /\ RolesOf(d)' \in SUBSET Pair
  BY <1>0 DEF RolesOf, Typed
<1>2. CASE Departing(d)' = Departing(d)
  <2>1. RolesOf(d) \ Departing(d) \subseteq RolesOf(d)' \ Departing(d)'
    <3>1. CASE RolesOf(d) \subseteq RolesOf(d)'
      BY <1>2, <3>1
    <3>2. CASE DrainDone(d) /\ RolesOf(d)' = RolesOf(d) \ drain[d]
      <4>1. drain[d] # {}
        BY <3>2 DEF DrainDone
      <4>2. Departing(d) = drain[d]
        BY <4>1 DEF WorkerKnows, Departing
      <4> QED
        BY <1>2, <3>2, <4>2
    <3> QED
      BY <1>1, <3>1, <3>2, RoleChanges
  <2>2. others + Cardinality(RolesOf(d) \ Departing(d)) >= Factor
    BY <1>1, <1>2 DEF EnoughRemain
  <2> DEFINE before == RolesOf(d) \ Departing(d)
             after == RolesOf(d)' \ Departing(d)'
  <2>3. after \in SUBSET Pair /\ before \in SUBSET after
    BY <1>a, <2>1
  <2> HIDE DEF before, after
  <2>4. Cardinality(before) \in Nat /\ Cardinality(after) \in Nat /\ Cardinality(before) <= Cardinality(after)
    BY <2>3, RolesAreFinite
  <2>5. others + Cardinality(before) >= Factor
    BY <2>2 DEF before
  <2>6. others + Cardinality(after) >= Factor
    BY <1>0, <2>4, <2>5
  <2> QED
    BY <2>6 DEF after
<1>3. ASSUME roles' = roles, NEW pr \in OwnPairs(d), Departing(d)' = {pr}, MayRetire(d, pr)
      PROVE  others + Cardinality(RolesOf(d)' \ Departing(d)') >= Factor
  <2> DEFINE counted == {a \in Members(d) \ {pr} : Ready(a)}
             after == RolesOf(d) \ {pr}
  <2>1. counted \in SUBSET after /\ after \in SUBSET Pair
    BY <1>0 DEF Members, Ready, RoleOfMember, RolesOf
  <2>2. others + Cardinality(counted) >= Factor
    BY <1>3 DEF MayRetire, EnoughSurvive, CountSurviving
  <2>3. RolesOf(d)' \ Departing(d)' = after
    BY <1>0, <1>3 DEF RolesOf, owner
  <2> HIDE DEF counted, after
  <2>4. Cardinality(counted) \in Nat /\ Cardinality(after) \in Nat /\ Cardinality(counted) <= Cardinality(after)
    BY <2>1, RolesAreFinite
  <2>5. others + Cardinality(after) >= Factor
    BY <1>0, <2>2, <2>4
  <2> QED
    BY <2>3, <2>5
<1> QED
  BY <1>2, <1>3, DepartureChanges

-----------------------------------------------------------------------------
(* The inductive invariant and what follows from it.                       *)

IndInv ==
  /\ Typed /\ Ownership /\ WorkerKnows
  /\ RoleOfMember /\ DrainOfMember
  /\ OneClaimPerDisk /\ OpenIsClaimed /\ RoleIsClaimed /\ OneOpenPod
  /\ ConfigExists /\ MountedConfigExists
  /\ EnoughRemain

LEMMA InitIndInv == Init => IndInv
<1> SUFFICES ASSUME Init PROVE IndInv
  OBVIOUS
<1>0. scene \in Scenes
  BY DEF Init
<1>a. owner \in [Pool -> Cluster] /\ scene.match \in [Pool -> SUBSET Node]
  BY <1>0, SceneTypes
<1>b. IdleWorker \in Workers /\ IdleWorker.pc = "idle" /\ IdleWorker.want = {} /\ IdleWorker.have = {}
  BY NodeLocalPoolAssumption DEF IdleWorker, Workers, Points
<1>c. NoClaim \in Claims /\ NoClaim.on = FALSE /\ NoDS \in DaemonSets /\ NoDS.uid = 0 /\ None \in Token
  BY NodeLocalPoolAssumption DEF NoClaim, Claims, NoDS, DaemonSets, Fence, None, Token
<1>d. spec = [c \in Cluster |-> [gen |-> 1, decl |-> {p \in scene.decl : scene.owner[p] = c}, del |-> FALSE]]
      /\ match = scene.match
  BY DEF Init
<1>1. Typed
  <2>1. spec \in [Cluster -> Specs]
    BY <1>0, <1>d, SceneTypes DEF Specs
  <2> QED
    BY <1>0, <1>a, <1>b, <1>c, <1>d, <2>1 DEF Init, Typed
<1>2. Ownership
  <2>1. \A c \in Cluster : spec[c].decl \subseteq Mine(c)
    BY <1>0, <1>d, SceneTypes DEF Mine, owner
  <2> QED
    BY <1>b, <2>1 DEF Init, Ownership
<1>3. WorkerKnows
  BY <1>b DEF Init, WorkerKnows
<1>4. RoleOfMember /\ DrainOfMember
  BY DEF Init, RoleOfMember, DrainOfMember
<1>5. OneClaimPerDisk /\ OpenIsClaimed /\ RoleIsClaimed /\ OneOpenPod /\ MountedConfigExists
  BY <1>c DEF Init, OneClaimPerDisk, OpenIsClaimed, RoleIsClaimed, OneOpenPod, MountedConfigExists, Pair
<1>6. ConfigExists
  BY <1>c DEF Init, ConfigExists
<1>7. EnoughRemain
  BY <1>b DEF Init, EnoughRemain, Departing
<1> QED
  BY <1>1, <1>2, <1>3, <1>4, <1>5, <1>6, <1>7 DEF IndInv

LEMMA NextIndInv == IndInv /\ [Next]_vars => IndInv'
BY NextTyped, NextOwnership, NextWorkerKnows, NextMembers, NextOneClaim, NextOpenIsClaimed, NextRoleIsClaimed,
   NextOneOpenPod, NextConfig, NextEnoughRemain DEF IndInv

LEMMA IndInvHolds == Spec => []IndInv
<1>1. IndInv /\ [Next]_vars => IndInv'
  BY NextIndInv
<1> QED
  BY <1>1, InitIndInv, PTL DEF Spec

\* In every reachable state a Node's disk has one claim, one process at a time, and a claim for as long as a Pod
\* or a role uses it (nodeLocalPoolHostPathConflicts, the scheduling gates, the cleanup).
THEOREM DisksHaveOneOwner == Spec => []DiskHasOneOwner
<1>1. IndInv => DiskHasOneOwner
  <2> SUFFICES ASSUME IndInv PROVE DiskHasOneOwner
    OBVIOUS
  <2>1. TypeOK
    <3>1. \A c \in Cluster : spec[c].decl \subseteq Mine(c)
      BY DEF IndInv, Ownership
    <3>2. ASSUME NEW c \in Cluster PROVE Cardinality(drain[c]) <= 1
      <4>1. drain[c] = {} \/ \E pr \in Pair : drain[c] = {pr}
        BY DEF IndInv, DrainOfMember
      <4> QED
        BY <4>1, FS_EmptySet, FS_Singleton
    <3> QED
      BY <3>1, <3>2 DEF IndInv, Typed, DaemonSets, Pods, PodStates, TypeOK
  <2>2. OneProcessPerDisk
    BY DEF IndInv, OneOpenPod, OneProcessPerDisk, Mounted, Open
  <2>3. DiskIsClaimed
    BY DEF IndInv, OpenIsClaimed, RoleIsClaimed, DiskIsClaimed, Mounted, Open
  <2> QED
    BY <2>1, <2>2, <2>3 DEF IndInv, DiskHasOneOwner
<1> QED
  BY <1>1, IndInvHolds, PTL

\* The configuration a Pod past its gate mounts exists: it goes after the last Pod of the retired DaemonSet
\* (cleanupRetiredNodeLocalPoolResources).
THEOREM MountedConfigsExist == Spec => []MountedConfigExists
<1>1. IndInv => MountedConfigExists
  BY DEF IndInv
<1> QED
  BY <1>1, IndInvHolds, PTL

\* A retirement leaves at least the replication factor of storage roles, and a retiring claim is never revived
\* (countSurvivingStorageNodes, ensureNodeLocalPoolActivation).
THEOREM RetirementsAreSafe == Spec => RetirementIsSafe
<1>1. ASSUME IndInv, [Next]_vars, NEW c \in Cluster, ~spec[c].del,
             {pr \in roles' : owner[pr[1]] = c} # RolesOf(c),
             {pr \in roles' : owner[pr[1]] = c} \subseteq RolesOf(c)
      PROVE  others + Cardinality({pr \in roles' : owner[pr[1]] = c}) >= Factor
  <2>1. RolesOf(c)' = {pr \in roles' : owner[pr[1]] = c}
    BY <1>1, SceneIsFixed DEF IndInv, RolesOf, owner
  <2>2. DrainDone(c) /\ RolesOf(c)' = RolesOf(c) \ drain[c]
    BY <1>1, <2>1, RoleChanges DEF IndInv
  <2>3. Departing(c) = drain[c] /\ drain[c] # {}
    BY <1>1, <2>2 DEF IndInv, WorkerKnows, Departing, DrainDone
  <2> QED
    BY <1>1, <2>1, <2>2, <2>3 DEF IndInv, EnoughRemain
<1>2. ASSUME IndInv, [Next]_vars, NEW pr \in Pair, claim[pr].ret, claim'[pr].on PROVE claim'[pr].ret
  <2>0. claim \in [Pair -> Claims]
    BY <1>2 DEF IndInv, Typed
  <2>1. ASSUME NEW c \in Cluster, ExecuteActivations(c) PROVE claim'[pr].ret
    <3>1. \E S, pinned : EnsureActivation({a \in S : Activatable(c, a)}, pinned)
      BY <2>1, Zenon DEF ExecuteActivations
    <3>2. PICK S, pinned : EnsureActivation({a \in S : Activatable(c, a)}, pinned)
      BY <3>1
    <3>3. claim'[pr] = claim[pr]
      BY <1>2, <3>2 DEF EnsureActivation, Activatable
    <3> QED
      BY <1>2, <3>3
  <2>2. ASSUME NEW c \in Cluster, CleanupActivationState(c) PROVE claim'[pr].ret
    BY <1>2, <2>0, <2>2 DEF CleanupActivationState, MarkRetiring, NoClaim, Claims
  <2>3. ASSUME NEW c \in Cluster, RetireOneMember(c) PROVE claim'[pr].ret
    <3>1. claim' = claim \/ claim' = [claim EXCEPT ![First(Stale(c))].ret = TRUE]
      BY <2>3, Zenon DEF RetireOneMember
    <3> QED
      BY <1>2, <2>0, <3>1 DEF Claims
  <2>4. ASSUME NEW c \in Cluster, DeleteStorageDaemonSet(c) PROVE claim'[pr].ret
    BY <1>2, <2>0, <2>4 DEF DeleteStorageDaemonSet, NoClaim
  <2>5. claim' = claim => claim'[pr].ret
    BY <1>2
  <2>6. PodStep \/ (\E c \in Cluster : ReleasePodSchedulingGates(c)) => claim' = claim
    BY DEF PodStep, DSCreate, DeletePod, Schedule, Kubelet, ReleasePodSchedulingGates
  <2> QED
    BY <1>2, <2>1, <2>2, <2>3, <2>4, <2>5, <2>6, OnlyDiskSteps DEF DiskStep
<1>3. IndInv /\ [Next]_vars => [\A c \in Cluster : LET after == {pr \in roles' : owner[pr[1]] = c} IN
        ~spec[c].del /\ after # RolesOf(c) /\ after \subseteq RolesOf(c)
          => others + Cardinality(after) >= Factor]_vars
  BY <1>1
<1>4. IndInv /\ [Next]_vars => [\A pr \in Pair : claim[pr].ret /\ claim'[pr].on => claim'[pr].ret]_vars
  BY <1>2
<1> QED
  BY <1>3, <1>4, IndInvHolds, PTL DEF Spec, RetirementIsSafe, RolesSuffice, RetirementIsOneWay
=============================================================================
