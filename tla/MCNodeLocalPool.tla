-------------------------- MODULE MCNodeLocalPool --------------------------
(* Instances of NodeLocalPool for TLC: two clusters, two pools, two Nodes.  *)
EXTENDS NodeLocalPool
OneCluster == [p \in Pool |-> "a"]
TwoClusters == [p \in Pool |-> IF p = 1 THEN "a" ELSE "b"]
Scene(o, d, m, r, k, e, f) ==
  [owner |-> o, decl |-> d, match |-> m, others |-> r, kinds |-> k, edits |-> e, faults |-> f]
AllKinds == {"selector", "relabel", "declare", "workload", "delete"}
\* One pool whose selector, or whose Nodes' labels, change twice; two pools and every edit once;
\* a pool and its DaemonSet that go and come back; two clusters that declare one Node in turn.
MCScenes ==
  {Scene(OneCluster, {1}, <<{1}, {}>>, 0, {"selector"}, 2, 0),
   Scene(OneCluster, {1}, <<{1}, {}>>, 0, {"relabel"}, 2, 1),
   Scene(OneCluster, {1, 2}, <<{1}, {2}>>, 1, AllKinds, 1, 1),
   Scene(OneCluster, {1}, <<{1}, {}>>, 0, {"workload", "declare"}, 2, 0),
   Scene(TwoClusters, {1}, <<{1}, {1}>>, 1, {"declare", "delete"}, 2, 0)}
RelabelScene == {Scene(OneCluster, {1}, <<{1, 2}>>, 0, {"relabel"}, 2, 0)}

\* The state such a pool reaches when every selected Node has joined and its reconcile rests.
Joined == {pr \in Pair : pr[2] \in scene.match[pr[1]]}
SteadyInit ==
  /\ scene \in RelabelScene /\ match = scene.match
  /\ spec = [c \in Cluster |-> [gen |-> 1, decl |-> scene.decl, del |-> FALSE]]
  /\ label = [pr \in Pair |-> IF pr \in Joined THEN 1 ELSE None]
  /\ claim = [pr \in Pair |-> IF pr \in Joined THEN [on |-> TRUE, ret |-> FALSE, id |-> TRUE] ELSE NoClaim]
  /\ ds = [p \in Pool |-> [uid |-> 1, tok |-> 1, fence |-> {}, seen |-> TRUE]]
  /\ pods = {[p |-> pr[1], n |-> pr[2], uid |-> 1, tok |-> 1, st |-> "on"] : pr \in Joined} /\ late = {}
  /\ gn = [pr \in Pair |-> IF pr \in Joined THEN "ready" ELSE "none"] /\ roles = Joined
  /\ settled = [c \in Cluster |-> TRUE] /\ drain = [c \in Cluster |-> {}] /\ cond = [c \in Cluster |-> "True"]
  /\ w = [c \in Cluster |-> IdleWorker] /\ config = Pool /\ spent = [edits |-> 0, faults |-> 0]
SteadySpec ==
  /\ SteadyInit /\ [][Next]_vars /\ WF_vars(Kubernetes)
  /\ \A c \in Cluster : WF_vars(Reconcile(c)) /\ WF_vars(NodeController(c))
=============================================================================
