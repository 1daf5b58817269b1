-------------------------- MODULE MCStorageRollout --------------------------
(* Instances of StorageRollout for TLC: two members.                        *)
EXTENDS StorageRollout, TLC
Zero == [k \in Budget |-> 0]
Scene(p, bad, wipe, f, n, b) == [pool |-> p, bad |-> bad, wipe |-> wipe, frail |-> f, max |-> n, b |-> b @@ Zero]
Bad(c) == {[c |-> c, n |-> n, e |-> e] : n \in 0..3, e \in 0..1}
\* A DaemonSet with two Nodes whose second revision does not start; two StatefulSets; both kinds
\* of workload; StatefulSets whose claims are deleted with them and GarageNodes that go.
MCScenes ==
  {Scene({1, 2}, Bad(2), FALSE, 0..2, 3, [spec |-> 2, wl |-> 1, crash |-> 1]),
   Scene({1, 2}, {}, FALSE, 0..2, 2, [spec |-> 1, pod |-> 1, nonce |-> 1, wl |-> 1]),
   Scene({}, Bad(2), FALSE, 0..2, 3, [spec |-> 2, crash |-> 1, wl |-> 1, pvc |-> 1]),
   Scene({1}, {}, FALSE, 0..2, 3, [spec |-> 1, node |-> 1, pod |-> 1, crash |-> 1]),
   Scene({}, {}, FALSE, {1}, 3, [ext |-> 1, wl |-> 2]),
   Scene({}, {}, FALSE, 0..2, 2, [ext |-> 1, nonce |-> 1, pod |-> 1, wl |-> 1]),
   Scene({}, {}, TRUE, 0..2, 3, [node |-> 2, wl |-> 1, del |-> 1, pvc |-> 1])}
\* A pool of two and two edits of the spec.
EditScene == {Scene({1, 2}, {}, FALSE, 0..2, 2, [spec |-> 2])}
=============================================================================
