--------------------------- MODULE ReferenceGrant ---------------------------
(***************************************************************************)
(* The GarageReferenceGrant controller: who uses a grant.  A change of a   *)
(* GarageKey or a GarageBucket queues the grants of the namespaces its old *)
(* or its new spec refers to.                                              *)
(***************************************************************************)
EXTENDS TenantState

(* findUsers *)
UsedBy(namespace) ==
  IF namespace = "c"
  THEN key.uid # 0 /\ \/ GrantPermits(grants.to["c"], "GarageCluster")
                      \/ key.bp.on /\ GrantPermits(grants.to["c"], "GarageBucket")
  ELSE bucket.uid # 0 /\ bucket.kp.on /\ GrantPermits(grants.to["k"], "GarageKey")

ReconcileGrant ==
  /\ \E n \in grants.queue :
       grants' = [grants EXCEPT !.queue = @ \ {n},
                    !.inUse[n] = UsedBy(n)]
  /\ UNCHANGED <<focus, cluster, bucket, key, secrets, source, snapshot, remote, bw, kw, token,
                 edits, faults>>
=============================================================================
