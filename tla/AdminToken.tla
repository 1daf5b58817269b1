----------------------------- MODULE AdminToken -----------------------------
(***************************************************************************)
(* The GarageAdminToken controller: static bootstrap material for the      *)
(* cluster's Admin API, generated once into an immutable Secret that the   *)
(* GarageCluster must refer to; its digest is pinned in the status.  The   *)
(* bearer is a number; lost holds the bearers no Secret carries: those     *)
(* deleted with their Secret and those whose Secret was never created.     *)
(***************************************************************************)
EXTENDS TenantState

NoToken == [uid |-> 0, del |-> FALSE, fin |-> FALSE, ver |-> 0, digest |-> 0, phase |-> "",
            sec |-> [by |-> 0, val |-> 0], lost |-> {}, consumed |-> FALSE,
            next |-> 1, pc |-> "idle", read |-> 0, new |-> 0]

TFrame == UNCHANGED <<focus, cluster, bucket, key, secrets, source, snapshot, grants, remote, bw,
                      kw, edits, faults>>
TStop(t) == token' = [t EXCEPT !.pc = "idle", !.read = 0, !.new = 0]

(* Deletion comes before the cluster is looked up, and is refused while    *)
(* the cluster consumes the Secret.                                        *)
StartToken ==
  /\ token.pc = "idle" /\ token.uid # 0
  /\ \/ /\ token.del /\ token.fin /\ (cluster.state = "gone" \/ ~token.consumed)
        /\ token' = [token EXCEPT !.pc = "finalize"]
     \/ /\ ~token.del /\ cluster.state = "gone" /\ token' = [token EXCEPT !.phase = "Pending"]
     \/ /\ ~token.del /\ cluster.state # "gone"
        /\ token' = IF token.fin THEN [token EXCEPT !.pc = "secret", !.read = token.ver]
                    ELSE [token EXCEPT !.fin = TRUE]
  /\ TFrame

\* Mutant: every reconcile generates a bearer.
RegenerateTokenSecret ==
  /\ token.pc = "secret" /\ token.next <= MaxUID + 1
  /\ token' = [token EXCEPT !.sec = [by |-> token.uid, val |-> token.next],
                 !.next = @ + 1, !.pc = "status", !.new = token.next]
  /\ TFrame

(* reconcileSecret: an existing Secret must be this object's and carry the *)
(* pinned bearer; a missing one is generated, whatever is pinned.          *)
ReconcileTokenSecret ==
  /\ token.pc = "secret"
  /\ LET sec == token.sec IN
     \/ /\ ~token.consumed \/ sec.by \notin {0, token.uid}
           \/ (sec.by = token.uid /\ token.digest \notin {0, sec.val})
        /\ TStop([token EXCEPT !.phase = "Failed"])
     \/ /\ token.consumed /\ sec.by = token.uid /\ token.digest \in {0, sec.val}
        /\ token' = [token EXCEPT !.pc = "status", !.new = sec.val]
     \/ /\ token.consumed /\ sec.by = 0 /\ token.next <= MaxUID + 1
        /\ token' = [token EXCEPT !.sec = [by |-> token.uid, val |-> token.next],
                       !.next = @ + 1, !.pc = "status", !.new = token.next]
  /\ TFrame

(* updateStatus does not retry: a conflict loses the digest.               *)
PublishTokenStatus ==
  /\ token.pc = "status"
  /\ TStop(IF token.read = token.ver THEN [token EXCEPT !.phase = "Ready", !.digest = token.new]
           ELSE token)
  /\ TFrame

FinalizeToken ==
  /\ token.pc = "finalize"
  /\ IF token.sec.by \in {0, token.uid}
     THEN token' = [token EXCEPT !.sec = [by |-> 0, val |-> 0], !.pc = "drop"]
     ELSE TStop(token)
  /\ TFrame

DropTokenFinalizer ==
  /\ token.pc = "drop"
  /\ token' = [NoToken EXCEPT !.sec = token.sec, !.consumed = token.consumed, !.next = token.next]
  /\ TFrame

(* The digest is in memory before the Secret is created: when Create       *)
(* fails, the status that reports it pins a bearer nobody has.             *)
FailTokenCreate ==
  /\ token.pc = "secret" /\ token.consumed /\ token.sec.by = 0 /\ token.next <= MaxUID + 1
  /\ TStop([token EXCEPT !.phase = "Failed", !.next = @ + 1, !.lost = @ \cup {token.next},
              !.digest = IF token.read = token.ver THEN token.next ELSE @])

TokenFault ==
  /\ token.pc # "idle" /\ Fault
  /\ TStop(token) \/ FailTokenCreate
  /\ UNCHANGED <<focus, cluster, bucket, key, secrets, source, snapshot, grants, remote, bw, kw, edits>>

TokenNext == StartToken \/ ReconcileTokenSecret \/ PublishTokenStatus \/ FinalizeToken
             \/ DropTokenFinalizer
=============================================================================
