----------------------------- MODULE CosiAccess -----------------------------
(***************************************************************************)
(* The COSI driver's BucketAccess controller.  An access is granted        *)
(* through a shadow GarageKey: its key ID is chosen and written to the     *)
(* shadow's status before a reservation Secret holds the key material and  *)
(* before the key is imported into Garage.  A new shadow is named after    *)
(* the access's UID; releases before v0.7.4 named it after the access, so  *)
(* that two accesses of the same name in different namespaces shared one   *)
(* key.  ResolveBucketAccessIdentity decides who owns such a key.          *)
(*                                                                         *)
(* There are two accesses of the same name, 1 and 2, numbered in the order *)
(* of their UIDs.  Shadow a is the one of access a, shadow Name the legacy *)
(* one.  Key 1 is the legacy key; the others are drawn at random.          *)
(***************************************************************************)
EXTENDS CosiBucket

CONSTANT MaxKeys   \* bound: the key IDs that can be drawn
ASSUME CosiAccessAssumption == MaxKeys \in Nat \ {0}

VARIABLES
  access,   \* the BucketAccesses
  keys,     \* the shadow GarageKeys
  rsv,      \* their reservation Secrets: the key ID the material is for
  secret,   \* the access Secrets: who controls it and which key it holds
  accounts, \* the keys in Garage and what they may do with the bucket
  aw        \* the reconcile of the BucketAccess controller

cosiAccessVars == <<access, keys, rsv, secret, accounts, aw>>
vars == <<cosiBucketVars, cosiAccessVars>>

Access == {1, 2}
Name == 3
Identity == Access \cup {Name}
Legacy == 1
KeyId == 1..(MaxKeys + 1)
Want == {"read"}                     \* mapAccessModeForGarage: the access is ReadOnly
AllPerms == {"read", "write"}

NoAccess == [st |-> "none", fin |-> FALSE, id |-> 0, ready |-> FALSE, handed |-> FALSE,
             ok |-> TRUE]                    \* the class parameters parse
NoShadowKey == [uid |-> 0, del |-> FALSE, fin |-> FALSE, state |-> "Pending", ann |-> 0, id |-> 0,
                label |-> FALSE, owner |-> 0]
ShadowKey(uid) == [NoShadowKey EXCEPT !.uid = uid, !.fin = TRUE]
IdleAccess == [pc |-> "idle", a |-> 1, who |-> 1, known |-> 0, sh |-> NoShadowKey, id |-> 0,
               absent |-> FALSE, del |-> FALSE]

Lowest(S) == CHOOSE x \in S : \A y \in S : x <= y
LiveKey(k) == k # 0 /\ accounts.key[k] = "live"
DropKey(acs, k) == [acs EXCEPT !.key[k] = IF @ = "live" THEN "tombstone" ELSE @, !.perm[k] = {}]
(* A UID or a key ID that nothing refers to any more is as good as new.    *)
FreshUID == Lowest((1..4) \ {keys[i].uid : i \in Identity})
Unused == {k \in KeyId \ {Legacy} : accounts.key[k] = "free" /\ \A i \in Identity : k \notin {keys[i].ann, keys[i].id, rsv[i]}}
FreshKey == Lowest(Unused)

AccessRest == UNCHANGED cosiBucketVars
StepAccess(pc) == aw.pc = pc /\ AccessRest
AGoTo(pc) == aw' = [aw EXCEPT !.pc = pc]
ADone == aw' = IdleAccess

(* fail writes ReadyToUse=false unless the access changed since.           *)
AUnpublish ==
  access' = IF (access[aw.a].st = "del") # aw.del THEN access ELSE [access EXCEPT ![aw.a].ready = FALSE]
FailAccess == AUnpublish /\ ADone /\ UNCHANGED <<keys, rsv, secret, accounts>>

-----------------------------------------------------------------------------
(* ResolveBucketAccessIdentity.                                            *)

Ids(sh) == {sh.ann, sh.id} \ {0}                     \* shadowKeyAccountIDs
Exists(a) == access[a].st \in {"live", "del"}
Resolved(who, owns, shared, dup) == [who |-> who, owns |-> owns, shared |-> shared, dup |-> dup, win |-> 0]

(* A bound legacy shadow belongs to one of the accesses that record its    *)
(* key: among the live ones to the recorded or else the first, and when    *)
(* all are being deleted to the first whose cleanup is not finished.       *)
\* Mutant: an access that is being deleted owns the legacy key at once.
FirstDeletedOwns(a, dup) == Resolved(Name, TRUE, FALSE, dup)
LegacyOwner(a, dup) ==
  LET sharers == {b \in Access : Exists(b) /\ access[b].id = access[a].id}
      live    == {b \in sharers : access[b].st = "live"}
      pending == {b \in sharers : ~access[b].handed} IN
  IF access[a].st = "del"
  THEN IF live = {} /\ pending # {} /\ Lowest(pending) = a
       THEN Resolved(Name, TRUE, FALSE, dup) ELSE Resolved(a, FALSE, TRUE, dup)
  ELSE LET owner == IF keys[Name].owner \in live THEN keys[Name].owner ELSE Lowest(live) IN
       Resolved(IF a = owner THEN Name ELSE a, a = owner, Cardinality(live) > 1, dup)

(* A legacy reservation that is still pending goes to the recorded owner,  *)
(* or to the first access without a key, which is then recorded.           *)
PendingOwner(a, dup) ==
  LET waiting == {b \in Access : Exists(b) /\ access[b].id = 0}
      owner   == IF keys[Name].owner # 0 THEN keys[Name].owner ELSE Lowest(waiting) IN
  [Resolved(IF owner = a THEN Name ELSE a, owner = a, FALSE, dup) EXCEPT !.win = owner]

ResolveBucketAccessIdentity(a) ==
  LET known == access[a].id
      has   == keys[a].uid # 0
      mine  == known = 0 \/ Ids(keys[a]) = {known}
      dup   == has /\ ~mine
      leg   == keys[Name] IN
  IF (has /\ mine) \/ leg.uid = 0 THEN Resolved(a, FALSE, FALSE, dup)
  ELSE IF known # 0 /\ leg.id = known /\ leg.ann = known THEN LegacyOwner(a, dup)
  ELSE IF known = 0 /\ leg.state = "Pending" THEN PendingOwner(a, dup)
  ELSE Resolved(a, FALSE, FALSE, dup)

-----------------------------------------------------------------------------
(* Reconcile.                                                              *)

Next1(a, r) ==
  IF r.dup THEN "dup"
  ELSE IF access[a].st = "del"
       THEN IF access[a].id = 0 THEN "cancel" ELSE IF r.shared THEN "handoff" ELSE "revoke"
  ELSE IF ~access[a].ok \/ (r.shared /\ ~r.owns) THEN "refuse"
  ELSE IF ~access[a].fin THEN "finalizer" ELSE "secret"

ReconcileAccess(a) ==
  /\ StepAccess("idle") /\ Exists(a) /\ ~access[a].handed
  /\ LET r == ResolveBucketAccessIdentity(a) IN
     /\ aw' = [IdleAccess EXCEPT !.pc = Next1(a, r), !.a = a, !.who = IF r.dup THEN a ELSE r.who,
                                 !.known = access[a].id, !.del = access[a].st = "del"]
     /\ keys' = IF r.win # 0 THEN [keys EXCEPT ![Name].owner = r.win] ELSE keys
  /\ UNCHANGED <<access, rsv, secret, accounts>>

RefuseAccess == StepAccess("refuse") /\ FailAccess
AddAccessFinalizer ==
  /\ StepAccess("finalizer")
  /\ access' = IF access[aw.a].st = "live" THEN [access EXCEPT ![aw.a].fin = TRUE] ELSE access
  /\ ADone /\ UNCHANGED <<keys, rsv, secret, accounts>>

(* The access Secret is reserved first, and must be this access's own.     *)
(* The bucket must be bound, provisioned, not deleting, and its shadow     *)
(* must be in the class's cluster.                                         *)
ResolvedBucket == claim.bound /\ parent.uid # 0 /\ parent.id # 0 /\ ~parent.del
ReserveAccessSecret ==
  /\ StepAccess("secret")
  /\ IF secret[aw.a].by \in {0, aw.a}
     THEN /\ secret' = [secret EXCEPT ![aw.a].by = aw.a] /\ AGoTo("buckets")
          /\ UNCHANGED <<access, keys, rsv, accounts>>
     ELSE FailAccess
ResolveBuckets ==
  /\ StepAccess("buckets")
  /\ IF ResolvedBucket /\ Authoritative(parent.id) /\ cluster = "Running"
     THEN AGoTo("reserve") /\ UNCHANGED <<access, keys, rsv, secret, accounts>>
     ELSE FailAccess

-----------------------------------------------------------------------------
(* GrantAccess.                                                            *)

Sh == keys[aw.who]
KFresh == Sh = aw.sh
Hold(sh, pc) == keys' = [keys EXCEPT ![aw.who] = sh] /\ aw' = [aw EXCEPT !.sh = sh, !.pc = pc]

ReserveShadowKey ==
  /\ StepAccess("reserve")
  /\ \/ Sh.uid = 0 /\ Hold(ShadowKey(FreshUID), "lookup") /\ UNCHANGED <<access, rsv, secret, accounts>>
     \/ Sh.uid # 0 /\ Sh.del /\ FailAccess
     \/ Sh.uid # 0 /\ ~Sh.del /\ Hold([Sh EXCEPT !.fin = TRUE], "lookup")
        /\ UNCHANGED <<access, rsv, secret, accounts>>

(* What the shadow and the access's status say about the key.              *)
Replacing == aw.sh.state = "Pending" /\ aw.sh.ann # 0 /\ aw.sh.id \notin {0, aw.sh.ann}
Contradicts ==
  \/ aw.known # 0 /\ aw.sh.ann \notin {0, aw.known}
  \/ aw.sh.ann # 0 /\ aw.sh.ann \notin {aw.sh.id, aw.known}
     /\ (aw.sh.state # "Pending" \/ aw.sh.id = 0)
Found(k) == aw' = [aw EXCEPT !.pc = "bind", !.id = k] /\ UNCHANGED <<access, keys, rsv, secret, accounts>>
LookupKey ==
  /\ StepAccess("lookup")
  /\ IF Contradicts THEN FailAccess
     ELSE \/ /\ aw.sh.state # "Pending" /\ aw.sh.ann # 0               \* bound
             /\ IF LiveKey(aw.sh.ann) THEN Found(aw.sh.ann)
                ELSE aw' = [aw EXCEPT !.pc = "stale", !.id = aw.sh.ann] /\ UNCHANGED <<access, keys, rsv, secret, accounts>>
          \/ /\ aw.sh.state = "Pending" /\ aw.sh.ann # 0 /\ ~Replacing   \* reserved
             /\ IF LiveKey(aw.sh.ann) THEN Found(aw.sh.ann)
                ELSE aw' = [aw EXCEPT !.pc = IF aw.sh.id = aw.sh.ann THEN "tombstone" ELSE "material", !.absent = TRUE]
                     /\ UNCHANGED <<access, keys, rsv, secret, accounts>>
          \/ /\ (aw.sh.ann = 0 \/ Replacing) /\ aw.known # 0            \* the shadow was lost
             /\ IF LiveKey(aw.known)
                THEN aw' = [aw EXCEPT !.pc = "annotateKnown", !.id = aw.known] /\ UNCHANGED <<access, keys, rsv, secret, accounts>>
                ELSE AGoTo("giveUp") /\ UNCHANGED <<access, keys, rsv, secret, accounts>>
          \/ /\ (aw.sh.ann = 0 \/ Replacing) /\ aw.known = 0
             /\ aw' = [aw EXCEPT !.pc = "material", !.absent = Replacing] /\ UNCHANGED <<access, keys, rsv, secret, accounts>>

(* deleteShadow, again two calls.  The worker holds the shadow it found,   *)
(* whoever's it is.                                                        *)
RemoveKey(sh) == IF sh.fin THEN [sh EXCEPT !.del = TRUE] ELSE NoShadowKey
Authority(who, k) == keys[who].uid # 0 /\ keys[who].label /\ keys[who].ann = k /\ keys[who].id = k
Gc(ks) == [i \in Identity |-> IF ks[i].uid = 0 THEN 0 ELSE rsv[i]]   \* a reservation Secret goes with its owner
StripShadowKey(i, next) ==
  /\ keys' = [keys EXCEPT ![i] = IF @.del THEN NoShadowKey ELSE [@ EXCEPT !.fin = FALSE]]
  /\ aw' = [aw EXCEPT !.pc = next, !.who = i, !.sh = keys[i]]
  /\ rsv' = Gc(keys') /\ UNCHANGED <<access, secret, accounts>>
DropShadowKey ==
  /\ keys' = IF Sh.uid # 0 /\ Sh.uid = aw.sh.uid THEN [keys EXCEPT ![aw.who] = RemoveKey(@)] ELSE keys
  /\ rsv' = Gc(keys') /\ UNCHANGED <<secret, accounts>>

(* The shadow's key is gone: the shadow is deleted, the access's account   *)
(* is never replaced.                                                      *)
StripStaleShadowKey ==
  /\ StepAccess("stale")
  /\ IF \E i \in Identity : Authority(i, aw.id)
     THEN \E i \in Identity : Authority(i, aw.id) /\ StripShadowKey(i, "staleDelete")
     ELSE FailAccess
DeleteStaleShadowKey == StepAccess("staleDelete") /\ DropShadowKey /\ AUnpublish /\ ADone
RequestDeleteKey(who) ==
  keys' = IF Sh.uid = 0 \/ Sh.del THEN keys ELSE [keys EXCEPT ![who] = RemoveKey(@)]
GiveUpKnown ==
  /\ StepAccess("giveUp") /\ RequestDeleteKey(aw.who) /\ rsv' = Gc(keys')
  /\ AUnpublish /\ ADone /\ UNCHANGED <<secret, accounts>>

(* Garage never imports an ID twice.  The material of the dead ID goes     *)
(* first, then the status gets a new ID, then the annotation follows.      *)
DropTombstonedMaterial ==
  /\ StepAccess("tombstone")
  /\ IF rsv[aw.who] \in {0, aw.sh.ann}
     THEN /\ rsv' = [rsv EXCEPT ![aw.who] = 0]
          /\ AGoTo("redraw") /\ UNCHANGED <<access, keys, secret, accounts>>
     ELSE FailAccess
PersistShadowKeyStatusID(pc) ==
  /\ Unused # {} /\ UNCHANGED accounts
  /\ IF KFresh THEN Hold([aw.sh EXCEPT !.id = FreshKey], pc) /\ UNCHANGED <<access, rsv, secret>>
     ELSE AUnpublish /\ ADone /\ UNCHANGED <<keys, rsv, secret>>
RedrawKey == StepAccess("redraw") /\ PersistShadowKeyStatusID("material")

EnsureKeyReservationSecret ==
  \/ StepAccess("material") /\ aw.sh.id = 0 /\ PersistShadowKeyStatusID("material")
  \/ /\ StepAccess("material") /\ aw.sh.id # 0
     /\ IF rsv[aw.who] \in {0, aw.sh.id}
        THEN /\ rsv' = [rsv EXCEPT ![aw.who] = aw.sh.id]
             /\ aw' = [aw EXCEPT !.pc = "annotate", !.id = aw.sh.id]
             /\ UNCHANGED <<access, keys, secret, accounts>>
        ELSE FailAccess

(* SetShadowKeyReservationID, ReplaceShadowKeyReservationID: the           *)
(* annotation may only move when the old key was proved absent.            *)
AnnotateReservation ==
  /\ aw.pc \in {"annotate", "annotateKnown"} /\ AccessRest
  /\ LET sh == [Sh EXCEPT !.id = aw.id, !.ann = aw.id] IN
     IF Sh.uid = aw.sh.uid /\ Sh.id \in {0, aw.id} /\ (Sh.ann \in {0, aw.id} \/ aw.absent)
     THEN /\ Hold(sh, IF aw.pc = "annotate" THEN "import" ELSE "bind")
          /\ UNCHANGED <<access, rsv, secret, accounts>>
     ELSE FailAccess
ImportReservedKey ==
  /\ StepAccess("import")
  /\ IF cluster # "Running" \/ accounts.key[aw.id] = "tombstone" THEN FailAccess
     ELSE /\ accounts' = [accounts EXCEPT !.key[aw.id] = "live"]
          /\ AGoTo("bind") /\ UNCHANGED <<access, keys, rsv, secret>>

BindShadowKey ==
  /\ StepAccess("bind")
  /\ IF KFresh /\ aw.sh.ann \in {0, aw.id} /\ aw.sh.id \in {0, aw.id}
     THEN /\ Hold([aw.sh EXCEPT !.id = aw.id, !.ann = aw.id, !.state = "Bound", !.label = TRUE], "perms")
          /\ UNCHANGED <<access, rsv, secret, accounts>>
     ELSE FailAccess

ExactKeyPermissions(k) == [accounts EXCEPT !.perm[k] = Want]
ReconcileCOSIKeyPermissions ==                       \* deny what is stale, then allow what is missing
  /\ StepAccess("perms")
  /\ IF LiveKey(aw.id) /\ Live(garage, parent.id)
     THEN /\ accounts' = ExactKeyPermissions(aw.id)
          /\ AGoTo("unreserve") /\ UNCHANGED <<access, keys, rsv, secret>>
     ELSE FailAccess
DeleteKeyReservationSecret ==
  /\ StepAccess("unreserve")
  /\ IF Authoritative(parent.id) /\ (rsv[aw.who] = 0 \/ (Sh.uid = aw.sh.uid /\ rsv[aw.who] = aw.id))
     THEN /\ rsv' = [rsv EXCEPT ![aw.who] = 0]
          /\ AGoTo("populate") /\ UNCHANGED <<access, keys, secret, accounts>>
     ELSE FailAccess                                 \* buildPerBucketResults
\* Mutant: the Secret's ownership is not checked again.
PopulateAnySecret ==
  /\ StepAccess("populate")
  /\ secret' = [secret EXCEPT ![aw.a].id = aw.id]
  /\ AGoTo("status") /\ UNCHANGED <<access, keys, rsv, accounts>>
PopulateSecret ==
  /\ StepAccess("populate")
  /\ IF secret[aw.a].by = aw.a
     THEN /\ secret' = [secret EXCEPT ![aw.a].id = aw.id]
          /\ AGoTo("status") /\ UNCHANGED <<access, keys, rsv, accounts>>
     ELSE FailAccess
PublishAccessStatus ==
  /\ StepAccess("status")
  /\ access' = IF access[aw.a].st = "live"
               THEN [access EXCEPT ![aw.a].id = aw.id, ![aw.a].ready = TRUE] ELSE access
  /\ ADone /\ UNCHANGED <<keys, rsv, secret, accounts>>

-----------------------------------------------------------------------------
(* Deletion, and the cleanup of a duplicate.                               *)

(* The upstream finalizer goes after the handoff; the Secret with it.      *)
HandOff == access' = [access EXCEPT ![aw.a].handed = TRUE, ![aw.a].fin = FALSE] /\ ADone
\* Mutant: the shadow's deletion is awaited but never requested.
AwaitShadowKeyGone ==
  /\ StepAccess("cancel") /\ UNCHANGED <<secret, accounts, keys, rsv>>
  /\ IF Sh.uid = 0 THEN HandOff ELSE ADone /\ UNCHANGED access
\* Mutant: the access is released as soon as the shadow's deletion was requested.
CancelAccessAtOnce ==
  /\ StepAccess("cancel") /\ UNCHANGED <<secret, accounts>>
  /\ RequestDeleteKey(aw.who) /\ rsv' = Gc(keys') /\ HandOff
CancelAccessProvisioning ==
  /\ StepAccess("cancel") /\ UNCHANGED <<secret, accounts>>
  /\ IF Sh.uid = 0 THEN HandOff /\ UNCHANGED <<keys, rsv>>
     ELSE RequestDeleteKey(aw.who) /\ rsv' = Gc(keys') /\ ADone /\ UNCHANGED access
(* Parameters that do not parse leave it to the shadow to name the cluster.*)
RevokeRemoteKey ==
  /\ StepAccess("revoke")
  /\ IF cluster = "gone" \/ (~access[aw.a].ok /\ \A i \in Identity : ~Authority(i, aw.known)) THEN FailAccess
     ELSE /\ accounts' = DropKey(accounts, aw.known)
          /\ AGoTo("revokeShadow") /\ UNCHANGED <<access, keys, rsv, secret>>
DeleteShadowKeyByID ==
  /\ StepAccess("revokeShadow")
  /\ IF \E i \in Identity : Authority(i, aw.known)
     THEN \E i \in Identity : Authority(i, aw.known) /\ StripShadowKey(i, "revokeDelete")
     ELSE IF \E i \in Identity : keys[i].label /\ keys[i].ann = aw.known THEN FailAccess
     ELSE AGoTo("handoff") /\ UNCHANGED <<access, keys, rsv, secret, accounts>>
DropRevokedShadowKey == StepAccess("revokeDelete") /\ DropShadowKey /\ AGoTo("handoff") /\ UNCHANGED access
CompleteCleanupHandoff ==
  /\ StepAccess("handoff") /\ HandOff /\ UNCHANGED <<keys, rsv, secret, accounts>>

(* Only the shadow's status says which key is the duplicate's: the key     *)
(* goes first, then its reservation Secret, then the shadow.               *)
CleanupDuplicateAccessIdentity ==
  /\ StepAccess("dup")
  /\ \/ Sh.id = 0 /\ RequestDeleteKey(aw.who) /\ rsv' = Gc(keys') /\ ADone /\ UNCHANGED <<access, secret, accounts>>
     \/ Sh.id # 0 /\ IF cluster = "gone" THEN FailAccess
                      ELSE /\ accounts' = DropKey(accounts, Sh.id)
                           /\ aw' = [aw EXCEPT !.pc = "dupSecret", !.sh = Sh]
                           /\ UNCHANGED <<access, keys, rsv, secret>>
DeleteDuplicateSecret ==
  /\ StepAccess("dupSecret")
  /\ IF rsv[aw.who] \in {0, aw.sh.id}
     THEN /\ rsv' = [rsv EXCEPT ![aw.who] = 0]
          /\ AGoTo("dupStrip") /\ UNCHANGED <<access, keys, secret, accounts>>
     ELSE FailAccess
StripDuplicate == StepAccess("dupStrip") /\ StripShadowKey(aw.who, "dupDelete")
DropDuplicate == StepAccess("dupDelete") /\ DropShadowKey /\ ADone /\ UNCHANGED access

-----------------------------------------------------------------------------
(* The GarageKey controller on the shadows.                                *)

KeyWorkerRest == UNCHANGED <<cosiBucketVars, access, secret, aw>>
ReconcilePendingKey ==
  /\ \E i \in Identity : /\ keys[i].uid # 0 /\ ~keys[i].del /\ keys[i].state = "Pending" /\ ~keys[i].fin
                         /\ keys' = [keys EXCEPT ![i].fin = TRUE]
  /\ UNCHANGED <<rsv, accounts>> /\ KeyWorkerRest
(* A Bound shadow gets its finalizer back and its permissions are settled  *)
(* like any GarageKey's; a key that is gone is not replaced.               *)
RestoreKeyFinalizer ==
  /\ cluster = "Running"
  /\ \E i \in Identity : /\ keys[i].uid # 0 /\ ~keys[i].del /\ keys[i].state = "Bound" /\ ~keys[i].fin
                         /\ keys' = [keys EXCEPT ![i].fin = TRUE]
  /\ UNCHANGED <<rsv, accounts>> /\ KeyWorkerRest
ReconcileBoundKey ==
  /\ cluster = "Running"
  /\ \E i \in Identity : /\ keys[i].uid # 0 /\ ~keys[i].del /\ keys[i].state = "Bound" /\ keys[i].fin
                         /\ keys[i].id = keys[i].ann /\ LiveKey(keys[i].id) /\ Live(garage, parent.id)
                         /\ accounts' = ExactKeyPermissions(keys[i].id) /\ accounts' # accounts
  /\ UNCHANGED <<keys, rsv>> /\ KeyWorkerRest
FinalizeShadowKey ==
  /\ cluster # "gone"
  /\ \E i \in Identity : /\ keys[i].uid # 0 /\ keys[i].del /\ keys[i].fin
                         /\ accounts' = IF keys[i].id = 0 THEN accounts ELSE DropKey(accounts, keys[i].id)
                         /\ keys' = [keys EXCEPT ![i] = NoShadowKey]
  /\ rsv' = Gc(keys') /\ KeyWorkerRest

-----------------------------------------------------------------------------
(* Users, the upstream controller and faults.                              *)

DeleteAccess(a) ==
  /\ access[a].st = "live"
  /\ access' = [access EXCEPT ![a].st = "del"]
  /\ UNCHANGED <<cosiBucketVars, keys, rsv, secret, accounts, aw>>
UpstreamReleases(a) ==
  /\ access[a].st = "del" /\ access[a].handed
  /\ access' = [access EXCEPT ![a] = [NoAccess EXCEPT !.st = "gone"]]
  /\ secret' = [secret EXCEPT ![a] = IF @.by = a THEN [by |-> 0, id |-> 0] ELSE @]
  /\ UNCHANGED <<cosiBucketVars, keys, rsv, accounts, aw>>
(* Somebody replaces the reserved Secret by one of his own.                *)
ReplaceSecret(a) ==
  /\ Fault /\ scene = "access" /\ access[a].st = "live" /\ secret[a].by = a /\ ~access[a].ready
  /\ secret' = [secret EXCEPT ![a] = [by |-> Name, id |-> 0]]
  /\ UNCHANGED <<scene, cluster, parent, claim, shadow, garage, bw, scope, access, keys, rsv, accounts, aw>>
LoseKey ==
  /\ Loss /\ scene = "access" /\ Fault
  /\ \E k \in KeyId : LiveKey(k) /\ accounts' = DropKey(accounts, k)
  /\ UNCHANGED <<scene, cluster, parent, claim, shadow, garage, bw, scope, access, keys, rsv, secret, aw>>
CrashAccess ==
  /\ aw.pc # "idle" /\ Fault /\ ADone
  /\ UNCHANGED <<scene, cluster, parent, claim, shadow, garage, bw, scope, access, keys, rsv, secret, accounts>>

GrantAccess ==
  \/ ReserveShadowKey \/ LookupKey \/ StripStaleShadowKey \/ DeleteStaleShadowKey \/ GiveUpKnown
  \/ DropTombstonedMaterial
  \/ RedrawKey \/ EnsureKeyReservationSecret \/ AnnotateReservation \/ ImportReservedKey
  \/ BindShadowKey \/ ReconcileCOSIKeyPermissions \/ DeleteKeyReservationSecret
AccessSteps ==
  \/ RefuseAccess \/ AddAccessFinalizer \/ ReserveAccessSecret \/ ResolveBuckets \/ GrantAccess
  \/ PopulateSecret \/ PublishAccessStatus \/ CancelAccessProvisioning \/ RevokeRemoteKey
  \/ DeleteShadowKeyByID \/ DropRevokedShadowKey \/ CompleteCleanupHandoff
  \/ CleanupDuplicateAccessIdentity \/ DeleteDuplicateSecret \/ StripDuplicate \/ DropDuplicate
KeyWorker == ReconcilePendingKey \/ RestoreKeyFinalizer \/ ReconcileBoundKey \/ FinalizeShadowKey
AccessEnvironment ==
  \/ \E a \in Access : DeleteAccess(a) \/ UpstreamReleases(a) \/ ReplaceSecret(a)
  \/ LoseKey \/ CrashAccess
=============================================================================
