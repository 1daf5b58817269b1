------------------------- MODULE LayoutCoordinator -------------------------
(***************************************************************************)
(* The in-memory half of the layout coordination of the operator:          *)
(* LayoutMutationCoordinator of layout_mutation_coordinator.go, for one    *)
(* canonical Garage layout key.  The coordinator holds, per key, a mutex   *)
(* bit (held), at most one storage-drain marker and at most one            *)
(* managed-Pod-rollout marker.  Every method runs under c.mu, so each is a *)
(* function from a marker to a marker and is used inside one step of the   *)
(* worker that calls it.                                                   *)
(*                                                                         *)
(* A marker names the UID of the owning GarageCluster, because names are   *)
(* reused and UIDs are not.  target hashes are folded into the transaction *)
(* number: within this model the target set of a transaction is fixed.     *)
(***************************************************************************)
CONSTANT None        \* the absence of a marker or of a durable record

-----------------------------------------------------------------------------
(* Storage-drain markers. *)

StorageDrainMarker(ownerUID, actor, tx) ==
  [ownerUID |-> ownerUID, actor |-> actor, tx |-> tx, confirmed |-> FALSE]

Matches(marker, wanted) ==
  /\ marker.ownerUID = wanted.ownerUID
  /\ marker.actor = wanted.actor
  /\ marker.tx = wanted.tx

Owns(marker, wanted) == marker # None /\ Matches(marker, wanted)

\* What BeginStorageDrain returns, and the marker it leaves behind.
CanBeginStorageDrain(marker, wanted) == marker # None => Matches(marker, wanted)
BeginStorageDrain(marker, wanted) == IF marker = None THEN wanted ELSE marker

\* What ConfirmStorageDrain returns, and the marker it leaves behind.
CanConfirmStorageDrain(marker, wanted) == Owns(marker, wanted)
ConfirmStorageDrain(marker, wanted) ==
  IF Owns(marker, wanted) THEN [marker EXCEPT !.confirmed = TRUE] ELSE marker

EndStorageDrain(marker, wanted) == IF Owns(marker, wanted) THEN None ELSE marker


\* Mutant: a provisional marker is dropped as well.
PruneAnyStorageDrain(marker, currentOwnerUID) ==
  IF marker # None /\ marker.ownerUID = currentOwnerUID THEN None ELSE marker

PruneConfirmedStorageDrainWithoutStatus(marker, currentOwnerUID) ==
  IF marker # None /\ marker.ownerUID = currentOwnerUID /\ marker.confirmed
  THEN None ELSE marker


\* Mutant: a marker of a deleted owner is kept.
KeepStaleStorageDrain(marker, currentOwnerUID) == marker

PruneStaleStorageDrain(marker, currentOwnerUID) ==
  IF marker # None /\ marker.ownerUID # currentOwnerUID THEN None ELSE marker

-----------------------------------------------------------------------------
(* Managed-Pod rollout markers.  The only rollout source modelled is the   *)
(* layout owner itself, so source and owner carry the same UID and both    *)
(* staleness tests of PruneStaleNodeLocalPoolRollout coincide.             *)

RolloutMarker(ownerUID) == [ownerUID |-> ownerUID, confirmed |-> FALSE]

OwnsRollout(marker, ownerUID) == marker # None /\ marker.ownerUID = ownerUID

CanBeginNodeLocalPoolRollout(marker, ownerUID) ==
  marker # None => marker.ownerUID = ownerUID
BeginNodeLocalPoolRollout(marker, ownerUID) ==
  IF marker = None THEN RolloutMarker(ownerUID) ELSE marker

ConfirmNodeLocalPoolRollout(marker, ownerUID) ==
  IF OwnsRollout(marker, ownerUID) THEN [marker EXCEPT !.confirmed = TRUE] ELSE marker

EndNodeLocalPoolRollout(marker, ownerUID) ==
  IF OwnsRollout(marker, ownerUID) THEN None ELSE marker

PruneStaleNodeLocalPoolRollout(marker, currentOwnerUID) ==
  IF marker # None /\ marker.ownerUID # currentOwnerUID THEN None ELSE marker

\* The marker is this source's and its status write is known to be durable.
RolloutConfirmedBy(marker, ownerUID) == OwnsRollout(marker, ownerUID) /\ marker.confirmed
=============================================================================
