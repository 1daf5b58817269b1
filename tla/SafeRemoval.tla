---------------------------- MODULE SafeRemoval ----------------------------
(***************************************************************************)
(* What a storage drain promises, without controllers, markers or a mutex: *)
(* one record at a time says which roles are to leave the layout.  A role  *)
(* leaves only while the record names it and is open; the record ends by   *)
(* a proof that every block has moved, or is given up while nothing it     *)
(* names is on the move.                                                   *)
(***************************************************************************)
CONSTANTS Nodes, Transactions, None

VARIABLES
  members,   \* nodes with a role in the layout
  moving,    \* former members whose blocks have not all reached their new places
  record     \* None, or the roles to remove, the transaction, and whether the proof is complete

vars == <<members, moving, record>>

Init == members = Nodes /\ moving = {} /\ record = None

\* The intent is durable before anything is removed.
Open(names, tx) ==
  /\ record = None /\ moving = {}
  /\ record' = [names |-> names, tx |-> tx, proven |-> FALSE]
  /\ UNCHANGED <<members, moving>>

Remove(gone) ==
  /\ record # None /\ ~record.proven /\ gone \subseteq record.names
  /\ members' = members \ gone
  /\ moving' = moving \cup (gone \cap members)
  /\ UNCHANGED record

\* An ordinary write gives a node its role back, never one that is to leave.
Rejoin(n) ==
  /\ record # None => n \notin record.names
  /\ members' = members \cup {n} /\ moving' = moving \ {n}
  /\ UNCHANGED record

Arrive(n) == moving' = moving \ {n} /\ UNCHANGED <<members, record>>

Prove ==
  /\ record # None /\ record.names \cap (members \cup moving) = {}
  /\ record' = [record EXCEPT !.proven = TRUE]
  /\ UNCHANGED <<members, moving>>

\* A later observation that cannot be completed reopens the record.
Doubt ==
  /\ record # None
  /\ record' = [record EXCEPT !.proven = FALSE]
  /\ UNCHANGED <<members, moving>>

\* Closed on its proof, or given up: never with blocks on the move.
Close ==
  /\ record # None /\ moving = {}
  /\ record' = None
  /\ UNCHANGED <<members, moving>>

\* Another cluster under the same name, which may follow only a proof or no drain at all.
Replaced ==
  /\ record # None => record.proven
  /\ members' = Nodes /\ moving' = {} /\ record' = None

Next ==
  \/ \E names \in SUBSET Nodes, tx \in Transactions : Open(names, tx)
  \/ \E gone \in SUBSET Nodes : Remove(gone)
  \/ \E n \in Nodes : Arrive(n) \/ Rejoin(n)
  \/ Prove \/ Doubt \/ Close \/ Replaced

Spec == Init /\ [][Next]_vars

-----------------------------------------------------------------------------
(* What the order of the steps is for.  Spec implies both.                 *)

\* A role that left while its blocks are on the move is named by the record, whatever was given up,
\* proved or closed in between (ensureClusterStorageDrainIntent comes before Apply).
UnprovenRemovalIsDurable ==
  moving # {} => record # None /\ moving \subseteq record.names

\* CompletedAt is what DELETE admission trusts: while it is set no recorded source still holds the only
\* copy of a block (completedGarageNodeDrainAuthorizesFinalization,
\* completedGarageClusterDrainAuthorizesFinalization).
TerminalProofIsTrue ==
  record # None => (record.proven => record.names \cap moving = {})
=============================================================================
