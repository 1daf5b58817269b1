-------------------------- MODULE MCFactorMigration --------------------------
(* Instances of FactorMigration for TLC: two storage nodes, factor 1 to 2.  *)
EXTENDS FactorMigration

Calm == [requests |-> 1, aborts |-> 1, lost |-> 0, evictions |-> 0, failures |-> 0,
         stale |-> FALSE, overlap |-> FALSE]

\* One migration, an abort, and a reconcile that ends at any of its calls.
RestartScene == {[Calm EXCEPT !.failures = 1]}

\* A second request with a lost status write; a GarageNode reconcile that outlasts
\* the start of the migration, and a Pod that vanishes; a lagging informer and a
\* lost status write.
FaultScenes ==
  {[Calm EXCEPT !.requests = 2, !.aborts = 0, !.lost = 1],
   [Calm EXCEPT !.overlap = TRUE, !.evictions = 1],
   [Calm EXCEPT !.stale = TRUE, !.lost = 1]}

=============================================================================
