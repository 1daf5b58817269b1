------------------------- MODULE SafeRemovalProofs -------------------------
(***************************************************************************)
(* What SafeRemoval promises, for every set of nodes: so does every        *)
(* specification that implements it.                                       *)
(***************************************************************************)
EXTENDS SafeRemoval, TLAPS

\* A record has the three fields the steps read.
Records == [names : SUBSET Nodes, tx : Transactions, proven : BOOLEAN]

\* The types, and the two promises: they are inductive together with them.
Inv ==
  /\ record # None => record \in Records
  /\ UnprovenRemovalIsDurable
  /\ TerminalProofIsTrue

LEMMA InitInv == Init => Inv
  BY DEF Init, Inv, UnprovenRemovalIsDurable, TerminalProofIsTrue

LEMMA NextInv == ASSUME None \notin Records PROVE Inv /\ [Next]_vars => Inv'
<1> SUFFICES ASSUME Inv, [Next]_vars PROVE Inv'
  OBVIOUS
<1> USE DEF Inv, UnprovenRemovalIsDurable, TerminalProofIsTrue, Records
<1>1. ASSUME NEW names \in SUBSET Nodes, NEW tx \in Transactions, Open(names, tx) PROVE Inv'
  BY <1>1 DEF Open
<1>2. ASSUME NEW gone \in SUBSET Nodes, Remove(gone) PROVE Inv'
  BY <1>2 DEF Remove
<1>3. ASSUME NEW n \in Nodes, Arrive(n) PROVE Inv'
  BY <1>3 DEF Arrive
<1>4. ASSUME NEW n \in Nodes, Rejoin(n) PROVE Inv'
  BY <1>4 DEF Rejoin
<1>5. CASE Prove
  BY <1>5 DEF Prove
<1>6. CASE Doubt
  BY <1>6 DEF Doubt
<1>7. CASE Close
  BY <1>7 DEF Close
<1>8. CASE Replaced
  BY <1>8 DEF Replaced
<1>9. CASE UNCHANGED vars
  BY <1>9 DEF vars
<1> QED
  BY <1>1, <1>2, <1>3, <1>4, <1>5, <1>6, <1>7, <1>8, <1>9 DEF Next

\* No removal is forgotten before its blocks have moved: the record is closed or replaced only then.
THEOREM RemovalsAreRecorded ==
  ASSUME None \notin Records PROVE Spec => []UnprovenRemovalIsDurable
<1>1. Inv => UnprovenRemovalIsDurable
  BY DEF Inv
<1> QED
  BY InitInv, NextInv, <1>1, PTL DEF Spec

\* A terminal proof stays true: nothing is removed under a proven record.
THEOREM ProofsAreTrue ==
  ASSUME None \notin Records PROVE Spec => []TerminalProofIsTrue
<1>1. Inv => TerminalProofIsTrue
  BY DEF Inv
<1> QED
  BY InitInv, NextInv, <1>1, PTL DEF Spec
=============================================================================
