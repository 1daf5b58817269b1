------------------------------- MODULE MCCosi -------------------------------
(* Instances of Cosi for TLC: two faults for a Bucket, one for accesses.    *)
EXTENDS Cosi
MCScenes == {"bucket", "access", "legacy"}
MCFaults == [bucket |-> 2, access |-> 1, legacy |-> 1]
=============================================================================
