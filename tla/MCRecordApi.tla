---------------------------- MODULE MCRecordApi ----------------------------
(* Instances of RecordApi for TLC. *)
EXTENDS RecordApi, TLC

CONSTANTS z1, z2, z3, r1, r2, r3, r4, r5, r6, h, k, x, y

IdSymmetry == Permutations(ZoneIds) \cup Permutations(Ids) \cup Permutations(Hosts)

=============================================================================
