------------------------------ MODULE MCDhcpv4 ------------------------------
(* Instances of Dhcpv4 for TLC. *)
EXTENDS Dhcpv4, TLC

CONSTANTS m1, m2, m3, l1, l2, l3

PoolLo == [p \in {1} |-> 1]
PoolHi == [p \in {1} |-> 2]
TwoPools == [p \in {1, 2} |-> p]
ReserveFirst == {<<m1, 1>>}
ReserveAnywhere == {<<m1, 2>>, <<m1, 3>>}

RowSymmetry == Permutations(LeaseIds)

=============================================================================
