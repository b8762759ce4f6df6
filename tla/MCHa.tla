-------------------------------- MODULE MCHa --------------------------------
(* A small pair with its witness, for TLC: member 2 preempts. *)
EXTENDS Ha

Leases(a, b)  == [m \in Members |-> IF m = 1 THEN a ELSE b]
MemberLease   == Leases(1, 1)
Priority      == Leases(100, 200)
Preempt       == Leases(FALSE, TRUE)
============================================================================
