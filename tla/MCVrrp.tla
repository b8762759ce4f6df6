------------------------------- MODULE MCVrrp -------------------------------
(* Two hosts with one generation each, for TLC: the interface of host 1 comes *)
(* and goes, and the tracked interface of host 2 makes the priorities equal.  *)
EXTENDS Vrrp

Both(a, b) == [h \in Hosts |-> IF h = 1 THEN a ELSE b]
Pair       == {<<1, 1>>, <<2, 1>>}
Addrs      == Both({0, 1}, {2})
Base       == Both(100, 150)
Decrement  == Both(0, 50)
Preempt    == Both(TRUE, TRUE)
Interval   == Both(1, 1)
============================================================================
