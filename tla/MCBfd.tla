------------------------------- MODULE MCBfd -------------------------------
(* The two ends of a link for TLC.  OSPF comes and goes at end a; BGP has      *)
(* registered the peer at end b, which also runs Echo and asks for two lost    *)
(* packets before its neighbour declares a failure.                            *)
EXTENDS Bfd

Both(a, b) == [e \in End |-> IF e = "a" THEN a ELSE b]
Ends       == {"a", "b"}
Other      == Both("b", "a")
Users      == Both({"ospf"}, {})
Started    == Both(<<>>, <<"bgp">>)
Interval   == Both(2, 2)
Mult       == Both(1, 2)
Percent    == Both(75, 90)
Echo       == Both(0, 1)
============================================================================
