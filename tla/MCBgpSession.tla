---------------------------- MODULE MCBgpSession ----------------------------
(* Two speakers, a with the lower BGP Identifier.                          *)
EXTENDS BgpSession

Pair  == {"a", "b"}
Rank  == [a |-> 1, b |-> 2]
Opens == [a |-> [as |-> 1, role |-> "customer", hold |-> 90],
          b |-> [as |-> 2, role |-> "provider", hold |-> 180]]
Owners == <<"a", "b", "a", "b">>
B(f, c, r, w) == [fanout |-> f, cut |-> c, reset |-> r, write |-> w]
Faults == {B(1, 0, 0, "never"), B(0, 1, 0, "never"), B(0, 0, 1, "may")}
Expected == [a |-> Opens.b, b |-> Opens.a]
=============================================================================
