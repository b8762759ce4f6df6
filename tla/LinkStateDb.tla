----------------------------- MODULE LinkStateDb -----------------------------
(***************************************************************************)
(* What a link-state database promises, whatever the protocol: each router *)
(* holds at most one instance of each advertisement; a held instance is    *)
(* only ever replaced by a more recent one or forgotten; and no router     *)
(* holds anything more recent than what the advertisement's own originator *)
(* issued.  OSPFv2, OSPFv3 and IS-IS are shown to implement it.            *)
(***************************************************************************)
CONSTANTS
    Routers, Keys,
    Owner(_),           \* the router that originates a key
    Newer(_, _),        \* the protocol's recency order on two instances of a key
    Lapsed(_),          \* an instance whose lifetime is over
    None                \* no instance

VARIABLES
    held,               \* held[r][k]: the instance of k in the database of r
    newest              \* newest[k]: the most recent instance of k its owner has issued

dbVars == <<held, newest>>

Init ==
    /\ held = [r \in Routers |-> [k \in Keys |-> None]]
    /\ newest = [k \in Keys |-> None]

AtLeast(a, b) == b = None \/ (a # None /\ ~Newer(b, a))

\* Router r originates some of its own advertisements, or a copy it holds of any
\* other's lapses.
Issue(r) ==
    \A k \in Keys :
        newest'[k] # newest[k] =>
            /\ newest'[k] # None /\ AtLeast(newest'[k], newest[k])
            /\ \/ Owner(k) = r
               \/ held[r][k] # None /\ newest'[k] = Lapsed(held[r][k])

\* Router r takes up a more recent instance that its owner has issued, or forgets.
Move(r) ==
    /\ \A q \in Routers \ {r} : held'[q] = held[q]
    /\ \A k \in Keys :
        held'[r][k] # held[r][k] /\ held'[r][k] # None =>
            AtLeast(held'[r][k], held[r][k]) /\ AtLeast(newest'[k], held'[r][k])

Next == \E r \in Routers : Issue(r) /\ Move(r)

DbSpec == Init /\ [][Next]_dbVars
=============================================================================
