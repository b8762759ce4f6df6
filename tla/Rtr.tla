-------------------------------- MODULE Rtr --------------------------------
(***************************************************************************)
(* The RPKI-to-Router client (wren-daemon rtr.rs over wren-bgp rtr.rs): it *)
(* pulls the whole ROA set from a validating cache, follows it with serial *)
(* queries, and hands BGP a snapshot at each End of Data.                  *)
(*                                                                         *)
(* The cache is external: it answers queries in order over a reliable      *)
(* stream, replays the changes since the serial it is asked about, or      *)
(* sends a Cache Reset when it no longer knows that serial or that         *)
(* session.  It may change, forget its history or restart at any time, and *)
(* the connection may be lost with everything in flight.                   *)
(***************************************************************************)
EXTENDS Integers, Sequences, FiniteSets

CONSTANTS Roas,         \* the ROAs there are
          MAX_ROAS,     \* the most the client retains
          MAX_CHANGES,  \* changes of the cache's set
          MAX_FAULTS,   \* restarts, forgotten histories, errors and lost connections
          MAX_TIMERS    \* refresh timers that run out

VARIABLES log,          \* the cache's changes, one ROA each: [roa, announce]
          oldest,       \* the oldest serial the cache can answer a query about
          cacheSession, \* its session id
          truth,        \* <<session, serial, set>> the cache has held
          toCache,      \* queries in flight
          toRouter,     \* PDUs in flight
          connected,
          roas, session_id, serial,   \* the client's, of the current connection
          fed,          \* {} or the last snapshot BGP was given, with what it is of
          crossed,      \* a Cache Reset was read with another query still unanswered
          budget

cache == <<log, oldest, cacheSession, truth>>
client == <<roas, session_id, serial, fed, crossed>>
vars == <<log, oldest, cacheSession, truth, toCache, toRouter, connected,
          roas, session_id, serial, fed, crossed, budget>>

\* The set after the first n changes: the last word on each ROA counts.
SetAt(n) ==
  {r \in Roas : \E i \in 1..n : /\ log[i] = [roa |-> r, announce |-> TRUE]
                                /\ \A j \in (i + 1)..n : log[j].roa # r}

Current == Len(log)

Init ==
  /\ log = <<>> /\ oldest = 0 /\ cacheSession = 1
  /\ truth = {<<1, 0, {}>>}
  /\ toCache = <<>> /\ toRouter = <<>>
  /\ connected = FALSE
  /\ roas = {} /\ session_id = 0 /\ serial = 0
  /\ fed = {} /\ crossed = FALSE
  /\ budget = [changes |-> MAX_CHANGES, faults |-> MAX_FAULTS, timers |-> MAX_TIMERS]

Pdu(type) == [type |-> type]

\* run: a new session starts from nothing; BGP keeps what it was fed.
Connect ==
  /\ ~connected /\ connected' = TRUE
  /\ roas' = {} /\ session_id' = 0 /\ serial' = 0
  /\ toCache' = <<Pdu("ResetQuery")>> /\ toRouter' = <<>>
  /\ UNCHANGED <<log, oldest, cacheSession, truth, fed, crossed, budget>>

\* The socket fails, a PDU does not decode, or the cache is gone: back off and retry.
Disconnect ==
  /\ connected /\ budget.faults > 0
  /\ connected' = FALSE
  /\ toCache' = <<>> /\ toRouter' = <<>>
  /\ budget' = [budget EXCEPT !.faults = @ - 1]
  /\ UNCHANGED <<cache, client>>

Query == [type |-> "SerialQuery", session_id |-> session_id, serial |-> serial]

\* `refresh` seconds of quiet.
RefreshTimer ==
  /\ connected /\ budget.timers > 0
  /\ toCache' = Append(toCache, Query)
  /\ budget' = [budget EXCEPT !.timers = @ - 1]
  /\ UNCHANGED <<cache, toRouter, connected, client>>

-----------------------------------------------------------------------------
(* Reading one PDU. *)

Arrived(type) == connected /\ toRouter # <<>> /\ Head(toRouter).type = type

Rest == toRouter' = Tail(toRouter) /\ UNCHANGED <<cache, connected, budget>>

OnCacheResponse ==
  /\ Arrived("CacheResponse") /\ Rest
  /\ session_id' = Head(toRouter).session_id
  /\ UNCHANGED <<roas, serial, fed, crossed, toCache>>

\* to_roa: a prefix length beyond the family's is skipped.
ToRoa(pdu) == IF pdu.valid THEN {pdu.roa} ELSE {}

\* A slip, for the mutants: withdrawals are not applied.
OnPrefixGrowing ==
  /\ Arrived("Prefix") /\ Rest
  /\ roas' = IF Head(toRouter).announce THEN roas \cup ToRoa(Head(toRouter)) ELSE roas
  /\ UNCHANGED <<session_id, serial, fed, crossed, toCache>>

OnPrefix ==
  /\ Arrived("Prefix") /\ Rest
  /\ roas' = IF ~Head(toRouter).announce THEN roas \ ToRoa(Head(toRouter))
             ELSE IF Cardinality(roas) < MAX_ROAS THEN roas \cup ToRoa(Head(toRouter))
             ELSE roas
  /\ UNCHANGED <<session_id, serial, fed, crossed, toCache>>

OnEndOfData ==
  /\ Arrived("EndOfData") /\ Rest
  /\ session_id' = Head(toRouter).session_id
  /\ serial' = Head(toRouter).serial
  /\ fed' = {<<session_id', serial', roas>>}
  /\ UNCHANGED <<roas, crossed, toCache>>

\* A slip, for the mutants: the set is kept for the new synchronisation.
OnCacheResetKeeps ==
  /\ Arrived("CacheReset") /\ Rest
  /\ toCache' = Append(toCache, Pdu("ResetQuery"))
  /\ UNCHANGED client

OnCacheReset ==
  /\ Arrived("CacheReset") /\ Rest
  /\ roas' = {}
  /\ crossed' = (crossed \/ toCache # <<>> \/ Len(toRouter) > 1)
  /\ toCache' = Append(toCache, Pdu("ResetQuery"))
  /\ UNCHANGED <<session_id, serial, fed>>

OnSerialNotify ==
  /\ Arrived("SerialNotify") /\ Rest
  /\ toCache' = Append(toCache, Query)
  /\ UNCHANGED client

OnIgnored ==
  /\ Arrived("ErrorReport") /\ Rest
  /\ UNCHANGED <<client, toCache>>

-----------------------------------------------------------------------------
(* The cache. *)

Prefixes(changes) ==
  [i \in DOMAIN changes |-> [type |-> "Prefix", roa |-> changes[i].roa,
                             announce |-> changes[i].announce, valid |-> TRUE]]

RECURSIVE Listed(_)
Listed(set) ==
  IF set = {} THEN <<>>
  ELSE LET r == CHOOSE x \in set : TRUE
       IN <<[roa |-> r, announce |-> TRUE]>> \o Listed(set \ {r})

Response(changes) ==
  <<[type |-> "CacheResponse", session_id |-> cacheSession]>> \o Prefixes(changes)
  \o <<[type |-> "EndOfData", session_id |-> cacheSession, serial |-> Current]>>

CacheAnswer ==
  /\ connected /\ toCache # <<>>
  /\ toCache' = Tail(toCache)
  /\ LET q == Head(toCache)
     IN toRouter' = toRouter \o
          (IF q.type = "ResetQuery" THEN Response(Listed(SetAt(Current)))
           ELSE IF q.session_id = cacheSession /\ q.serial \in oldest..Current
           THEN Response(SubSeq(log, q.serial + 1, Current))
           ELSE <<Pdu("CacheReset")>>)
  /\ UNCHANGED <<cache, connected, client, budget>>

\* A change, notified to a connected router.
CacheChange(r) ==
  /\ budget.changes > 0
  /\ budget' = [budget EXCEPT !.changes = @ - 1]
  /\ log' = Append(log, [roa |-> r, announce |-> r \notin SetAt(Current)])
  /\ truth' = truth \cup {<<cacheSession, Current + 1,
                            IF r \in SetAt(Current) THEN SetAt(Current) \ {r}
                                                    ELSE SetAt(Current) \cup {r}>>}
  /\ toRouter' = IF connected THEN Append(toRouter, Pdu("SerialNotify")) ELSE toRouter
  /\ UNCHANGED <<oldest, cacheSession, toCache, connected, client>>

CacheForgets ==
  /\ budget.faults > 0 /\ oldest # Current
  /\ budget' = [budget EXCEPT !.faults = @ - 1]
  /\ oldest' = Current
  /\ UNCHANGED <<log, cacheSession, truth, toCache, toRouter, connected, client>>

\* A new session of the cache: the serials start over; the connection is lost.
CacheRestart ==
  /\ budget.faults > 0
  /\ budget' = [budget EXCEPT !.faults = @ - 1]
  /\ cacheSession' = cacheSession + 1
  /\ log' = Listed(SetAt(Current))
  /\ oldest' = Len(log')
  /\ truth' = truth \cup {<<cacheSession', Len(log'), SetAt(Current)>>}
  /\ connected' = FALSE /\ toCache' = <<>> /\ toRouter' = <<>>
  /\ UNCHANGED client

CacheReportsError ==
  /\ connected /\ budget.faults > 0
  /\ budget' = [budget EXCEPT !.faults = @ - 1]
  /\ toRouter' = Append(toRouter, Pdu("ErrorReport"))
  /\ UNCHANGED <<cache, toCache, connected, client>>

Next ==
  \/ Connect \/ Disconnect \/ RefreshTimer
  \/ OnCacheResponse \/ OnPrefix \/ OnEndOfData \/ OnCacheReset \/ OnSerialNotify \/ OnIgnored
  \/ CacheAnswer \/ CacheForgets \/ CacheRestart \/ CacheReportsError
  \/ \E r \in Roas : CacheChange(r)

Spec == Init /\ [][Next]_vars

-----------------------------------------------------------------------------
(* Properties. *)

RtrTypeOK ==
  /\ roas \subseteq Roas /\ Cardinality(roas) <= MAX_ROAS
  /\ serial \in Nat /\ session_id \in 0..cacheSession
  /\ Cardinality(fed) <= 1

\* BGP is only ever given a set the cache held, under the serial it held it, however
\* queries and notifications cross and whatever was in flight when the connection was
\* lost - unless a Cache Reset overtook the answer to another query, which is then
\* applied to the emptied set.
SnapshotTrue == crossed \/ fed \subseteq truth

\* When nothing is in flight on a connection, BGP has the cache's current set, also
\* after such a crossing.
QuietIsCurrent ==
  (connected /\ toCache = <<>> /\ toRouter = <<>>) =>
     fed = {<<cacheSession, Current, SetAt(Current)>>}

\* The client's promises together.
RtrInv == RtrTypeOK /\ SnapshotTrue /\ QuietIsCurrent
=============================================================================
