---------------------------- MODULE TagRegistry -----------------------------
(***************************************************************************)
(* What the conversion-tag endpoint promises whoever reads its tables:     *)
(* tags and idempotency records appear, whole and for good, one request at *)
(* a time, whatever happens to the requests that make them.                *)
(***************************************************************************)
CONSTANTS Tag, Record, ConversionId

VARIABLES
  registered,  \* tags that a reader can see
  replays,     \* answers kept under an Idempotency-Key
  existing     \* ids of the custom conversions that exist at Meta

vars == <<registered, replays, existing>>

SameSlot(x, y) == x.adv = y.adv /\ x.name = y.name

Init == registered = {} /\ replays = {} /\ existing = {}

\* A conversion comes into being at Meta before anything is registered for it.
Convert(id) ==
  /\ existing' = existing \cup {id}
  /\ UNCHANGED <<registered, replays>>

\* A tag is registered once, active, under a name its advertiser has not used.
Register(t) ==
  /\ t.status = "ACTIVE"
  /\ t.meta \in existing
  /\ \A u \in registered : ~SameSlot(u, t)
  /\ registered' = registered \cup {t}

\* An answer is kept once for its key, and it shows a registered tag.
Remember(x) ==
  /\ \A y \in replays : y.key # x.key
  /\ x.body \in registered'
  /\ SameSlot(x.body, x.hash)
  /\ replays' = replays \cup {x}

\* One request's outcome becomes visible at once.
Settle ==
  /\ UNCHANGED existing
  /\ \/ UNCHANGED replays /\ \E t \in Tag : Register(t)
     \/ UNCHANGED registered /\ \E x \in Record : Remember(x)
     \/ \E t \in Tag : Register(t) /\ \E x \in Record : Remember(x)

Next == Settle \/ \E id \in ConversionId : Convert(id)

Spec == Init /\ [][Next]_vars
=============================================================================
