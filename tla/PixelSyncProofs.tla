-------------------------- MODULE PixelSyncProofs --------------------------
(***************************************************************************)
(* Theorems about PixelSync: its types, what a sync leaves in the table,   *)
(* that the table implements PixelTable, and that syncs which keep to one  *)
(* order of the pixels never wait in a cycle.                              *)
(***************************************************************************)
EXTENDS PixelSync, WellFoundedInduction, TLAPS

\* Past the listing.
Upserting == {"find", "write", "commit"}

\* What is set at which label.
Placed(s) ==
  /\ pc[s] # "idle" => adv[s] \in Advertiser
  /\ pc[s] \in {"refresh", "list"} \/ listing[s] # <<>> =>
       adv[s] \in DOMAIN AdAccount /\ AdAccount[adv[s]] \in Account
  /\ pc[s] \in {"idle", "token", "refresh", "list"} => listing[s] = <<>> /\ next[s] = 1
  /\ next[s] <= Len(listing[s]) + 1
  /\ pc[s] = "write" => next[s] <= Len(listing[s])
  /\ pc[s] = "commit" => next[s] > Len(listing[s])

TypeInv == TypeOK /\ \A s \in Sync : Placed(s)

\* Which labels hold locks at all.
Held(s) ==
  /\ pc[s] \notin Upserting \cup {"rollback"} => dirty[s] = Untouched
  /\ s \in refreshed => pc[s] \in Upserting \cup {"list", "rollback"}

\* A written row is an entry that the sync is done with, upserted over the
\* committed row, which cannot change as long as the row is locked.
Grounded(s) ==
  \A p \in Pixel :
    dirty[s][p] # None =>
      \E i \in 1..(next[s] - 1) :
        /\ listing[s][i].pixel = p
        /\ Table!Upserted(dirty[s][p], rows[p], adv[s], listing[s][i])

\* The row of p as the session of s sees it.
Effective(s, p) == IF dirty[s][p] = None THEN rows[p] ELSE dirty[s][p]

\* Every entry that the sync is done with has its row, and a row seen stays.
Covered(s) ==
  /\ pc[s] \in Upserting =>
       \A i \in 1..(next[s] - 1) : Effective(s, listing[s][i].pixel) # None
  /\ pc[s] = "write" /\ seen[s] # None => rows[Current(s).pixel] # None

\* Undisturbed, those rows are what Meta listed, and what was seen still is.
Exact(s) ==
  s \notin overlapped =>
    /\ pc[s] \in Upserting =>
         \A i \in 1..(next[s] - 1) :
           Effective(s, listing[s][i].pixel) = RowFor(s, listing[s][i])
    /\ pc[s] = "write" => seen[s] = rows[Current(s).pixel]

\* A row has one writer at a time.
Exclusive ==
  \A s, q \in Sync : \A p \in Pixel :
    s # q => dirty[s][p] = None \/ dirty[q][p] = None

\* Syncs that run together know it.
Quiet == \A s, q \in Sync : s # q /\ Running(s) /\ Running(q) => s \in overlapped

IInv ==
  /\ TypeInv
  /\ \A s \in Sync : Held(s) /\ Grounded(s) /\ Covered(s) /\ Exact(s)
  /\ Exclusive
  /\ Quiet
-----------------------------------------------------------------------------
\* A listing is a sequence of entries, one per pixel.
LEMMA ListingFacts ==
  ASSUME TypeInv, NEW s \in Sync
  PROVE  /\ listing[s] \in Seq(Entry)
         /\ Len(listing[s]) \in Nat
         /\ \A i \in 1..Len(listing[s]) : listing[s][i] \in Entry
         /\ \A i, j \in 1..Len(listing[s]) :
              listing[s][i].pixel = listing[s][j].pixel => i = j
<1>1. listing[s] = <<>> \/ \E c \in Account : listing[s] \in Listing[c]
  BY DEF TypeInv, TypeOK
<1>2. CASE listing[s] = <<>>
  BY <1>2
<1>3. CASE \E c \in Account : listing[s] \in Listing[c]
  BY <1>3, ListingAssumption
<1>4. QED
  BY <1>1, <1>2, <1>3

\* The entry a sync works on, and what it wants of it.
LEMMA CurrentFacts ==
  ASSUME TypeInv, NEW s \in Sync, pc[s] = "write"
  PROVE  /\ next[s] \in 1..Len(listing[s])
         /\ Current(s) \in Entry
         /\ Current(s).pixel \in Pixel
         /\ Wanted(s) \in Row
<1>1. next[s] \in 1..Len(listing[s])
  BY ListingFacts DEF TypeInv, TypeOK, Placed
<1>2. Current(s) \in Entry
  BY <1>1, ListingFacts DEF Current
<1>3. adv[s] \in Advertiser
  BY DEF TypeInv, Placed
<1>4. QED
  BY <1>1, <1>2, <1>3 DEF Entry, Row, Wanted, RowFor

\* An update keeps or sets each column.
LEMMA ChangedFacts ==
  ASSUME NEW old \in Row, NEW was \in Row, NEW new \in Row
  PROVE  /\ Changed(old, was, new) \in Row
         /\ Changed(old, was, new).owner \in {new.owner, old.owner}
         /\ Changed(old, was, new).name \in {new.name, old.name}
         /\ Changed(old, was, new).status \in {new.status, old.status}
         /\ old = was => Changed(old, was, new) = new
BY DEF Changed, Row

\* The invariant holds at the start.
LEMMA InitInv == Init => IInv
<1> SUFFICES ASSUME Init PROVE IInv
  OBVIOUS
<1>1. TypeInv
  <2>1. \A s \in Sync : pc[s] = "idle" /\ listing[s] = <<>> /\ next[s] = 1
    BY DEF Init
  <2>2. TypeOK
    BY DEF Init, TypeOK, Label, Untouched
  <2>3. ASSUME NEW s \in Sync PROVE Placed(s)
    <3>1. pc[s] = "idle" /\ listing[s] = <<>> /\ next[s] = 1
      BY <2>1
    <3>2. Len(listing[s]) = 0
      BY <3>1
    <3>3. QED
      BY <3>1, <3>2 DEF Placed
  <2>4. QED
    BY <2>2, <2>3 DEF TypeInv
<1>2. \A s \in Sync : Held(s) /\ Grounded(s) /\ Covered(s) /\ Exact(s)
  BY DEF Init, Held, Grounded, Covered, Exact, Upserting, Untouched
<1>3. Exclusive /\ Quiet
  BY DEF Init, Exclusive, Quiet, Running, Ended, Untouched
<1>4. QED
  BY <1>1, <1>2, <1>3 DEF IInv

Idle == UNCHANGED <<local, writes, tables, overlapped>>

\* A step that only moves a handler on, or makes it raise.
LEMMA Moves ==
  ASSUME IInv, NEW s \in Sync, Running(s), NEW l \in Label \ {"write"}, Goto(s, l), Idle,
         l \in Ended => FALSE,
         l \in Upserting => pc[s] \in Upserting,
         l \in {"refresh", "list"} =>
           pc[s] = "token" /\ adv[s] \in DOMAIN AdAccount /\ AdAccount[adv[s]] \in Account,
         l # "token",
         l = "commit" => next[s] > Len(listing[s])
  PROVE  IInv'
<1> USE DEF Idle, local, writes, tables
<1>1. pc' = [pc EXCEPT ![s] = l] /\ pc \in [Sync -> Label]
  BY DEF Goto, IInv, TypeInv, TypeOK
<1>2. TypeOK'
  BY <1>1 DEF IInv, TypeInv, TypeOK
<1>3. ASSUME NEW q \in Sync PROVE Placed(q)'
  BY <1>1 DEF IInv, TypeInv, Placed, Label, Upserting, Running, Ended
<1>4. ASSUME NEW q \in Sync PROVE Held(q)'
  BY <1>1 DEF IInv, Held, Label, Upserting, Running, Ended
<1>5. ASSUME NEW q \in Sync PROVE Grounded(q)' /\ Covered(q)' /\ Exact(q)'
  <2>1. Grounded(q)'
    BY DEF IInv, Grounded, Table!Upserted, Table!Row
  <2>2. pc'[q] \in Upserting => pc[q] \in Upserting
    BY <1>1
  <2>3. pc'[q] = "write" => pc[q] = "write"
    BY <1>1
  <2>4. Covered(q)'
    BY <2>2, <2>3 DEF IInv, Covered, Effective, Current
  <2>5. Exact(q)'
    BY <2>2, <2>3 DEF IInv, Exact, Effective, Current, RowFor
  <2>6. QED
    BY <2>1, <2>4, <2>5
<1>6. Exclusive' /\ Quiet'
  BY <1>1 DEF IInv, Exclusive, Quiet, Running, Ended
<1>7. QED
  BY <1>2, <1>3, <1>4, <1>5, <1>6 DEF IInv, TypeInv

\* What a step leaves a sync to itself, it leaves its part of the invariant.
LEMMA Undisturbed ==
  ASSUME IInv, NEW q \in Sync,
         pc'[q] = pc[q], adv'[q] = adv[q], listing'[q] = listing[q], next'[q] = next[q],
         seen'[q] = seen[q], dirty'[q] = dirty[q], q \in refreshed' => q \in refreshed,
         UNCHANGED rows, q \in overlapped => q \in overlapped'
  PROVE  Placed(q)' /\ Held(q)' /\ Grounded(q)' /\ Covered(q)' /\ Exact(q)'
<1>1. Placed(q)'
  BY DEF IInv, TypeInv, Placed
<1>2. Held(q)'
  BY DEF IInv, Held
<1>3. Grounded(q)'
  BY DEF IInv, Grounded, Table!Upserted, Table!Row
<1>4. Covered(q)'
  BY DEF IInv, Covered, Effective, Current
<1>5. Exact(q)'
  BY DEF IInv, Exact, Effective, Current, RowFor
<1>6. QED
  BY <1>1, <1>2, <1>3, <1>4, <1>5

\* A step of one running sync that neither writes rows nor ends it.
LEMMA OwnStep ==
  ASSUME IInv, NEW s \in Sync, Running(s), NEW l \in Label \ Ended, Goto(s, l),
         UNCHANGED <<dirty, rows, overlapped>>,
         \A q \in Sync \ {s} :
           /\ adv'[q] = adv[q] /\ listing'[q] = listing[q] /\ next'[q] = next[q]
           /\ seen'[q] = seen[q] /\ (q \in refreshed' => q \in refreshed),
         TypeOK',
         Placed(s)' /\ Held(s)' /\ Grounded(s)' /\ Covered(s)' /\ Exact(s)'
  PROVE  IInv'
<1>1. pc' = [pc EXCEPT ![s] = l] /\ pc \in [Sync -> Label]
  BY DEF Goto, IInv, TypeInv, TypeOK
<1>2. ASSUME NEW q \in Sync
      PROVE  Placed(q)' /\ Held(q)' /\ Grounded(q)' /\ Covered(q)' /\ Exact(q)'
  <2>1. CASE q = s
    BY <2>1
  <2>2. CASE q # s
    BY <1>1, <2>2, Undisturbed
  <2>3. QED
    BY <2>1, <2>2
<1>3. Exclusive'
  BY DEF IInv, Exclusive
<1>4. Quiet'
  BY <1>1 DEF IInv, Quiet, Running
<1>5. QED
  BY <1>2, <1>3, <1>4 DEF IInv, TypeInv

\* A refresh only takes the lock on the token's row.
LEMMA RefreshTokenKeeps ==
  ASSUME IInv, NEW s \in Sync, RefreshToken(s)
  PROVE  IInv'
<1> USE DEF RefreshToken, local, tables
<1>1. pc' = [pc EXCEPT ![s] = "list"] /\ pc \in [Sync -> Label] /\ pc[s] = "refresh"
  BY DEF Goto, IInv, TypeInv, TypeOK
<1>2. TypeOK'
  BY <1>1 DEF IInv, TypeInv, TypeOK, Label
<1>3. Placed(s)'
  BY <1>1 DEF IInv, TypeInv, Placed
<1>4. Held(s)'
  BY <1>1 DEF IInv, Held, Upserting
<1>5. Grounded(s)'
  BY DEF IInv, Grounded, Table!Upserted, Table!Row
<1>6. Covered(s)' /\ Exact(s)'
  BY <1>1 DEF Covered, Exact, Upserting
<1>7. QED
  BY <1>1, <1>2, <1>3, <1>4, <1>5, <1>6, OwnStep DEF Running, Ended, Label

\* Nothing is written before the listing is there.
LEMMA ListPixelsKeeps ==
  ASSUME IInv, NEW s \in Sync, ListPixels(s)
  PROVE  IInv'
<1> USE DEF ListPixels, writes, tables
<1>1. PICK l \in Listing[AdAccount[adv[s]]] : listing' = [listing EXCEPT ![s] = l]
  OBVIOUS
<1>2. /\ pc' = [pc EXCEPT ![s] = "find"] /\ pc \in [Sync -> Label] /\ pc[s] = "list"
      /\ listing' \in [Sync -> {<<>>} \cup UNION {Listing[c] : c \in Account}]
      /\ listing'[s] = l /\ next[s] = 1 /\ dirty[s] = Untouched
      /\ adv[s] \in DOMAIN AdAccount /\ AdAccount[adv[s]] \in Account
      /\ \A q \in Sync \ {s} : listing'[q] = listing[q]
  <2>1. pc' = [pc EXCEPT ![s] = "find"] /\ pc \in [Sync -> Label] /\ pc[s] = "list"
    BY DEF Goto, IInv, TypeInv, TypeOK
  <2>2. adv[s] \in DOMAIN AdAccount /\ AdAccount[adv[s]] \in Account /\ next[s] = 1
    BY <2>1 DEF IInv, TypeInv, Placed
  <2>3. dirty[s] = Untouched
    BY <2>1 DEF IInv, Held, Upserting
  <2>4. listing \in [Sync -> {<<>>} \cup UNION {Listing[c] : c \in Account}]
    BY DEF IInv, TypeInv, TypeOK
  <2>5. l \in UNION {Listing[c] : c \in Account}
    BY <2>2
  <2>6. QED
    BY <1>1, <2>1, <2>2, <2>3, <2>4, <2>5
<1>3. TypeOK'
  BY <1>2 DEF IInv, TypeInv, TypeOK, Label
<1>4. Len(l) \in Nat
  BY <1>2, ListingAssumption
<1>5. Placed(s)'
  BY <1>2, <1>4 DEF IInv, TypeInv, Placed
<1>6. Held(s)'
  BY <1>2 DEF IInv, Held, Upserting
<1>7. Grounded(s)'
  BY <1>2 DEF Grounded, Untouched
<1>8. Covered(s)' /\ Exact(s)'
  BY <1>2 DEF Covered, Exact, Upserting
<1>9. QED
  BY <1>2, <1>3, <1>5, <1>6, <1>7, <1>8, OwnStep DEF Running, Ended, Label

\* A SELECT sees the committed row.
LEMMA FindPixelKeeps ==
  ASSUME IInv, NEW s \in Sync, FindPixel(s)
  PROVE  IInv'
<1> USE DEF FindPixel, writes, tables
<1>1. /\ pc' = [pc EXCEPT ![s] = "write"] /\ pc \in [Sync -> Label] /\ pc[s] = "find"
      /\ next[s] \in 1..Len(listing[s]) /\ Len(listing[s]) \in Nat
      /\ Current(s).pixel \in Pixel
  <2>1. TypeInv
    BY DEF IInv
  <2>2. Len(listing[s]) \in Nat /\ \A i \in 1..Len(listing[s]) : listing[s][i] \in Entry
    BY <2>1, ListingFacts
  <2>3. next[s] \in Nat \ {0}
    BY <2>1 DEF TypeInv, TypeOK
  <2>4. pc' = [pc EXCEPT ![s] = "write"] /\ pc \in [Sync -> Label] /\ pc[s] = "find"
    BY <2>1 DEF Goto, TypeInv, TypeOK
  <2>5. QED
    BY <2>2, <2>3, <2>4 DEF Current, Entry
<1>2. rows[Current(s).pixel] \in Row \cup {None}
  BY <1>1 DEF IInv, TypeInv, TypeOK
<1>3. /\ seen' \in [Sync -> Row \cup {None}]
      /\ seen'[s] = rows[Current(s).pixel]
      /\ \A q \in Sync \ {s} : seen'[q] = seen[q]
  BY <1>2 DEF IInv, TypeInv, TypeOK
<1>4. TypeOK'
  BY <1>1, <1>3 DEF IInv, TypeInv, TypeOK, Label
<1>5. Placed(s)'
  BY <1>1 DEF IInv, TypeInv, Placed
<1>6. Held(s)'
  BY <1>1 DEF IInv, Held, Upserting
<1>7. Grounded(s)'
  BY DEF IInv, Grounded, Table!Upserted, Table!Row
<1>8. Current(s)' = Current(s)
  BY DEF Current
<1>9. Covered(s)'
  BY <1>1, <1>3, <1>8 DEF IInv, Covered, Effective, Upserting
<1>10. Exact(s)'
  BY <1>1, <1>3, <1>8 DEF IInv, Exact, Effective, RowFor, Upserting
<1>11. QED
  BY <1>1, <1>3, <1>4, <1>5, <1>6, <1>7, <1>9, <1>10, OwnStep DEF Running, Ended, Label

\* An entry that needs no statement is covered by the row seen.
LEMMA KeepPixelKeeps ==
  ASSUME IInv, NEW s \in Sync, KeepPixel(s)
  PROVE  IInv'
<1> USE DEF KeepPixel, writes, tables
<1>1. /\ pc' = [pc EXCEPT ![s] = "find"] /\ pc \in [Sync -> Label] /\ pc[s] = "write"
      /\ next[s] \in Nat \ {0}
      /\ next' = [next EXCEPT ![s] = next[s] + 1]
      /\ next \in [Sync -> Nat \ {0}]
  BY DEF Goto, IInv, TypeInv, TypeOK
<1>2. /\ next[s] \in 1..Len(listing[s]) /\ Len(listing[s]) \in Nat
      /\ Current(s).pixel \in Pixel /\ Wanted(s) \in Row
      /\ \A i \in 1..(next[s] - 1) : i \in 1..Len(listing[s]) /\ i # next[s]
  BY <1>1, ListingFacts, CurrentFacts DEF IInv
<1>3. next'[s] = next[s] + 1 /\ \A q \in Sync \ {s} : next'[q] = next[q]
  BY <1>1
<1>4. \A i \in 1..(next'[s] - 1) : i = next[s] \/ i \in 1..(next[s] - 1)
  BY <1>1, <1>3
<1>5. dirty[s][Current(s).pixel] = None
  <2>1. \A i, j \in 1..Len(listing[s]) : listing[s][i].pixel = listing[s][j].pixel => i = j
    BY ListingFacts DEF IInv
  <2>2. \A i \in 1..(next[s] - 1) : listing[s][i].pixel # Current(s).pixel
    BY <1>2, <2>1 DEF Current
  <2>3. QED
    BY <1>2, <2>2 DEF IInv, Grounded
<1>6. rows[Current(s).pixel] # None
  BY <1>1, <1>2, NoneAssumption DEF IInv, Covered
<1>7. s \notin overlapped => rows[Current(s).pixel] = Wanted(s)
  BY <1>1 DEF IInv, Exact
<1>8. TypeOK'
  BY <1>1 DEF IInv, TypeInv, TypeOK, Label
<1>9. Placed(s)'
  BY <1>1, <1>2, <1>3 DEF IInv, TypeInv, Placed
<1>10. Held(s)'
  BY <1>1 DEF IInv, Held, Upserting
<1>11. Grounded(s)'
  <2>1. \A i \in 1..(next[s] - 1) : i \in 1..(next'[s] - 1)
    BY <1>1, <1>3
  <2>2. QED
    BY <2>1 DEF IInv, Grounded, Table!Upserted, Table!Row
<1>12. Covered(s)'
  BY <1>1, <1>4, <1>5, <1>6 DEF IInv, Covered, Effective, Upserting, Current
<1>13. Exact(s)'
  BY <1>1, <1>4, <1>5, <1>7 DEF IInv, Exact, Effective, RowFor, Wanted, Upserting, Current
<1>14. QED
  BY <1>1, <1>3, <1>8, <1>9, <1>10, <1>11, <1>12, <1>13, OwnStep DEF Running, Ended, Label

\* A write adds one row to the session's, a row that nobody else has locked.
LEMMA WroteKeeps ==
  ASSUME IInv, NEW s \in Sync, pc[s] = "write", Unlocked(s),
         NEW row \in Row, Wrote(s, row),
         Table!Upserted(row, rows[Current(s).pixel], adv[s], Current(s)),
         s \notin overlapped => row = Wanted(s)
  PROVE  IInv'
<1> USE DEF Wrote, tables
<1> DEFINE p == Current(s).pixel
<1>1. /\ pc' = [pc EXCEPT ![s] = "find"] /\ pc \in [Sync -> Label]
      /\ next' = [next EXCEPT ![s] = next[s] + 1]
      /\ next \in [Sync -> Nat \ {0}]
      /\ dirty' = [dirty EXCEPT ![s][p] = row]
      /\ dirty \in [Sync -> [Pixel -> Row \cup {None}]]
  BY DEF Goto, IInv, TypeInv, TypeOK
<1>2. /\ next[s] \in 1..Len(listing[s]) /\ Len(listing[s]) \in Nat /\ p \in Pixel
      /\ \A i \in 1..Len(listing[s]) : listing[s][i].pixel \in Pixel
  BY ListingFacts, CurrentFacts DEF IInv, Entry
<1>3. /\ next'[s] = next[s] + 1 /\ next'[s] \in Nat \ {0}
      /\ \A q \in Sync \ {s} : next'[q] = next[q] /\ dirty'[q] = dirty[q]
      /\ dirty'[s] = [dirty[s] EXCEPT ![p] = row]
      /\ dirty'[s] \in [Pixel -> Row \cup {None}]
  BY <1>1, <1>2
<1>4. /\ dirty'[s][p] = row /\ row # None
      /\ \A x \in Pixel \ {p} : dirty'[s][x] = dirty[s][x]
  BY <1>1, <1>2, <1>3, NoneAssumption
<1>5. \A i \in 1..(next'[s] - 1) : i = next[s] \/ i \in 1..(next[s] - 1)
  BY <1>2, <1>3
<1>6. \A i \in 1..(next[s] - 1) : i \in 1..(next'[s] - 1) /\ i \in 1..Len(listing[s])
  BY <1>2, <1>3
<1>7. \A i \in 1..(next[s] - 1) : listing[s][i].pixel \in Pixel \ {p}
  <2>1. \A i, j \in 1..Len(listing[s]) : listing[s][i].pixel = listing[s][j].pixel => i = j
    BY ListingFacts DEF IInv
  <2>2. \A i \in 1..(next[s] - 1) : i # next[s]
    BY <1>2
  <2>3. QED
    BY <1>2, <1>6, <2>1, <2>2 DEF Current
<1> HIDE DEF p
<1>8. TypeOK'
  <2>1. dirty' \in [Sync -> [Pixel -> Row \cup {None}]]
    BY <1>1, <1>3
  <2>2. pc' \in [Sync -> Label] /\ next' \in [Sync -> Nat \ {0}]
    BY <1>1, <1>3 DEF Label
  <2>3. QED
    BY <2>1, <2>2 DEF IInv, TypeInv, TypeOK
<1>9. ASSUME NEW q \in Sync
      PROVE  Placed(q)' /\ Held(q)' /\ Grounded(q)' /\ Covered(q)' /\ Exact(q)'
  <2>1. CASE q # s
    BY <1>1, <1>3, <2>1, Undisturbed
  <2>2. CASE q = s
    <3>1. Placed(s)'
      BY <1>1, <1>2, <1>3 DEF IInv, TypeInv, Placed
    <3>2. Held(s)'
      BY <1>1 DEF IInv, Held, Upserting
    <3>3. Grounded(s)'
      <4>1. SUFFICES ASSUME NEW x \in Pixel, dirty'[s][x] # None
                     PROVE  \E i \in 1..(next'[s] - 1) :
                              /\ listing[s][i].pixel = x
                              /\ Table!Upserted(dirty'[s][x], rows[x], adv[s], listing[s][i])
        BY DEF Grounded, Table!Upserted, Table!Row
      <4>2. CASE x = p
        <5>1. next[s] \in 1..(next'[s] - 1) /\ listing[s][next[s]].pixel = p
          BY <1>2, <1>3 DEF p, Current
        <5>2. Table!Upserted(dirty'[s][p], rows[p], adv[s], listing[s][next[s]])
          BY <1>4 DEF p, Current
        <5>3. QED
          BY <4>2, <5>1, <5>2
      <4>3. CASE x # p
        <5>1. dirty[s][x] # None /\ dirty'[s][x] = dirty[s][x]
          BY <1>4, <4>1, <4>3
        <5>2. QED
          BY <1>6, <5>1 DEF IInv, Grounded
      <4>4. QED
        BY <4>2, <4>3
    <3>4. Covered(s)'
      BY <1>1, <1>4, <1>5, <1>7 DEF IInv, Covered, Effective, Upserting, Current, p
    <3>5. Exact(s)'
      BY <1>1, <1>4, <1>5, <1>7 DEF IInv, Exact, Effective, RowFor, Wanted, Upserting, Current, p
    <3>6. QED
      BY <2>2, <3>1, <3>2, <3>3, <3>4, <3>5
  <2>3. QED
    BY <2>1, <2>2
<1>10. Exclusive'
  <2>1. \A q \in Sync \ {s} : dirty[q][p] = None
    BY DEF Unlocked, Others, RowHeldBy, p
  <2>2. QED
    BY <1>2, <1>3, <1>4, <2>1 DEF IInv, Exclusive
<1>11. Quiet'
  BY <1>1 DEF IInv, Quiet, Running, Ended
<1>12. QED
  BY <1>8, <1>9, <1>10, <1>11 DEF IInv, TypeInv

\* An insert of a pixel keeps the invariant.
LEMMA InsertPixelKeeps ==
  ASSUME IInv, NEW s \in Sync, InsertPixel(s)
  PROVE  IInv'
<1>1. Wanted(s) \in Row
  BY CurrentFacts DEF IInv, InsertPixel
<1>2. Table!Upserted(Wanted(s), rows[Current(s).pixel], adv[s], Current(s))
  BY <1>1 DEF Wanted, RowFor, Table!Upserted, Table!Row, Row
<1>3. QED
  BY <1>1, <1>2, WroteKeeps DEF InsertPixel

\* An update of a pixel keeps the invariant.
LEMMA UpdatePixelKeeps ==
  ASSUME IInv, NEW s \in Sync, UpdatePixel(s)
  PROVE  IInv'
<1> DEFINE old == rows[Current(s).pixel]
           row == Changed(old, seen[s], Wanted(s))
<1>1. Wanted(s) \in Row /\ Current(s).pixel \in Pixel
  BY CurrentFacts DEF IInv, UpdatePixel
<1>2. seen[s] \in Row
  BY DEF IInv, TypeInv, TypeOK, UpdatePixel
<1>3. old \in Row /\ old # None
  BY <1>1 DEF IInv, TypeInv, TypeOK, Covered, UpdatePixel
<1>4. /\ row \in Row
      /\ row.owner \in {Wanted(s).owner, old.owner}
      /\ row.name \in {Wanted(s).name, old.name}
      /\ row.status \in {Wanted(s).status, old.status}
      /\ old = seen[s] => row = Wanted(s)
  BY <1>1, <1>2, <1>3, ChangedFacts
<1>5. s \notin overlapped => old = seen[s]
  BY DEF IInv, Exact, UpdatePixel
<1>6. Wanted(s).owner = adv[s] /\ Wanted(s).name = Current(s).name
        /\ Wanted(s).status = Current(s).status
  BY DEF Wanted, RowFor
<1>7. Unlocked(s) /\ Wrote(s, row) /\ pc[s] = "write"
  BY DEF UpdatePixel
<1> HIDE DEF row
<1>8. Table!Upserted(row, old, adv[s], Current(s))
  BY <1>3, <1>4, <1>6 DEF Table!Upserted, Table!Row, Row
<1>9. QED
  BY <1>4, <1>5, <1>7, <1>8, WroteKeeps

\* A sync that ends without a commit leaves no trace.
LEMMA ReleaseKeeps ==
  ASSUME IInv, NEW s \in Sync, Release(s), Goto(s, "failed"),
         UNCHANGED <<local, tables, overlapped>>, Running(s)
  PROVE  IInv'
<1> USE DEF Release, local, tables
<1>1. /\ pc' = [pc EXCEPT ![s] = "failed"] /\ pc \in [Sync -> Label]
      /\ dirty' = [dirty EXCEPT ![s] = Untouched]
      /\ dirty \in [Sync -> [Pixel -> Row \cup {None}]]
  BY DEF Goto, IInv, TypeInv, TypeOK
<1>2. TypeOK'
  BY <1>1 DEF IInv, TypeInv, TypeOK, Label, Untouched
<1>3. ASSUME NEW q \in Sync
      PROVE  Placed(q)' /\ Held(q)' /\ Grounded(q)' /\ Covered(q)' /\ Exact(q)'
  <2>1. CASE q # s
    BY <1>1, <2>1, Undisturbed
  <2>2. CASE q = s
    <3>1. Placed(s)'
      BY <1>1 DEF IInv, TypeInv, Placed, Running, Ended
    <3>2. Held(s)' /\ Grounded(s)' /\ Covered(s)' /\ Exact(s)'
      BY <1>1 DEF Held, Grounded, Covered, Exact, Upserting, Untouched
    <3>3. QED
      BY <2>2, <3>1, <3>2
  <2>3. QED
    BY <2>1, <2>2
<1>4. Exclusive'
  BY <1>1 DEF IInv, Exclusive, Untouched
<1>5. Quiet'
  BY <1>1 DEF IInv, Quiet, Running, Ended
<1>6. QED
  BY <1>2, <1>3, <1>4, <1>5 DEF IInv, TypeInv

\* A commit disturbs no row that another sync has locked, and no sync that runs alone.
LEMMA CommitKeeps ==
  ASSUME IInv, NEW s \in Sync, Commit(s)
  PROVE  IInv'
<1> USE DEF Commit, Release, local
<1>1. /\ pc' = [pc EXCEPT ![s] = "done"] /\ pc \in [Sync -> Label] /\ pc[s] = "commit"
      /\ dirty' = [dirty EXCEPT ![s] = Untouched]
      /\ dirty \in [Sync -> [Pixel -> Row \cup {None}]]
      /\ rows \in [Pixel -> Row \cup {None}]
      /\ \A q \in Sync \ {s} : pc'[q] = pc[q] /\ dirty'[q] = dirty[q]
  BY DEF Goto, IInv, TypeInv, TypeOK
<1>2. /\ rows' \in [Pixel -> Row \cup {None}]
      /\ \A p \in Pixel : rows'[p] = Effective(s, p)
      /\ \A p \in Pixel : rows[p] # None => rows'[p] # None
  BY <1>1 DEF Effective
<1>3. oauth' \in [Advertiser -> Token]
  <2>1. oauth \in [Advertiser -> Token]
    BY DEF IInv, TypeInv, TypeOK
  <2>2. "valid" \in Token
    BY DEF Token
  <2>3. QED
    BY <2>1, <2>2
<1>4. TypeOK'
  BY <1>1, <1>2, <1>3 DEF IInv, TypeInv, TypeOK, Label, Untouched
<1>5. ASSUME NEW q \in Sync \ {s}, NEW p \in Pixel, dirty[q][p] # None
      PROVE  rows'[p] = rows[p]
  BY <1>2, <1>5 DEF IInv, Exclusive, Effective
<1>6. \A q \in Sync \ {s} : pc[q] \in Upserting => q \in overlapped
  BY <1>1 DEF IInv, Quiet, Running, Ended, Upserting
<1>7. \A q \in Sync : \A i \in 1..(next[q] - 1) : listing[q][i].pixel \in Pixel
  <2>1. SUFFICES ASSUME NEW q \in Sync, NEW i \in 1..(next[q] - 1)
                 PROVE  listing[q][i].pixel \in Pixel
    OBVIOUS
  <2>2. TypeInv /\ next[q] \in Nat \ {0} /\ next[q] <= Len(listing[q]) + 1
    BY DEF IInv, TypeInv, TypeOK, Placed
  <2>3. Len(listing[q]) \in Nat /\ \A j \in 1..Len(listing[q]) : listing[q][j] \in Entry
    BY <2>2, ListingFacts
  <2>4. i \in 1..Len(listing[q])
    BY <2>2, <2>3
  <2>5. QED
    BY <2>3, <2>4 DEF Entry
<1>8. ASSUME NEW q \in Sync
      PROVE  Placed(q)' /\ Held(q)' /\ Grounded(q)' /\ Covered(q)' /\ Exact(q)'
  <2>1. CASE q # s
    <3>1. Placed(q)'
      BY <1>1, <2>1 DEF IInv, TypeInv, Placed
    <3>2. Held(q)'
      BY <1>1, <2>1 DEF IInv, Held
    <3>3. Grounded(q)'
      <4>1. SUFFICES ASSUME NEW p \in Pixel, dirty[q][p] # None
                     PROVE  \E i \in 1..(next[q] - 1) :
                              /\ listing[q][i].pixel = p
                              /\ Table!Upserted(dirty[q][p], rows'[p], adv[q], listing[q][i])
        BY <1>1, <2>1 DEF Grounded, Table!Upserted, Table!Row
      <4>2. rows'[p] = rows[p]
        BY <1>5, <2>1, <4>1
      <4>3. QED
        BY <4>1, <4>2 DEF IInv, Grounded
    <3>4. Covered(q)'
      <4>1. \A i \in 1..(next[q] - 1) :
              Effective(q, listing[q][i].pixel) # None =>
                Effective(q, listing[q][i].pixel)' # None
        BY <1>1, <1>2, <1>7, <2>1 DEF Effective
      <4>2. pc[q] = "write" => Current(q).pixel \in Pixel
        BY CurrentFacts DEF IInv
      <4>3. QED
        BY <1>1, <1>2, <2>1, <4>1, <4>2 DEF IInv, Covered, Current
    <3>5. Exact(q)'
      BY <1>1, <1>6, <2>1 DEF Exact, Upserting
    <3>6. QED
      BY <3>1, <3>2, <3>3, <3>4, <3>5
  <2>2. CASE q = s
    <3>1. Placed(s)'
      BY <1>1 DEF IInv, TypeInv, Placed
    <3>2. Held(s)' /\ Grounded(s)' /\ Covered(s)' /\ Exact(s)'
      BY <1>1 DEF Held, Grounded, Covered, Exact, Upserting, Untouched
    <3>3. QED
      BY <2>2, <3>1, <3>2
  <2>3. QED
    BY <2>1, <2>2
<1>9. Exclusive'
  BY <1>1 DEF IInv, Exclusive, Untouched
<1>10. Quiet'
  BY <1>1 DEF IInv, Quiet, Running, Ended
<1>11. QED
  BY <1>4, <1>8, <1>9, <1>10 DEF IInv, TypeInv

\* Whoever comes while others run makes them and itself known as overlapped.
LEMMA ReceiveKeeps ==
  ASSUME IInv, NEW s \in Sync, Receive(s)
  PROVE  IInv'
<1> USE DEF Receive, writes, tables
<1>1. PICK a \in Advertiser : adv' = [adv EXCEPT ![s] = a]
  OBVIOUS
<1>2. /\ pc' = [pc EXCEPT ![s] = "token"] /\ pc \in [Sync -> Label] /\ pc[s] = "idle"
      /\ adv \in [Sync -> Advertiser \cup {None}]
      /\ listing[s] = <<>> /\ next[s] = 1
  BY DEF Goto, IInv, TypeInv, TypeOK, Placed
<1>3. overlapped \subseteq overlapped' /\ overlapped' \subseteq Sync
  BY DEF IInv, TypeInv, TypeOK, Others
<1>4. TypeOK'
  BY <1>1, <1>2, <1>3 DEF IInv, TypeInv, TypeOK, Label
<1>5. ASSUME NEW q \in Sync
      PROVE  Placed(q)' /\ Held(q)' /\ Grounded(q)' /\ Covered(q)' /\ Exact(q)'
  <2>1. CASE q # s
    BY <1>1, <1>2, <1>3, <2>1, Undisturbed
  <2>2. CASE q = s
    <3>1. Placed(s)'
      <4>1. Len(listing[s]) = 0
        BY <1>2
      <4>2. QED
        BY <1>1, <1>2, <4>1 DEF Placed
    <3>2. dirty[s] = Untouched /\ s \notin refreshed
      BY <1>2 DEF IInv, Held, Upserting
    <3>3. Held(s)' /\ Grounded(s)' /\ Covered(s)' /\ Exact(s)'
      BY <1>2, <3>2 DEF Held, Grounded, Covered, Exact, Upserting, Untouched
    <3>4. QED
      BY <2>2, <3>1, <3>3
  <2>3. QED
    BY <2>1, <2>2
<1>6. Exclusive'
  BY DEF IInv, Exclusive
<1>7. Quiet'
  <2>1. SUFFICES ASSUME NEW q \in Sync, NEW t \in Sync, q # t, Running(q)', Running(t)'
                 PROVE  q \in overlapped'
    BY DEF Quiet
  <2>2. CASE q = s
    <3>1. Running(t)
      BY <1>2, <2>1, <2>2 DEF Running
    <3>2. QED
      BY <2>1, <2>2, <3>1 DEF Others
  <2>3. CASE q # s
    <3>1. Running(q)
      BY <1>2, <2>1, <2>3 DEF Running
    <3>2. QED
      BY <2>3, <3>1 DEF Others
  <2>4. QED
    BY <2>2, <2>3
<1>8. QED
  BY <1>4, <1>5, <1>6, <1>7 DEF IInv, TypeInv

\* Every step that only raises.
LEMMA RaiseKeeps ==
  ASSUME IInv, NEW s \in Sync, Running(s), Raise(s), Idle
  PROVE  IInv'
<1>1. "rollback" \in Label \ {"write"} /\ "rollback" \notin Ended
        /\ "rollback" \notin Upserting
  BY DEF Label, Ended, Upserting
<1>2. Goto(s, "rollback")
  BY DEF Raise
<1>3. QED
  BY <1>1, <1>2, Moves

\* Checking the advertiser keeps the invariant.
LEMMA AuthorizeKeeps ==
  ASSUME IInv, NEW s \in Sync, Authorize(s)
  PROVE  IInv'
<1>1. Running(s) /\ Idle /\ pc[s] = "token"
  BY DEF Authorize, Running, Ended, Idle
<1>2. CASE Raise(s)
  BY <1>1, <1>2, RaiseKeeps
<1>3. CASE ~Raise(s)
  <2>1. adv[s] \in DOMAIN AdAccount /\ AdAccount[adv[s]] # None
    BY <1>3 DEF Authorize
  <2>2. AdAccount[adv[s]] \in Account
    BY <2>1, AdAccountAssumption
  <2>3. PICK l \in {"list", "refresh"} : Goto(s, l)
    BY <1>3 DEF Authorize
  <2>4. l \in Label \ {"write"} /\ l \notin Ended /\ l \notin Upserting
    BY DEF Label, Ended, Upserting
  <2>5. QED
    BY <1>1, <2>1, <2>2, <2>3, <2>4, Moves
<1>4. QED
  BY <1>2, <1>3

\* Returning the listing's rows keeps the invariant.
LEMMA ReturnKeeps ==
  ASSUME IInv, NEW s \in Sync, Return(s)
  PROVE  IInv'
<1>1. "commit" \in Label \ {"write"} /\ "commit" \notin Ended
  BY DEF Label, Ended
<1>2. Running(s) /\ Idle /\ Goto(s, "commit") /\ pc[s] \in Upserting
        /\ next[s] > Len(listing[s])
  BY DEF Return, Running, Ended, Idle, Upserting
<1>3. QED
  BY <1>1, <1>2, Moves

\* Who waits stands at a refresh or at a write.
LEMMA WaitsAt ==
  ASSUME NEW s \in Sync, NEW q \in Sync, Waits(s, q)
  PROVE  pc[s] \in {"refresh", "write"}
BY DEF Waits

\* Every step keeps the invariant.
LEMMA NextInv == IInv /\ [Next]_vars => IInv'
<1> SUFFICES ASSUME IInv, [Next]_vars PROVE IInv'
  OBVIOUS
<1>1. ASSUME UNCHANGED vars PROVE IInv'
  BY <1>1 DEF vars, local, writes, tables, IInv, TypeInv, TypeOK, Placed, Held, Grounded,
              Table!Upserted, Table!Row, Covered, Exact, Effective, RowFor, Current,
              Exclusive, Quiet, Running
<1>2. ASSUME NEW s \in Sync, Receive(s) PROVE IInv'
  BY <1>2, ReceiveKeeps
<1>3. ASSUME NEW s \in Sync, Step(s) PROVE IInv'
  <2>1. CASE ListFails(s)
    BY <2>1, RaiseKeeps DEF ListFails, Running, Ended, Idle
  <2>2. CASE InsertConflicts(s)
    BY <2>2, RaiseKeeps DEF InsertConflicts, Running, Ended, Idle
  <2>3. CASE Rollback(s)
    BY <2>3, ReleaseKeeps DEF Rollback, Running, Ended
  <2>4. QED
    BY <1>3, <2>1, <2>2, <2>3, AuthorizeKeeps, RefreshTokenKeeps, ListPixelsKeeps,
       FindPixelKeeps, InsertPixelKeeps, UpdatePixelKeeps, KeepPixelKeeps, ReturnKeeps,
       CommitKeeps
       DEF Step
<1>4. ASSUME NEW s \in Sync, DeadlockVictim(s) PROVE IInv'
  <2>1. Running(s)
    BY <1>4, WaitsAt DEF DeadlockVictim, OnCycle, Running, Ended
  <2>2. QED
    BY <1>4, <2>1, RaiseKeeps DEF DeadlockVictim, Idle
<1>5. ASSUME NEW s \in Sync, Fault(s) PROVE IInv'
  <2>1. CASE StatementFails(s)
    BY <2>1, RaiseKeeps DEF StatementFails, Running, Ended, Idle
  <2>2. CASE Crash(s)
    BY <2>2, ReleaseKeeps DEF Crash
  <2>3. QED
    BY <1>5, <2>1, <2>2 DEF Fault
<1>6. ASSUME NEW a \in Advertiser, TokenExpires(a) \/ TokenRefreshed(a) PROVE IInv'
  <2> USE <1>6 DEF TokenExpires, TokenRefreshed, local, writes
  <2>1. oauth' \in [Advertiser -> Token]
    BY DEF IInv, TypeInv, TypeOK, Token
  <2>2. TypeOK'
    BY <2>1 DEF IInv, TypeInv, TypeOK
  <2>3. ASSUME NEW q \in Sync
        PROVE  Placed(q)' /\ Held(q)' /\ Grounded(q)' /\ Covered(q)' /\ Exact(q)'
    BY Undisturbed
  <2>4. Exclusive' /\ Quiet'
    BY DEF IInv, Exclusive, Quiet, Running
  <2>5. QED
    BY <2>2, <2>3, <2>4 DEF IInv, TypeInv
<1>7. CASE Terminating
  BY <1>1, <1>7 DEF Terminating
<1>8. QED
  BY <1>1, <1>2, <1>3, <1>4, <1>5, <1>6, <1>7 DEF Next

\* IInv holds in every reachable state.
THEOREM Invariance == Spec => []IInv
<1>1. QED
  BY InitInv, NextInv, PTL DEF Spec

\* Every variable stays within its type, for any number of syncs and pixels.
THEOREM SyncTypes == Spec => []TypeOK
<1>1. IInv => TypeOK
  BY DEF IInv, TypeInv
<1>2. QED
  BY <1>1, Invariance, PTL
-----------------------------------------------------------------------------
\* No other step writes the table.
LEMMA OnlyCommitWrites ==
  ASSUME [Next]_vars, rows' # rows
  PROVE  \E s \in Sync : Commit(s)
<1> USE DEF local, writes, tables
<1>1. ~UNCHANGED vars
  BY DEF vars
<1>2. \A s \in Sync : ~Receive(s) /\ ~DeadlockVictim(s)
  BY DEF Receive, DeadlockVictim
<1>3. \A s \in Sync : ~Fault(s)
  BY DEF Fault, StatementFails, Crash
<1>4. \A a \in Advertiser : ~TokenExpires(a) /\ ~TokenRefreshed(a)
  BY DEF TokenExpires, TokenRefreshed
<1>5. ASSUME NEW s \in Sync, Step(s) PROVE Commit(s)
  <2>1. ~Authorize(s) /\ ~RefreshToken(s) /\ ~ListPixels(s) /\ ~ListFails(s)
    BY DEF Authorize, RefreshToken, ListPixels, ListFails
  <2>2. ~FindPixel(s) /\ ~InsertPixel(s) /\ ~InsertConflicts(s) /\ ~UpdatePixel(s)
    BY DEF FindPixel, InsertPixel, InsertConflicts, UpdatePixel, Wrote
  <2>3. ~KeepPixel(s) /\ ~Return(s) /\ ~Rollback(s)
    BY DEF KeepPixel, Return, Rollback
  <2>4. QED
    BY <1>5, <2>1, <2>2, <2>3 DEF Step
<1>6. QED
  BY <1>1, <1>2, <1>3, <1>4, <1>5 DEF Next, Terminating

\* At its commit a sync is done with its whole listing.
LEMMA AtCommit ==
  ASSUME IInv, NEW s \in Sync, Commit(s)
  PROVE  /\ pc[s] = "commit" /\ pc'[s] = "done"
         /\ UNCHANGED <<adv, listing, overlapped>>
         /\ rows' = [p \in Pixel |-> Effective(s, p)]
         /\ \A i \in 1..Len(listing[s]) :
              i \in 1..(next[s] - 1) /\ listing[s][i].pixel \in Pixel
<1>1. pc[s] = "commit" /\ pc'[s] = "done"
  BY DEF Commit, Goto, IInv, TypeInv, TypeOK
<1>2. Len(listing[s]) \in Nat /\ \A i \in 1..Len(listing[s]) : listing[s][i] \in Entry
  BY ListingFacts DEF IInv
<1>3. next[s] \in Nat \ {0} /\ next[s] > Len(listing[s])
  BY <1>1 DEF IInv, TypeInv, TypeOK, Placed
<1>4. QED
  BY <1>1, <1>2, <1>3 DEF Commit, local, Effective, Entry

\* The table changes at the end of a successful sync only, and one that ran
\* alone leaves what Meta listed: for any number of concurrent syncs.
THEOREM AllOrNothing == Spec => SyncIsAllOrNothing
<1>1. ASSUME IInv, [Next]_vars, rows' # rows
      PROVE  \E s \in Sync :
               /\ Running(s) /\ pc'[s] = "done"
               /\ s \notin overlapped =>
                    \A e \in Entries(s) : rows'[e.pixel] = RowFor(s, e)
  <2>1. PICK s \in Sync : Commit(s)
    BY <1>1, OnlyCommitWrites
  <2>2. Running(s) /\ pc'[s] = "done"
    BY <1>1, <2>1, AtCommit DEF Running, Ended
  <2>3. ASSUME s \notin overlapped, NEW e \in Entries(s)
        PROVE  rows'[e.pixel] = RowFor(s, e)
    <3>1. PICK i \in 1..Len(listing[s]) : e = listing[s][i]
      BY <2>3 DEF Entries
    <3>2. i \in 1..(next[s] - 1) /\ e.pixel \in Pixel /\ rows'[e.pixel] = Effective(s, e.pixel)
      BY <1>1, <2>1, <3>1, AtCommit
    <3>3. Effective(s, e.pixel) = RowFor(s, e)
      BY <1>1, <2>1, <2>3, <3>1, <3>2, AtCommit DEF IInv, Exact, Upserting
    <3>4. QED
      BY <3>2, <3>3
  <2>4. QED
    BY <2>1, <2>2, <2>3
<1>2. QED
  BY <1>1, Invariance, PTL DEF Spec, SyncIsAllOrNothing

-----------------------------------------------------------------------------
Shown == {<<AdAccount[adv[s]], listing[s]>> : s \in {q \in Sync : listing[q] # <<>>}}

\* A sync never asks Meta twice, and never changes its advertiser.
LEMMA ListingStays ==
  ASSUME IInv, [Next]_vars, NEW s \in Sync, listing[s] # <<>>
  PROVE  listing'[s] = listing[s] /\ adv'[s] = adv[s]
<1> USE DEF local
<1>1. pc[s] \notin {"idle", "list"}
  BY DEF IInv, TypeInv, Placed
<1>2. ASSUME NEW q \in Sync, Receive(q) PROVE listing'[s] = listing[s] /\ adv'[s] = adv[s]
  BY <1>1, <1>2 DEF Receive, IInv, TypeInv, TypeOK
<1>3. ASSUME NEW q \in Sync, Step(q) PROVE listing'[s] = listing[s] /\ adv'[s] = adv[s]
  <2>1. CASE ListPixels(q)
    BY <1>1, <2>1 DEF ListPixels, IInv, TypeInv, TypeOK
  <2>2. CASE Authorize(q) \/ RefreshToken(q) \/ ListFails(q)
    BY <2>2 DEF Authorize, RefreshToken, ListFails
  <2>3. CASE FindPixel(q) \/ InsertPixel(q) \/ InsertConflicts(q) \/ UpdatePixel(q)
    BY <2>3 DEF FindPixel, InsertPixel, InsertConflicts, UpdatePixel, Wrote
  <2>4. CASE KeepPixel(q) \/ Return(q) \/ Commit(q) \/ Rollback(q)
    BY <2>4 DEF KeepPixel, Return, Commit, Rollback
  <2>5. QED
    BY <1>3, <2>1, <2>2, <2>3, <2>4 DEF Step
<1>4. QED
  BY <1>2, <1>3
     DEF Next, DeadlockVictim, Fault, StatementFails, Crash, TokenExpires, TokenRefreshed, Terminating, vars

\* One commit is one sync of the abstract table; other steps only show listings.
LEMMA StepImplements ==
  ASSUME IInv, [Next]_vars
  PROVE  Table!Next \/ UNCHANGED <<rows, Shown>>
<1>1. Shown \subseteq Shown'
  <2>1. SUFFICES ASSUME NEW s \in Sync, listing[s] # <<>>
                 PROVE  <<AdAccount[adv[s]], listing[s]>> \in Shown'
    BY DEF Shown
  <2>2. listing'[s] = listing[s] /\ adv'[s] = adv[s]
    BY <2>1, ListingStays
  <2>3. QED
    BY <2>1, <2>2 DEF Shown
<1>2. CASE rows' = rows
  BY <1>1, <1>2 DEF Table!Next, Table!List, Shown
<1>3. CASE rows' # rows
  <2>1. PICK s \in Sync : Commit(s)
    BY <1>3, OnlyCommitWrites
  <2>2. /\ UNCHANGED <<adv, listing>>
        /\ rows' = [p \in Pixel |-> Effective(s, p)]
        /\ \A i \in 1..Len(listing[s]) :
             i \in 1..(next[s] - 1) /\ listing[s][i].pixel \in Pixel
        /\ pc[s] = "commit"
    BY <2>1, AtCommit
  <2>3. /\ listing[s] \in Seq(Entry) /\ Len(listing[s]) \in Nat
        /\ DOMAIN listing[s] = 1..Len(listing[s])
    BY ListingFacts DEF IInv
  <2>4. \A i \in 1..(next[s] - 1) : i \in 1..Len(listing[s])
    BY <2>3 DEF IInv, TypeInv, TypeOK, Placed
  <2>5. listing[s] # <<>>
    <3>1. SUFFICES ASSUME listing[s] = <<>> PROVE FALSE
      OBVIOUS
    <3>2. Len(listing[s]) = 0
      BY <3>1
    <3>3. \A p \in Pixel : dirty[s][p] = None
      BY <2>3, <2>4, <3>2 DEF IInv, Grounded
    <3>4. rows' = rows
      BY <2>2, <3>3 DEF Effective, IInv, TypeInv, TypeOK
    <3>5. QED
      BY <1>3, <3>4
  <2>6. adv[s] \in DOMAIN AdAccount
    BY <2>5 DEF IInv, TypeInv, Placed
  <2>7. <<AdAccount[adv[s]], listing[s]>> \in Shown /\ UNCHANGED Shown
    BY <2>2, <2>5 DEF Shown
  <2>8. ASSUME NEW p \in Pixel
        PROVE  LET listed == {i \in DOMAIN listing[s] : listing[s][i].pixel = p}
               IN  IF listed = {} THEN rows'[p] = rows[p]
                   ELSE \E i \in listed :
                          Table!Upserted(rows'[p], rows[p], adv[s], listing[s][i])
    <3> DEFINE listed == {i \in DOMAIN listing[s] : listing[s][i].pixel = p}
    <3>1. rows'[p] = Effective(s, p)
      BY <2>2
    <3>2. CASE dirty[s][p] # None
      <4>1. PICK i \in 1..(next[s] - 1) :
              /\ listing[s][i].pixel = p
              /\ Table!Upserted(dirty[s][p], rows[p], adv[s], listing[s][i])
        BY <3>2 DEF IInv, Grounded
      <4>2. i \in listed
        BY <2>3, <2>4, <4>1
      <4>3. QED
        BY <3>1, <3>2, <4>1, <4>2 DEF Effective
    <3>3. CASE dirty[s][p] = None
      <4>1. rows'[p] = rows[p]
        BY <3>1, <3>3 DEF Effective
      <4>2. ASSUME NEW i \in listed
            PROVE  Table!Upserted(rows'[p], rows[p], adv[s], listing[s][i])
        <5>1. Effective(s, p) # None
          BY <2>2, <2>3 DEF IInv, Covered, Upserting
        <5>2. rows[p] # None /\ rows[p] \in Row
          BY <3>1, <4>1, <5>1 DEF IInv, TypeInv, TypeOK
        <5>3. QED
          BY <4>1, <5>2 DEF Table!Upserted, Table!Row, Row
      <4>3. QED
        BY <4>1, <4>2
    <3>4. QED
      BY <3>2, <3>3
  <2>9. \E x \in Shown : Table!Reconcile(adv[s], x[2])
    <3>1. Table!Reconcile(adv[s], listing[s])
      BY <2>7, <2>8 DEF Table!Reconcile, Shown
    <3>2. QED
      BY <2>7, <3>1
  <2>10. QED
    BY <2>6, <2>9 DEF Table!Next, Shown
<1>4. QED
  BY <1>2, <1>3

\* The handlers implement the abstract table, whatever the interleaving of
\* their upserts and however many fail.
THEOREM TableImplemented == Spec => ImplementsTable
<1>1. Init => Table!Init
  BY DEF Init, Table!Init, Untouched
<1>2. IInv /\ [Next]_vars => [Table!Next]_(Table!vars)
  BY StepImplements DEF Table!vars, Shown
<1>3. QED
  BY <1>1, <1>2, Invariance, PTL DEF Spec, ImplementsTable, Table!Spec
-----------------------------------------------------------------------------
\* How far along the locks a waiting sync is: the token's row comes first, then
\* the pixels' rows by rank.
Place(s) == IF pc[s] = "refresh" THEN 0 ELSE Rank[Current(s).pixel] + 1

\* A sync's place in the table's order is a natural number.
LEMMA PlaceIsNat ==
  ASSUME IInv, NEW s \in Sync, pc[s] \in {"refresh", "write"}
  PROVE  Place(s) \in Nat
BY CurrentFacts, RankAssumption DEF IInv, Place

\* Among sorted syncs, who is waited for and waits as well is further along.
LEMMA WaitsUpwards ==
  ASSUME IInv, NEW s \in Sync, NEW q \in Sync, NEW t \in Sync,
         Waits(s, q), Waits(q, t), Sorted(listing[q])
  PROVE  Place(s) < Place(q)
<1>1. pc[s] \in {"refresh", "write"} /\ pc[q] \in {"refresh", "write"}
  BY DEF Waits
<1>2. CASE pc[s] = "refresh"
  <2>1. q \in refreshed
    BY <1>2 DEF Waits, TokenHeldBy
  <2>2. pc[q] = "write"
    BY <1>1, <2>1 DEF IInv, Held, Upserting
  <2>3. Rank[Current(q).pixel] \in Nat
    BY <2>2, CurrentFacts, RankAssumption DEF IInv
  <2>4. QED
    BY <1>2, <2>2, <2>3 DEF Place
<1>3. CASE pc[s] = "write"
  <2> DEFINE p == Current(s).pixel
  <2>1. p \in Pixel /\ dirty[q][p] # None
    BY <1>3, CurrentFacts DEF IInv, Waits, RowHeldBy
  <2>2. pc[q] = "write"
    <3>1. pc[q] = "refresh" => dirty[q] = Untouched
      BY DEF IInv, Held, Upserting
    <3>2. QED
      BY <1>1, <2>1, <3>1 DEF Untouched
  <2>3. PICK i \in 1..(next[q] - 1) : listing[q][i].pixel = p
    BY <2>1 DEF IInv, Grounded
  <2>4. next[q] \in 1..Len(listing[q]) /\ Len(listing[q]) \in Nat
        /\ Current(q).pixel \in Pixel
    BY <2>2, CurrentFacts, ListingFacts DEF IInv
  <2>5. i \in 1..Len(listing[q]) /\ i < next[q]
    BY <2>4
  <2>6. Rank[p] < Rank[Current(q).pixel]
    BY <2>3, <2>4, <2>5 DEF Sorted, Current
  <2>7. Rank[p] \in Nat /\ Rank[Current(q).pixel] \in Nat
    BY <2>1, <2>4, RankAssumption
  <2>8. QED
    BY <1>3, <2>2, <2>6, <2>7 DEF Place
<1>4. QED
  BY <1>1, <1>2, <1>3

\* Every nonempty set of numbers has a least one.
LEMMA Least ==
  ASSUME NEW T \in SUBSET Nat, T # {}
  PROVE  \E m \in T : \A n \in T : m <= n
<1>1. PICK m \in T : \A n \in T : <<n, m>> \notin OpToRel(<, Nat)
  BY WFMin, NatLessThanWellFounded, Zenon
<1>2. \A n \in T : ~(n < m)
  BY <1>1, Zenon DEF OpToRel
<1>3. QED
  BY <1>2

\* Syncs that keep to one order of the pixels never wait in a cycle, however
\* many there are: the least placed sync of a cycle would have nobody behind it.
THEOREM NoSortedDeadlock == Spec => []SortedSyncsNeverDeadlock
<1>1. ASSUME IInv PROVE SortedSyncsNeverDeadlock
  <2>1. SUFFICES ASSUME \A s \in Sync : Sorted(listing[s]),
                        NEW s \in Sync, NEW C \in SUBSET Sync, s \in C,
                        \A q \in C : (\E t \in C : Waits(q, t)) /\ (\E t \in C : Waits(t, q))
                 PROVE  FALSE
    BY DEF SortedSyncsNeverDeadlock, OnCycle
  <2>2. \A q \in C : pc[q] \in {"refresh", "write"}
    BY <2>1, WaitsAt
  <2>3. \A q \in C : Place(q) \in Nat
    BY <1>1, <2>2, PlaceIsNat
  <2> DEFINE places == {Place(q) : q \in C}
  <2>4. places \in SUBSET Nat /\ places # {}
    BY <2>1, <2>3
  <2> HIDE DEF places
  <2>5. PICK m \in places : \A n \in places : m <= n
    BY <2>4, Least
  <2>6. PICK q \in C : m = Place(q)
    BY <2>5 DEF places
  <2>7. PICK t \in C : Waits(t, q)
    BY <2>1
  <2>8. PICK u \in C : Waits(q, u)
    BY <2>1
  <2>9. Place(t) < Place(q)
    BY <1>1, <2>1, <2>7, <2>8, WaitsUpwards
  <2>10. Place(t) \in places
    BY DEF places
  <2>11. Place(q) <= Place(t)
    BY <2>5, <2>6, <2>10
  <2>12. QED
    BY <2>3, <2>9, <2>11
<1>2. QED
  BY <1>1, Invariance, PTL
-----------------------------------------------------------------------------
\* What the proofs about Hub use of a sync's step: what it leaves to the other
\* syncs, what it does to the token rows, and whose the pixels are afterwards.
SyncAction(s) == Receive(s) \/ Step(s) \/ DeadlockVictim(s) \/ Fault(s)

\* A sync locks the row of the one token it needs, an expiring one, of a
\* registered advertiser; only its commit shows; an ended sync stays as it is.
LEMMA SyncCarries ==
  ASSUME TypeInv, NEW s \in Sync, SyncAction(s)
  PROVE  /\ \/ refreshed' \subseteq refreshed
            \/ RefreshToken(s) /\ refreshed' = refreshed \cup {s}
         /\ pc'[s] = "refresh" =>
              /\ oauth[adv[s]] = "expiring"
              /\ adv[s] \in DOMAIN AdAccount /\ AdAccount[adv[s]] # None
         /\ \A q \in Sync : pc'[q] = "refresh" \/ pc[q] # "idle" => adv'[q] = adv[q]
         /\ \A q \in Sync : q # s => pc'[q] = pc[q]
         /\ \A q \in Sync : pc[q] = "done" =>
              pc'[q] = "done" /\ adv'[q] = adv[q] /\ listing'[q] = listing[q]
         /\ (rows' = rows /\ oauth' = oauth) \/ Commit(s)
<1> USE DEF TypeInv, TypeOK, Goto, local, writes, tables
<1>1. CASE Receive(s)
  BY <1>1 DEF Receive
<1>2. CASE Authorize(s) \/ RefreshToken(s) \/ ListPixels(s) \/ ListFails(s)
  BY <1>2 DEF Authorize, RefreshToken, ListPixels, ListFails, Raise
<1>3. CASE FindPixel(s) \/ InsertPixel(s) \/ InsertConflicts(s) \/ UpdatePixel(s)
  BY <1>3 DEF FindPixel, InsertPixel, InsertConflicts, UpdatePixel, Wrote, Raise
<1>4. CASE KeepPixel(s) \/ Return(s) \/ Commit(s) \/ Rollback(s)
  BY <1>4 DEF KeepPixel, Return, Commit, Rollback, Release
<1>5. CASE DeadlockVictim(s)
  <2>1. pc[s] \in {"refresh", "write"}
    BY <1>5 DEF DeadlockVictim, OnCycle, Waits
  <2>2. QED
    BY <1>5, <2>1 DEF DeadlockVictim, Raise
<1>6. CASE Fault(s)
  BY <1>6 DEF Fault, StatementFails, Crash, Release, Raise, Running, Ended
<1>7. QED
  BY <1>1, <1>2, <1>3, <1>4, <1>5, <1>6 DEF SyncAction, Step

\* A commit leaves a pixel to whom it was, or takes a pixel that was listed for
\* the sync's advertiser, who is registered then.
LEMMA CommittedOwner ==
  ASSUME IInv, NEW s \in Sync, Commit(s), NEW p \in Pixel
  PROVE  \/ rows'[p] = rows[p]
         \/ rows'[p] # None /\ rows[p] # None /\ rows'[p].owner = rows[p].owner
         \/ /\ rows'[p] # None /\ rows'[p].owner = adv[s]
            /\ \E e \in Entries(s) : e.pixel = p
            /\ adv[s] \in DOMAIN AdAccount /\ AdAccount[adv[s]] # None
<1>1. rows'[p] = Effective(s, p)
  BY AtCommit
<1>2. CASE dirty[s][p] = None
  BY <1>1, <1>2 DEF Effective
<1>3. CASE dirty[s][p] # None
  <2>1. PICK i \in 1..(next[s] - 1) :
          /\ listing[s][i].pixel = p
          /\ Table!Upserted(dirty[s][p], rows[p], adv[s], listing[s][i])
    BY <1>3 DEF IInv, Grounded
  <2>2. i \in 1..Len(listing[s]) /\ listing[s][i] \in Entries(s)
    BY ListingFacts DEF IInv, TypeInv, TypeOK, Placed, Entries
  <2>3. adv[s] \in DOMAIN AdAccount /\ AdAccount[adv[s]] # None
    <3>1. listing[s] # <<>>
      BY <2>2
    <3>2. QED
      BY <3>1, NoneAssumption DEF IInv, TypeInv, Placed
  <2>4. rows'[p] = dirty[s][p] /\ rows'[p] # None
    BY <1>1, <1>3 DEF Effective
  <2>5. rows'[p].owner \in {adv[s]} \cup (IF rows[p] = None THEN {} ELSE {rows[p].owner})
    BY <2>1, <2>4 DEF Table!Upserted
  <2>6. QED
    BY <2>1, <2>2, <2>3, <2>4, <2>5
<1>4. QED
  BY <1>2, <1>3
=============================================================================
