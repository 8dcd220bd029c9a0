------------------------------ MODULE PixelSync ------------------------------
(***************************************************************************)
(* POST /integrations/meta/sync-pixels: concurrent syncs, each one database *)
(* transaction that lists an ad account's pixels at Meta and upserts them   *)
(* one by one.                                                              *)
(*                                                                          *)
(* An upsert is a SELECT and a later INSERT or UPDATE.  SQLAlchemy updates  *)
(* only the columns that differ from what the SELECT returned, and nothing  *)
(* at all when none does; Postgres (READ COMMITTED) applies the update to   *)
(* the newest committed row.  `dirty[s]' holds the rows that the session of *)
(* s has written and not committed: each is locked until the session ends.  *)
(* Of sessions that wait for each other in a cycle Postgres aborts one.     *)
(***************************************************************************)
EXTENDS Integers, Sequences

CONSTANTS
  Sync,          \* sync requests
  Advertiser, Account, Pixel, Name, Status,
  AdAccount,     \* registered advertiser |-> meta_ad_account_id
  Refreshable,   \* advertisers with a stored refresh token
  Listing,       \* ad account |-> the answers Meta may give to list_pixels
  Rank,          \* an order of the pixels
  None

Entry == [pixel : Pixel, name : Name, status : Status]

Row == [owner : Advertiser, name : Name, status : Status]

ASSUME AdAccountAssumption ==
  /\ DOMAIN AdAccount \subseteq Advertiser
  /\ \A a \in DOMAIN AdAccount : AdAccount[a] \in Account \cup {None}
ASSUME NoneAssumption == None \notin Account /\ None \notin Row
\* Meta lists a pixel at most once.
ASSUME ListingAssumption ==
  \A c \in Account : \A l \in Listing[c] :
    /\ l \in Seq(Entry)
    /\ \A i, j \in 1..Len(l) : l[i].pixel = l[j].pixel => i = j
ASSUME RankAssumption == Rank \in [Pixel -> Nat]

VARIABLES
  pc,         \* where each sync's handler is
  adv,        \* the advertiser it syncs
  listing,    \* what Meta listed for it
  next,       \* index of the entry it works on
  seen,       \* the row its last SELECT returned
  dirty,      \* rows its session has written but not committed
  refreshed,  \* syncs whose session has written its advertiser's token row
  rows,       \* committed rows of pixels
  oauth,      \* committed token of each advertiser
  overlapped  \* history: syncs that ran while another did

local == <<adv, listing, next, seen>>
writes == <<dirty, refreshed>>
tables == <<rows, oauth>>
vars == <<pc, local, writes, tables, overlapped>>

Untouched == [p \in Pixel |-> None]

Token == {"absent", "valid", "expiring"}

Label == {"idle", "token", "refresh", "list", "find", "write", "commit",
          "rollback", "done", "failed"}

Ended == {"idle", "done", "failed"}

Running(s) == pc[s] \notin Ended

Others(s) == Sync \ {s}

Goto(s, l) == pc' = [pc EXCEPT ![s] = l]

\* Mutation: the exception is swallowed and get_session commits.
Raise_Commits(s) == Goto(s, "commit")

\* Any exception leaves the handler and makes get_session roll back.
Raise(s) == Goto(s, "rollback")

Entries(s) == {listing[s][i] : i \in 1..Len(listing[s])}

Current(s) == listing[s][next[s]]

\* Mutation: a new row gets no advertiser.
RowFor_NoOwner(s, e) == [owner |-> None, name |-> e.name, status |-> e.status]

RowFor(s, e) == [owner |-> adv[s], name |-> e.name, status |-> e.status]

Wanted(s) == RowFor(s, Current(s))

RowHeldBy(q, p) == dirty[q][p] # None

TokenHeldBy(q, a) == q \in refreshed /\ adv[q] = a

\* Nobody else has written the current pixel's row or unique key.
Unlocked(s) == \A q \in Others(s) : ~RowHeldBy(q, Current(s).pixel)
-----------------------------------------------------------------------------
Init ==
  /\ pc = [s \in Sync |-> "idle"]
  /\ adv = [s \in Sync |-> None]
  /\ listing = [s \in Sync |-> <<>>]
  /\ next = [s \in Sync |-> 1]
  /\ seen = [s \in Sync |-> None]
  /\ dirty = [s \in Sync |-> Untouched]
  /\ refreshed = {}
  /\ rows = Untouched
  /\ oauth \in [Advertiser -> Token]
  /\ overlapped = {}

\* The scheduler, one of its retries or an operator posts a sync.
Receive(s) ==
  /\ pc[s] = "idle"
  /\ \E a \in Advertiser : adv' = [adv EXCEPT ![s] = a]
  /\ Goto(s, "token")
  /\ LET others == {q \in Others(s) : Running(q)}
     IN  overlapped' = IF others = {} THEN overlapped
                                      ELSE overlapped \cup others \cup {s}
  /\ UNCHANGED <<listing, next, seen, writes, tables>>

\* The advertiser exists, has an ad account and a token.
Authorize(s) ==
  LET a == adv[s]
      ready == a \in DOMAIN AdAccount /\ AdAccount[a] # None
      stale == oauth[a] = "expiring"
  IN  /\ pc[s] = "token"
      /\ \/ ready /\ oauth[a] = "valid" /\ Goto(s, "list")
         \/ ready /\ stale /\ a \in Refreshable /\ Goto(s, "refresh")
         \/ /\ ~ready \/ oauth[a] = "absent" \/ (stale /\ a \notin Refreshable)
            /\ Raise(s)
      /\ UNCHANGED <<local, writes, tables, overlapped>>

\* The refreshed token is flushed and its row stays locked to the sync's end.
RefreshToken(s) ==
  /\ pc[s] = "refresh"
  /\ \A q \in Others(s) : ~TokenHeldBy(q, adv[s])
  /\ refreshed' = refreshed \cup {s}
  /\ Goto(s, "list")
  /\ UNCHANGED <<local, dirty, tables, overlapped>>

ListPixels(s) ==
  /\ pc[s] = "list"
  /\ \E l \in Listing[AdAccount[adv[s]]] : listing' = [listing EXCEPT ![s] = l]
  /\ Goto(s, "find")
  /\ UNCHANGED <<adv, next, seen, writes, tables, overlapped>>

\* Nobody catches what the adapter raises.
ListFails(s) ==
  /\ pc[s] = "list"
  /\ Raise(s)
  /\ UNCHANGED <<local, writes, tables, overlapped>>

\* get_by_meta_id.
FindPixel(s) ==
  /\ pc[s] = "find"
  /\ next[s] <= Len(listing[s])
  /\ seen' = [seen EXCEPT ![s] = rows[Current(s).pixel]]
  /\ Goto(s, "write")
  /\ UNCHANGED <<adv, listing, next, writes, tables, overlapped>>

\* The entry is done with, its row as the session has left it.
Wrote(s, row) ==
  /\ dirty' = [dirty EXCEPT ![s][Current(s).pixel] = row]
  /\ next' = [next EXCEPT ![s] = @ + 1]
  /\ Goto(s, "find")
  /\ UNCHANGED <<adv, listing, seen, refreshed, tables, overlapped>>

InsertPixel(s) ==
  /\ pc[s] = "write"
  /\ seen[s] = None
  /\ Unlocked(s)
  /\ rows[Current(s).pixel] = None
  /\ Wrote(s, Wanted(s))

\* Another sync has inserted the pixel since: an uncaught IntegrityError.
InsertConflicts(s) ==
  /\ pc[s] = "write"
  /\ seen[s] = None
  /\ Unlocked(s)
  /\ rows[Current(s).pixel] # None
  /\ Raise(s)
  /\ UNCHANGED <<local, writes, tables, overlapped>>

\* The columns that differ from the row seen, written over the row that is.
Changed(old, was, new) ==
  [owner  |-> IF new.owner = was.owner THEN old.owner ELSE new.owner,
   name   |-> IF new.name = was.name THEN old.name ELSE new.name,
   status |-> IF new.status = was.status THEN old.status ELSE new.status]

\* Mutation: the advertiser of a known pixel is left alone.
UpdatePixel_KeepsOwner(s) ==
  /\ pc[s] = "write"
  /\ seen[s] \notin {None, Wanted(s)}
  /\ Unlocked(s)
  /\ Wrote(s, [Changed(rows[Current(s).pixel], seen[s], Wanted(s))
                 EXCEPT !.owner = rows[Current(s).pixel].owner])

UpdatePixel(s) ==
  /\ pc[s] = "write"
  /\ seen[s] \notin {None, Wanted(s)}
  /\ Unlocked(s)
  /\ Wrote(s, Changed(rows[Current(s).pixel], seen[s], Wanted(s)))

\* Nothing differs: no statement is sent, no lock is taken.
KeepPixel(s) ==
  /\ pc[s] = "write"
  /\ seen[s] = Wanted(s)
  /\ next' = [next EXCEPT ![s] = @ + 1]
  /\ Goto(s, "find")
  /\ UNCHANGED <<adv, listing, seen, writes, tables, overlapped>>

\* Mutation: a token that expired meanwhile is refreshed before the commit.
Return_RefreshesToken(s) ==
  /\ pc[s] = "find"
  /\ next[s] > Len(listing[s])
  /\ Goto(s, IF oauth[adv[s]] = "expiring" /\ s \notin refreshed
              THEN "refresh" ELSE "commit")
  /\ UNCHANGED <<local, writes, tables, overlapped>>

\* The reply lists the advertiser's pixels; get_session commits.
Return(s) ==
  /\ pc[s] = "find"
  /\ next[s] > Len(listing[s])
  /\ Goto(s, "commit")
  /\ UNCHANGED <<local, writes, tables, overlapped>>

\* The session ends; its locks go with it.
Release(s) ==
  /\ dirty' = [dirty EXCEPT ![s] = Untouched]
  /\ refreshed' = refreshed \ {s}

\* get_session resumes after the handler returned.  Whether the reply went out
\* before, and whether the word of the commit is lost, shows in no table.
Commit(s) ==
  /\ pc[s] = "commit"
  /\ rows' = [p \in Pixel |-> IF dirty[s][p] = None THEN rows[p] ELSE dirty[s][p]]
  /\ oauth' = IF s \in refreshed THEN [oauth EXCEPT ![adv[s]] = "valid"] ELSE oauth
  /\ Release(s)
  /\ Goto(s, "done")
  /\ UNCHANGED <<local, overlapped>>

\* Mutation: the session is neither rolled back nor closed.
Rollback_Leaks(s) ==
  /\ pc[s] = "rollback"
  /\ Goto(s, "failed")
  /\ UNCHANGED <<local, writes, tables, overlapped>>

Rollback(s) ==
  /\ pc[s] = "rollback"
  /\ Release(s)
  /\ Goto(s, "failed")
  /\ UNCHANGED <<local, tables, overlapped>>

\* The database drops the session under any statement, the commit included.
StatementFails(s) ==
  /\ pc[s] \in {"token", "refresh", "find", "write", "commit"}
  /\ Raise(s)
  /\ UNCHANGED <<local, writes, tables, overlapped>>

\* The process dies; Postgres aborts the session.
Crash(s) ==
  /\ Running(s)
  /\ Release(s)
  /\ Goto(s, "failed")
  /\ UNCHANGED <<local, tables, overlapped>>

\* Sync s waits for a row or a unique key that the session of q holds.
Waits(s, q) ==
  /\ q # s
  /\ \/ pc[s] = "refresh" /\ TokenHeldBy(q, adv[s])
     \/ /\ pc[s] = "write" /\ seen[s] # Wanted(s)
        /\ RowHeldBy(q, Current(s).pixel)

OnCycle(s) ==
  \E C \in SUBSET Sync :
    /\ s \in C
    /\ \A q \in C : (\E t \in C : Waits(q, t)) /\ (\E t \in C : Waits(t, q))

\* Postgres finds the deadlock and aborts one of the statements in it.
DeadlockVictim(s) ==
  /\ OnCycle(s)
  /\ Raise(s)
  /\ UNCHANGED <<local, writes, tables, overlapped>>

TokenExpires(a) ==
  /\ oauth[a] = "valid"
  /\ oauth' = [oauth EXCEPT ![a] = "expiring"]
  /\ UNCHANGED <<pc, local, writes, rows, overlapped>>

\* A tag request commits the token that it refreshed, whose row it had locked.
TokenRefreshed(a) ==
  /\ oauth[a] # "absent"
  /\ \A q \in Sync : ~TokenHeldBy(q, a)
  /\ oauth' = [oauth EXCEPT ![a] = "valid"]
  /\ UNCHANGED <<pc, local, writes, rows, overlapped>>

\* What the handler does next when nothing fails under it.
Step(s) ==
  \/ Authorize(s) \/ RefreshToken(s) \/ ListPixels(s) \/ ListFails(s)
  \/ FindPixel(s) \/ InsertPixel(s) \/ InsertConflicts(s)
  \/ UpdatePixel(s) \/ KeepPixel(s) \/ Return(s) \/ Commit(s) \/ Rollback(s)

Fault(s) == StatementFails(s) \/ Crash(s)

Terminating == (\A s \in Sync : pc[s] \in {"done", "failed"}) /\ UNCHANGED vars

Next ==
  \/ \E s \in Sync : Receive(s) \/ Step(s) \/ DeadlockVictim(s) \/ Fault(s)
  \/ \E a \in Advertiser : TokenExpires(a) \/ TokenRefreshed(a)
  \/ Terminating

Spec == Init /\ [][Next]_vars

\* Threads run, a call to Meta ends, and Postgres breaks every deadlock; only
\* the end of its holder's session ends any other wait.
Fairness ==
  /\ \A s \in Sync : WF_vars(Step(s))
  /\ WF_vars(\E s \in Sync : DeadlockVictim(s))

FairSpec == Spec /\ Fairness
-----------------------------------------------------------------------------
\* Every variable stays within its type.
TypeOK ==
  /\ pc \in [Sync -> Label]
  /\ adv \in [Sync -> Advertiser \cup {None}]
  /\ listing \in [Sync -> {<<>>} \cup UNION {Listing[c] : c \in Account}]
  /\ next \in [Sync -> Nat \ {0}]
  /\ seen \in [Sync -> Row \cup {None}]
  /\ dirty \in [Sync -> [Pixel -> Row \cup {None}]]
  /\ refreshed \subseteq Sync
  /\ rows \in [Pixel -> Row \cup {None}]
  /\ oauth \in [Advertiser -> Token]
  /\ overlapped \subseteq Sync

\* A sync that no other sync overlapped leaves every pixel as Meta listed it
\* and as its advertiser's, and no unfinished or failed sync leaves anything.
SyncIsAllOrNothing ==
  [][rows' # rows =>
       \E s \in Sync :
         /\ Running(s) /\ pc'[s] = "done"
         /\ s \notin overlapped =>
              \A e \in Entries(s) : rows'[e.pixel] = RowFor(s, e)]_vars

Sorted(l) ==
  \A i, j \in 1..Len(l) : i < j => Rank[l[i].pixel] < Rank[l[j].pixel]

\* Syncs lock rows in the order in which Meta lists them: as long as Meta keeps
\* to one order, syncs wait for each other but never in a cycle, token rows
\* included.
SortedSyncsNeverDeadlock ==
  (\A s \in Sync : Sorted(listing[s])) => \A s \in Sync : ~OnCycle(s)

\* The table implements PixelTable, whatever the interleaving of the upserts.
Table == INSTANCE PixelTable
  WITH shown <- {<<AdAccount[adv[s]], listing[s]>> :
                    s \in {q \in Sync : listing[q] # <<>>}}

ImplementsTable == Table!Spec

\* Every sync that was received ends: its waits do, deadlocks included.
EverySyncEnds == \A s \in Sync : Running(s) ~> ~Running(s)

\* What the docs promise and the code does not keep.

\* The service's docstring: the table is reconciled with what Meta has, so a
\* row shows a pixel as Meta once listed it.
RowsWereListed ==
  \A p \in Pixel :
    rows[p] # None =>
      \E s \in Sync : \E e \in Entries(s) :
        e.pixel = p /\ e.name = rows[p].name /\ e.status = rows[p].status
=============================================================================
