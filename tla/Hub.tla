-------------------------------- MODULE Hub --------------------------------
(***************************************************************************)
(* The service as a whole: conversion-tag requests and pixel syncs in      *)
(* flight together on one database.                                        *)
(*                                                                         *)
(* ConversionTags and PixelSync each describe one kind of request among an *)
(* environment that stands for the other kind.  Here each is the other's   *)
(* environment.  They share the oauth_tokens rows, of which either may     *)
(* hold one locked, and the pixels rows, whose advertiser the requests     *)
(* read.  Nothing else couples them: the foreign keys of conversion_tags   *)
(* take KEY SHARE locks, with which no update of a pixel conflicts.        *)
(***************************************************************************)
EXTENDS Integers, Sequences

CONSTANTS
  Request, Sync,    \* HTTP requests of either kind
  Advertiser, Account, Name, Pixel, Key, Detail, PixelName, Status,
  AdAccount,        \* registered advertiser |-> meta_ad_account_id
  Refreshable,      \* advertisers with a stored refresh token
  Call,             \* the calls clients make for tags
  ReplyBeforeCommit,
  Listing,          \* ad account |-> the answers Meta may give to list_pixels
  Rank,             \* an order of the pixels
  None

ASSUME SessionsAssumption == Request \cap Sync = {}
ASSUME CallsAssumption ==
  /\ Call \subseteq [adv : Advertiser, name : Name, pixel : Pixel, detail : Detail,
                     key : Key \cup {None}]
  /\ ReplyBeforeCommit \in BOOLEAN
ASSUME AccountsAssumption ==
  /\ DOMAIN AdAccount \subseteq Advertiser
  /\ \A a \in DOMAIN AdAccount : AdAccount[a] \in Account \cup {None}
  /\ Refreshable \subseteq Advertiser
ASSUME RowsAssumption ==
  /\ None \notin Account \cup Advertiser
  /\ None \notin [owner : Advertiser, name : PixelName, status : Status]
\* Meta lists a pixel at most once.
ASSUME ListingsAssumption ==
  /\ \A c \in Account : \A l \in Listing[c] :
       /\ l \in Seq([pixel : Pixel, name : PixelName, status : Status])
       /\ \A i, j \in 1..Len(l) : l[i].pixel = l[j].pixel => i = j
  /\ Rank \in [Pixel -> Nat]

VARIABLES
  \* of the tag requests, as in ConversionTags
  pc, call, tag, reply, answered, dirty, tags, records, conversions, inFlight,
  \* of the syncs, as in PixelSync
  spc, adv, listing, next, seen, written, refreshed, rows, overlapped,
  \* of both: the committed token of each advertiser
  oauth

tagVars == <<pc, call, tag, reply, answered, dirty, tags, records, conversions, inFlight>>
syncVars == <<spc, adv, listing, next, seen, written, refreshed, rows, overlapped>>
vars == <<tagVars, syncVars, oauth>>

\* The requests read no more of a pixel than whose it is.
Owner == [p \in Pixel |-> IF rows[p] = None THEN None ELSE rows[p].owner]

Tags == INSTANCE ConversionTags WITH pixelOwner <- Owner

Syncs == INSTANCE PixelSync WITH pc <- spc, dirty <- written, Name <- PixelName
-----------------------------------------------------------------------------
Init == Syncs!Init /\ Tags!Init

\* A tag request waits for a token row that a sync has refreshed.
TagWaitsForSync(r, s) ==
  pc[r] = "refresh" /\ Syncs!TokenHeldBy(s, call[r].adv)

\* A sync waits for a token row that a tag request has refreshed.
SyncWaitsForTag(s, r) ==
  spc[s] = "refresh" /\ Tags!TokenHeldBy(r, adv[s])

\* Mutation: a tag request minds only the token rows of other tag requests.
TagStep_Unlocked(r) == UNCHANGED syncVars /\ Tags!Step(r)

TagStep(r) ==
  /\ UNCHANGED syncVars
  /\ \A s \in Sync : ~TagWaitsForSync(r, s)
  /\ Tags!Step(r)

TagElse(r) ==
  /\ UNCHANGED syncVars
  /\ Tags!Receive(r) \/ Tags!Fault(r) \/ Tags!MetaCatchesUp(r)

\* Mutation: a sync minds only the token rows of other syncs.
SyncStep_Unlocked(s) == UNCHANGED tagVars /\ Syncs!Step(s)

SyncStep(s) ==
  /\ UNCHANGED tagVars
  /\ \A r \in Request : ~SyncWaitsForTag(s, r)
  /\ Syncs!Step(s)

SyncElse(s) ==
  /\ UNCHANGED tagVars
  /\ Syncs!Receive(s) \/ Syncs!Fault(s) \/ Syncs!DeadlockVictim(s)

TokenExpires(a) == UNCHANGED <<tagVars, syncVars>> /\ Tags!TokenExpires(a)

Terminating ==
  UNCHANGED <<syncVars, tagVars>> /\ Syncs!Terminating /\ Tags!Terminating

Next ==
  \/ \E r \in Request : TagStep(r) \/ TagElse(r)
  \/ \E s \in Sync : SyncStep(s) \/ SyncElse(s)
  \/ \E a \in Advertiser : TokenExpires(a)
  \/ Terminating

Spec == Init /\ [][Next]_vars

\* As in the components: threads run, calls to Meta end, Postgres breaks deadlocks.
Fairness ==
  /\ \A r \in Request : WF_vars(TagStep(r))
  /\ \A s \in Sync : WF_vars(SyncStep(s))
  /\ WF_vars(\E s \in Sync : UNCHANGED tagVars /\ Syncs!DeadlockVictim(s))

FairSpec == Spec /\ Fairness
-----------------------------------------------------------------------------
\* Every variable stays within its type.
TypeOK == Tags!TypeOK /\ Syncs!TypeOK

\* Session x waits for a row or a unique key that session y holds.
Waits(x, y) ==
  \/ x \in Request /\ y \in Request /\ Tags!Waits(x, y)
  \/ x \in Sync /\ y \in Sync /\ Syncs!Waits(x, y)
  \/ x \in Request /\ y \in Sync /\ TagWaitsForSync(x, y)
  \/ x \in Sync /\ y \in Request /\ SyncWaitsForTag(x, y)

\* Whatever order Meta lists the pixels in, a deadlock is between syncs that
\* upsert: no tag request is ever in one, nor a wait for a token row, so
\* Postgres never picks a tag request to break it.
OnlyUpsertsDeadlock ==
  \A C \in SUBSET (Request \cup Sync) :
    (\A x \in C : (\E y \in C : Waits(x, y)) /\ (\E y \in C : Waits(y, x)))
    => C \subseteq {s \in Sync : spc[s] = "write"}

\* A committed sync of a has listed p.
ListedFor(p, a) ==
  \E s \in Sync :
    spc[s] = "done" /\ adv[s] = a /\ \E e \in Syncs!Entries(s) : e.pixel = p

\* The pixel is checked long before the tag commits and another advertiser's
\* sync may take it over in between: even so every stored tag names a pixel
\* that Meta has listed for the tag's own advertiser.
TaggedPixelsWereListed == \A t \in tags : ListedFor(t.pixel, t.adv)

\* The syncs do to the tag requests no more than their environment may, and
\* respect the token rows that they hold: what ConversionTags guarantees, it
\* guarantees here.
ImplementsTags == Tags!Spec

\* The tag requests do to the syncs no more than their environment may: what
\* PixelSync guarantees, it guarantees here.
ImplementsSyncs == Syncs!Spec

\* Whoever waits for a token row of the other kind of request gets it: every
\* request and every sync that was received ends.
EverySessionEnds ==
  /\ \A r \in Request : pc[r] # "idle" ~> pc[r] \in {"done", "crashed"}
  /\ \A s \in Sync : Syncs!Running(s) ~> ~Syncs!Running(s)
=============================================================================
