----------------------------- MODULE HubProofs -----------------------------
(***************************************************************************)
(* Theorems about Hub: requests and syncs are to each other what their own *)
(* modules take them for, so that every theorem about either holds of the  *)
(* service as a whole, and what only the whole guarantees.                 *)
(*                                                                         *)
(* The components' proofs are instantiated, not repeated: a step of Hub is *)
(* shown to be a step, or a stutter, of both.                              *)
(***************************************************************************)
EXTENDS Hub, TLAPS

T == INSTANCE ConversionTagsProofs WITH pixelOwner <- Owner

S == INSTANCE PixelSyncProofs WITH pc <- spc, dirty <- written, Name <- PixelName

\* The token rows: each is locked by requests or by a sync, not by both, and
\* only for a refresh of a token that is there.
TokenRows ==
  /\ \A r \in Request :
       /\ pc[r] = "refresh" => oauth[call[r].adv] # "absent"
       /\ \A a \in dirty[r].tokens : a = call[r].adv /\ oauth[a] # "absent"
  /\ \A s \in Sync : spc[s] = "refresh" \/ s \in refreshed =>
       /\ oauth[adv[s]] # "absent"
       /\ adv[s] \in DOMAIN AdAccount /\ AdAccount[adv[s]] # None
  /\ \A s \in refreshed, r \in Request : adv[s] \notin dirty[r].tokens

\* A pixel with an advertiser was listed for that advertiser, and so was every
\* pixel that a request has found to be its advertiser's.
PixelsListed ==
  /\ \A p \in Pixel : rows[p] # None => ListedFor(p, rows[p].owner)
  /\ \A p \in Pixel, a \in Advertiser : T!Bound(p, a) => ListedFor(p, a)

HubInv == T!IInv /\ S!IInv /\ TokenRows /\ PixelsListed
-----------------------------------------------------------------------------
(***************************************************************************)
(* The instances of the proof modules speak of the same steps as those of  *)
(* the modules proper.                                                     *)
(***************************************************************************)
LEMMA SameTags ==
  /\ T!Init <=> Tags!Init
  /\ T!Next <=> Tags!Next
  /\ T!vars = Tags!vars
  /\ \A r : /\ T!Step(r) <=> Tags!Step(r)
            /\ T!Receive(r) <=> Tags!Receive(r)
            /\ T!Fault(r) <=> Tags!Fault(r)
            /\ T!MetaCatchesUp(r) <=> Tags!MetaCatchesUp(r)
  /\ \A a : T!TokenExpires(a) <=> Tags!TokenExpires(a)
  BY DEF T!Token, Tags!Token, T!local, Tags!local, T!outcome, Tags!outcome,
    T!tables, Tags!tables, T!world, Tags!world, T!vars, Tags!vars, T!Clean, Tags!Clean,
    T!hash_request, Tags!hash_request, T!SameSlot, Tags!SameSlot,
    T!get_by_advertiser_and_name, Tags!get_by_advertiser_and_name,
    T!get_record, Tags!get_record, T!Others, Tags!Others, T!Goto, Tags!Goto,
    T!Return, Tags!Return, T!Raise, Tags!Raise, T!Flush, Tags!Flush, T!Init, Tags!Init,
    T!Receive, Tags!Receive, T!Lookup, Tags!Lookup, T!TokenHeldBy, Tags!TokenHeldBy,
    T!CheckTarget, Tags!CheckTarget, T!FindTag, Tags!FindTag, T!NewTag, Tags!NewTag,
    T!TagKeyHeldBy, Tags!TagKeyHeldBy, T!InsertTag, Tags!InsertTag,
    T!InsertConflicts, Tags!InsertConflicts, T!InsertFails, Tags!InsertFails,
    T!GetToken, Tags!GetToken, T!RefreshToken, Tags!RefreshToken,
    T!MetaId, Tags!MetaId, T!CreateAtMeta, Tags!CreateAtMeta,
    T!MetaCreates, Tags!MetaCreates, T!GiveUp, Tags!GiveUp,
    T!MetaFails, Tags!MetaFails, T!MetaBreaks, Tags!MetaBreaks,
    T!MetaCatchesUp, Tags!MetaCatchesUp, T!Activate, Tags!Activate,
    T!KeyHeldBy, Tags!KeyHeldBy, T!NewRecord, Tags!NewRecord,
    T!StoreRecord, Tags!StoreRecord, T!StoreRecordFails, Tags!StoreRecordFails,
    T!StatementFails, Tags!StatementFails, T!Committed, Tags!Committed,
    T!Commit, Tags!Commit, T!CommitUnacknowledged, Tags!CommitUnacknowledged,
    T!CommitFails, Tags!CommitFails, T!SendReply, Tags!SendReply,
    T!Rollback, Tags!Rollback, T!Crash, Tags!Crash, T!TokenExpires, Tags!TokenExpires,
    T!PixelSynced, Tags!PixelSynced, T!Step, Tags!Step, T!Fault, Tags!Fault,
    T!Environment, Tags!Environment, T!Terminating, Tags!Terminating, T!Next, Tags!Next

\* Likewise for the syncs.
LEMMA SameSyncs ==
  /\ S!Init <=> Syncs!Init
  /\ S!Next <=> Syncs!Next
  /\ S!vars = Syncs!vars
  /\ \A s : /\ S!Step(s) <=> Syncs!Step(s)
            /\ S!Receive(s) <=> Syncs!Receive(s)
            /\ S!Fault(s) <=> Syncs!Fault(s)
            /\ S!DeadlockVictim(s) <=> Syncs!DeadlockVictim(s)
  BY DEF S!local, Syncs!local, S!writes, Syncs!writes, S!tables, Syncs!tables,
    S!vars, Syncs!vars, S!Untouched, Syncs!Untouched, S!Token, Syncs!Token,
    S!Ended, Syncs!Ended, S!Running, Syncs!Running, S!Others, Syncs!Others,
    S!Goto, Syncs!Goto, S!Raise, Syncs!Raise, S!Entries, Syncs!Entries,
    S!Current, Syncs!Current, S!RowFor, Syncs!RowFor, S!Wanted, Syncs!Wanted,
    S!RowHeldBy, Syncs!RowHeldBy, S!TokenHeldBy, Syncs!TokenHeldBy,
    S!Unlocked, Syncs!Unlocked, S!Init, Syncs!Init, S!Receive, Syncs!Receive,
    S!Authorize, Syncs!Authorize, S!RefreshToken, Syncs!RefreshToken,
    S!ListPixels, Syncs!ListPixels, S!ListFails, Syncs!ListFails,
    S!FindPixel, Syncs!FindPixel, S!Wrote, Syncs!Wrote,
    S!InsertPixel, Syncs!InsertPixel, S!InsertConflicts, Syncs!InsertConflicts,
    S!Changed, Syncs!Changed, S!UpdatePixel, Syncs!UpdatePixel,
    S!KeepPixel, Syncs!KeepPixel, S!Return, Syncs!Return, S!Release, Syncs!Release,
    S!Commit, Syncs!Commit, S!Rollback, Syncs!Rollback,
    S!StatementFails, Syncs!StatementFails, S!Crash, Syncs!Crash, S!Waits, Syncs!Waits,
    S!OnCycle, Syncs!OnCycle, S!DeadlockVictim, Syncs!DeadlockVictim,
    S!TokenExpires, Syncs!TokenExpires, S!TokenRefreshed, Syncs!TokenRefreshed,
    S!Step, Syncs!Step, S!Fault, Syncs!Fault, S!Terminating, Syncs!Terminating,
    S!Next, Syncs!Next

TagActs(r) ==
  /\ UNCHANGED syncVars
  /\ \/ T!RequestStep(r)
     \/ T!MetaCatchesUp(r)
  /\ T!RefreshToken(r) => \A s \in Sync : s \in refreshed => adv[s] # call[r].adv

SyncActs(s) ==
  /\ UNCHANGED tagVars
  /\ S!SyncAction(s)
  /\ S!RefreshToken(s) => \A r \in Request : adv[s] \notin dirty[r].tokens

\* Every step is one of a request, of a sync, of the clock, or none.
LEMMA HubSteps ==
  ASSUME HubInv, [Next]_vars
  PROVE  \/ \E r \in Request : TagActs(r)
         \/ \E s \in Sync : SyncActs(s)
         \/ \E a \in Advertiser : UNCHANGED <<tagVars, syncVars>> /\ T!TokenExpires(a)
         \/ UNCHANGED vars
  <1>1. ASSUME NEW r \in Request, TagStep(r) PROVE TagActs(r)
    <2>1. T!RefreshToken(r) => \A s \in Sync : s \in refreshed => adv[s] # call[r].adv
      BY <1>1 DEF TagStep, TagWaitsForSync, Syncs!TokenHeldBy, T!RefreshToken
    <2> QED
      BY <1>1, <2>1, SameTags DEF TagStep, TagActs, T!RequestStep
  <1>2. ASSUME NEW r \in Request, TagElse(r) PROVE TagActs(r)
    <2>1. ~T!RefreshToken(r)
      <3>1. CASE T!Receive(r) \/ T!MetaCatchesUp(r)
        BY <3>1 DEF T!Receive, T!MetaCatchesUp, T!RefreshToken, T!Goto,
               HubInv, T!IInv, T!TypeInv, T!TypeOK
      <3>2. CASE T!Fault(r)
        BY <3>2
        DEF T!Fault, T!InsertFails, T!StoreRecordFails, T!StatementFails,
            T!CommitUnacknowledged, T!Committed, T!CommitFails,
            T!Crash, T!Raise, T!RefreshToken, T!Goto, HubInv, T!IInv, T!TypeInv, T!TypeOK
      <3> QED
        BY <1>2, <3>1, <3>2, SameTags DEF TagElse
    <2> QED
      BY <1>2, <2>1, SameTags DEF TagElse, TagActs, T!RequestStep
  <1>3. ASSUME NEW s \in Sync, SyncStep(s) PROVE SyncActs(s)
    <2>1. S!RefreshToken(s) => \A r \in Request : adv[s] \notin dirty[r].tokens
      BY <1>3 DEF SyncStep, SyncWaitsForTag, Tags!TokenHeldBy, S!RefreshToken
    <2> QED
      BY <1>3, <2>1, SameSyncs DEF SyncStep, SyncActs, S!SyncAction
  <1>4. ASSUME NEW s \in Sync, SyncElse(s) PROVE SyncActs(s)
    <2>1. ~S!RefreshToken(s)
      <3>1. CASE S!Receive(s) \/ S!DeadlockVictim(s)
        BY <3>1 DEF S!Receive, S!DeadlockVictim, S!Raise, S!RefreshToken, S!Goto,
               HubInv, S!IInv, S!TypeInv, S!TypeOK
      <3>2. CASE S!Fault(s)
        BY <3>2
        DEF S!Fault, S!StatementFails, S!Crash, S!Raise, S!RefreshToken, S!Goto,
            HubInv, S!IInv, S!TypeInv, S!TypeOK
      <3> QED
        BY <1>4, <3>1, <3>2, SameSyncs DEF SyncElse
    <2> QED
      BY <1>4, <2>1, SameSyncs DEF SyncElse, SyncActs, S!SyncAction
  <1>5. ASSUME NEW a \in Advertiser, TokenExpires(a)
        PROVE  UNCHANGED <<tagVars, syncVars>> /\ T!TokenExpires(a)
    BY <1>5, SameTags DEF TokenExpires
  <1>6. CASE Terminating
    BY <1>6 DEF Terminating, Syncs!Terminating, Syncs!vars, Syncs!tables, vars,
               syncVars, tagVars
  <1> QED
    BY <1>1, <1>2, <1>3, <1>4, <1>5, <1>6 DEF Next
-----------------------------------------------------------------------------
(***************************************************************************)
(* What the components' lemmas say here.                                   *)
(***************************************************************************)
\* A request's step leaves the other requests alone and the token rows locked.
LEMMA RequestFacts ==
  ASSUME HubInv, NEW r \in Request, T!RequestStep(r)
  PROVE  /\ \A q \in Request \ {r} :
              pc'[q] = pc[q] /\ call'[q] = call[q] /\ dirty'[q] = dirty[q]
         /\ \/ dirty'[r].tokens \subseteq dirty[r].tokens
            \/ /\ T!RefreshToken(r)
               /\ dirty'[r].tokens = dirty[r].tokens \cup {call[r].adv}
         /\ pc'[r] = "refresh" => oauth[call[r].adv] = "expiring" /\ oauth' = oauth
         /\ pc'[r] = "refresh" \/ T!RefreshToken(r) => call' = call
         /\ oauth' = oauth \/ T!Committed(r)
  <1> USE CallsAssumption, AccountsAssumption DEF T!CallType
  <1>1. \A q \in T!Others(r) : T!SameFor(q)
    BY T!StepIsLocal DEF HubInv, T!IInv, T!TypeInv
  <1>2. T!TypeOK
    BY DEF HubInv, T!IInv, T!TypeInv
  <1> QED
    BY <1>1, <1>2, T!TokensCarried DEF T!Others, T!SameFor

\* A request that was received keeps its call, whoever steps.
LEMMA CallsStay ==
  ASSUME HubInv, [T!Next]_(T!vars), NEW r \in Request, pc[r] # "idle"
  PROVE  pc'[r] # "idle" /\ call'[r] = call[r]
  BY CallsAssumption, AccountsAssumption, T!CallsKept DEF T!CallType, HubInv, T!IInv, T!TypeInv

\* A sync's step, with the token rows and the ended syncs.
LEMMA SyncFacts ==
  ASSUME HubInv, NEW s \in Sync, S!SyncAction(s)
  PROVE  /\ \/ refreshed' \subseteq refreshed
            \/ S!RefreshToken(s) /\ refreshed' = refreshed \cup {s}
         /\ spc'[s] = "refresh" =>
              /\ oauth[adv[s]] = "expiring"
              /\ adv[s] \in DOMAIN AdAccount /\ AdAccount[adv[s]] # None
         /\ \A q \in Sync : spc'[q] = "refresh" \/ spc[q] # "idle" => adv'[q] = adv[q]
         /\ \A q \in Sync : q # s => spc'[q] = spc[q]
         /\ \A q \in Sync : spc[q] = "done" =>
              spc'[q] = "done" /\ adv'[q] = adv[q] /\ listing'[q] = listing[q]
         /\ (rows' = rows /\ oauth' = oauth) \/ S!Commit(s)
  <1>1. S!TypeInv
    BY DEF HubInv, S!IInv
  <1> QED
    BY <1>1, S!SyncCarries, AccountsAssumption, RowsAssumption, ListingsAssumption
    DEF S!Entry, S!Row

\* Whose a pixel is after a commit.
LEMMA CommitFacts ==
  ASSUME HubInv, NEW s \in Sync, S!Commit(s), NEW p \in Pixel
  PROVE  \/ rows'[p] = rows[p]
         \/ rows'[p] # None /\ rows[p] # None /\ rows'[p].owner = rows[p].owner
         \/ /\ rows'[p] # None /\ rows'[p].owner = adv[s]
            /\ \E e \in S!Entries(s) : e.pixel = p
            /\ adv[s] \in DOMAIN AdAccount /\ AdAccount[adv[s]] # None
  BY S!CommittedOwner, AccountsAssumption, RowsAssumption, ListingsAssumption
  DEF HubInv, S!Entry, S!Row
-----------------------------------------------------------------------------
(***************************************************************************)
(* Each is the other's environment.                                        *)
(***************************************************************************)
\* To the syncs a request's step is nothing, or the refresh of a token.
LEMMA TagActsMatch ==
  ASSUME HubInv, NEW r \in Request, TagActs(r)
  PROVE  [T!Next]_(T!vars) /\ [S!Next]_(S!vars)
  <1>1. T!Next
    BY DEF TagActs, T!Next, T!RequestStep, T!Environment
  <1>2. UNCHANGED <<spc, adv, listing, next, seen, written, refreshed, rows, overlapped>>
    BY DEF TagActs, syncVars
  <1>3. CASE oauth' = oauth
    BY <1>1, <1>2, <1>3 DEF S!vars, S!local, S!writes, S!tables
  <1>4. CASE oauth' # oauth
    <2>1. T!Committed(r)
      <3>1. CASE T!MetaCatchesUp(r)
        BY <1>4, <3>1 DEF T!MetaCatchesUp, T!tables
      <3> QED
        BY <1>4, <3>1, RequestFacts DEF TagActs
    <2>2. oauth \in [Advertiser -> T!Token] /\ dirty[r].tokens \subseteq Advertiser
      BY DEF HubInv, T!IInv, T!TypeInv, T!TypeOK, T!WriteSet
    <2>3. oauth' = [a \in Advertiser |-> IF a \in dirty[r].tokens THEN "valid" ELSE oauth[a]]
      BY <2>1 DEF T!Committed
    <2>4. PICK a \in Advertiser : dirty[r].tokens = {a} /\ oauth[a] # "absent"
      <3>1. dirty[r].tokens # {}
        BY <1>4, <2>2, <2>3
      <3> QED
        BY <2>2, <3>1 DEF HubInv, TokenRows
    <2>5. oauth' = [oauth EXCEPT ![a] = "valid"]
      BY <2>2, <2>3, <2>4
    <2>6. \A s \in Sync : ~S!TokenHeldBy(s, a)
      BY <2>4 DEF HubInv, TokenRows, S!TokenHeldBy
    <2>7. S!TokenRefreshed(a)
      BY <1>2, <2>4, <2>5, <2>6 DEF S!TokenRefreshed, S!local, S!writes
    <2> QED
      BY <1>1, <2>7 DEF S!Next
  <1> QED
    BY <1>3, <1>4

\* To the requests a sync's step is nothing, or the commit of a sync.
LEMMA SyncActsMatch ==
  ASSUME HubInv, NEW s \in Sync, SyncActs(s)
  PROVE  [T!Next]_(T!vars) /\ [S!Next]_(S!vars)
  <1>1. S!Next
    BY DEF SyncActs, S!Next, S!SyncAction
  <1>2. UNCHANGED tagVars
    BY DEF SyncActs
  <1>3. CASE oauth' = oauth /\ Owner' = Owner
    BY <1>1, <1>2, <1>3
    DEF tagVars, T!vars, T!local, T!outcome, T!tables, T!world
  <1>4. CASE ~(oauth' = oauth /\ Owner' = Owner)
    <2>1. S!Commit(s)
      BY <1>4, SyncFacts DEF SyncActs, Owner
    <2> DEFINE P == {p \in Pixel : Owner'[p] # Owner[p]}
    <2>2. \A p \in P :
            Owner'[p] = adv[s] /\ adv[s] \in DOMAIN AdAccount /\ AdAccount[adv[s]] # None
      BY <2>1, CommitFacts DEF Owner
    <2>3. Owner' = [p \in Pixel |-> IF p \in P THEN adv[s] ELSE Owner[p]]
      BY <2>2 DEF Owner
    <2>4. \/ oauth' = oauth
          \/ /\ s \in refreshed /\ oauth' = [oauth EXCEPT ![adv[s]] = "valid"]
             /\ oauth[adv[s]] # "absent"
             /\ \A r \in Request : ~T!TokenHeldBy(r, adv[s])
      BY <2>1 DEF S!Commit, HubInv, TokenRows, T!TokenHeldBy
    <2>5. adv[s] \in DOMAIN AdAccount /\ AdAccount[adv[s]] # None
      <3>1. CASE s \in refreshed
        BY <3>1 DEF HubInv, TokenRows
      <3>2. CASE s \notin refreshed
        <4>1. Owner' # Owner
          BY <1>4, <2>4, <3>2
        <4>2. PICK p \in Pixel : Owner'[p] # Owner[p]
          BY <4>1 DEF Owner
        <4> QED
          BY <2>2, <4>2
      <3> QED
        BY <3>1, <3>2
    <2>6. T!PixelSynced(adv[s])
      <3>1. P \in SUBSET Pixel
        OBVIOUS
      <3> HIDE DEF P
      <3> QED
        BY <1>2, <2>3, <2>4, <2>5, <3>1 DEF tagVars, T!PixelSynced, T!local, T!outcome
    <2> QED
      BY <1>1, <2>5, <2>6 DEF T!Next, T!Environment
  <1> QED
    BY <1>3, <1>4

\* Every step of the whole is a step, or none, of either component.
LEMMA StepsMatch ==
  ASSUME HubInv, [Next]_vars
  PROVE  [T!Next]_(T!vars) /\ [S!Next]_(S!vars)
  <1>1. ASSUME NEW a \in Advertiser, UNCHANGED <<tagVars, syncVars>>, T!TokenExpires(a)
        PROVE  [T!Next]_(T!vars) /\ [S!Next]_(S!vars)
    <2>1. S!TokenExpires(a)
      BY <1>1 DEF syncVars, T!TokenExpires, S!TokenExpires, S!local, S!writes
    <2> QED
      BY <1>1, <2>1 DEF T!Next, T!Environment, S!Next
  <1>2. CASE UNCHANGED vars
    BY <1>2
    DEF vars, tagVars, syncVars, Owner, T!vars, T!local, T!outcome, T!tables, T!world,
        S!vars, S!local, S!writes, S!tables
  <1> QED
    BY <1>1, <1>2, HubSteps, TagActsMatch, SyncActsMatch
-----------------------------------------------------------------------------
(***************************************************************************)
(* The invariant is inductive.                                             *)
(***************************************************************************)
\* It holds at the start.
LEMMA HubInit == Init => HubInv
  <1> SUFFICES ASSUME Init PROVE HubInv
    OBVIOUS
  <1>1. T!IInv
    BY SameTags, T!InvInit, CallsAssumption, AccountsAssumption DEF Init, T!CallType
  <1>2. S!IInv
    BY SameSyncs, S!InitInv, AccountsAssumption, RowsAssumption, ListingsAssumption
    DEF Init, S!Entry, S!Row
  <1>3. T!Init /\ S!Init
    BY SameTags, SameSyncs DEF Init
  <1>4. TokenRows
    BY <1>3 DEF TokenRows, T!Init, T!Clean, S!Init
  <1>5. PixelsListed
    BY <1>3 DEF PixelsListed, T!Bound, T!Init, T!Clean, T!HasTag, T!PastCheck,
               S!Init, S!Untouched
  <1> QED
    BY <1>1, <1>2, <1>4, <1>5 DEF HubInv

\* No step takes a token away.
LEMMA TokensStay ==
  ASSUME HubInv, [Next]_vars, NEW a \in Advertiser, oauth[a] # "absent"
  PROVE  oauth'[a] # "absent"
  <1>0. oauth \in [Advertiser -> T!Token]
    BY DEF HubInv, T!IInv, T!TypeInv, T!TypeOK
  <1>1. CASE oauth' = oauth
    BY <1>1
  <1>2. ASSUME NEW r \in Request, TagActs(r), oauth' # oauth PROVE oauth'[a] # "absent"
    <2>1. T!Committed(r)
      BY <1>2, RequestFacts DEF TagActs, T!MetaCatchesUp, T!tables
    <2> QED
      BY <1>0, <2>1 DEF T!Committed
  <1>3. ASSUME NEW s \in Sync, SyncActs(s), oauth' # oauth PROVE oauth'[a] # "absent"
    <2>1. S!Commit(s)
      BY <1>3, SyncFacts DEF SyncActs
    <2> QED
      BY <1>0, <2>1 DEF S!Commit
  <1>4. ASSUME NEW b \in Advertiser, T!TokenExpires(b) PROVE oauth'[a] # "absent"
    BY <1>0, <1>4 DEF T!TokenExpires
  <1>5. CASE UNCHANGED vars
    BY <1>5 DEF vars
  <1> QED
    BY <1>1, <1>2, <1>3, <1>4, <1>5, HubSteps

\* The advertisers whose tokens are locked, or about to be, are advertisers.
LEMMA LockersKnown ==
  ASSUME HubInv
  PROVE  /\ \A r \in Request : /\ dirty[r].tokens \subseteq Advertiser
                               /\ pc[r] = "refresh" => call[r].adv \in Advertiser
                               /\ pc[r] = "idle" => dirty[r].tokens = {}
         /\ \A s \in Sync : s \in refreshed => spc[s] # "idle"
         /\ refreshed \subseteq Sync
         /\ \A s \in Sync : spc[s] # "idle" => adv[s] \in Advertiser
  <1>1. \A r \in Request : /\ dirty[r].tokens \subseteq Advertiser
                           /\ pc[r] = "idle" => dirty[r].tokens = {}
    BY DEF HubInv, T!IInv, T!TypeInv, T!TypeOK, T!WriteSet, T!Held
  <1>2. \A r \in Request : pc[r] = "refresh" => call[r].adv \in Advertiser
    BY DEF HubInv, T!IInv, T!TypeInv, T!CallKnown, T!CallType
  <1>3. refreshed \subseteq Sync /\ \A s \in Sync : s \in refreshed => spc[s] # "idle"
    BY DEF HubInv, S!IInv, S!TypeInv, S!TypeOK, S!Held, S!Upserting
  <1>4. \A s \in Sync : spc[s] # "idle" => adv[s] \in Advertiser
    BY DEF HubInv, S!IInv, S!TypeInv, S!Placed
  <1> QED
    BY <1>1, <1>2, <1>3, <1>4

\* The locks on token rows are taken in turn.
LEMMA TokenRowsStep ==
  ASSUME HubInv, [Next]_vars
  PROVE  TokenRows'
  <1>1. ASSUME NEW r \in Request, TagActs(r), T!RequestStep(r) PROVE TokenRows'
    <2>1. UNCHANGED <<spc, adv, refreshed>>
      BY <1>1 DEF TagActs, syncVars
    <2>2. \A s \in Sync : spc'[s] = "refresh" \/ s \in refreshed' =>
            /\ oauth'[adv'[s]] # "absent"
            /\ adv'[s] \in DOMAIN AdAccount /\ AdAccount[adv'[s]] # None
      BY <2>1, LockersKnown, TokensStay DEF HubInv, TokenRows
    <2>3. ASSUME NEW q \in Request, q # r
          PROVE  /\ pc'[q] = "refresh" => oauth'[call'[q].adv] # "absent"
                 /\ \A a \in dirty'[q].tokens :
                      /\ a = call'[q].adv /\ oauth'[a] # "absent"
                      /\ \A s \in refreshed' : adv'[s] # a
      BY <1>1, <2>1, <2>3, RequestFacts, LockersKnown, TokensStay DEF HubInv, TokenRows
    <2>4. pc'[r] = "refresh" => oauth'[call'[r].adv] # "absent"
      <3>1. SUFFICES ASSUME pc'[r] = "refresh" PROVE oauth'[call[r].adv] # "absent"
        BY <1>1, RequestFacts
      <3> QED
        BY <1>1, <3>1, RequestFacts
    <2>5. ASSUME NEW a \in dirty'[r].tokens
          PROVE  /\ a = call'[r].adv /\ oauth'[a] # "absent"
                 /\ \A s \in refreshed' : adv'[s] # a
      <3>1. CASE a \in dirty[r].tokens
        <4>1. call'[r] = call[r]
          BY <1>1, <3>1, LockersKnown, StepsMatch, CallsStay
        <4> QED
          BY <2>1, <3>1, <4>1, LockersKnown, TokensStay DEF HubInv, TokenRows
      <3>2. CASE a \notin dirty[r].tokens
        <4>1. T!RefreshToken(r) /\ a = call[r].adv /\ call' = call
          BY <1>1, <3>2, RequestFacts
        <4>2. \A s \in refreshed' : adv'[s] # a
          BY <1>1, <2>1, <4>1, LockersKnown DEF TagActs
        <4>3. oauth[a] # "absent" /\ a \in Advertiser
          BY <4>1, LockersKnown DEF T!RefreshToken, HubInv, TokenRows
        <4> QED
          BY <4>1, <4>2, <4>3, TokensStay
      <3> QED
        BY <3>1, <3>2
    <2> QED
      BY <2>2, <2>3, <2>4, <2>5 DEF TokenRows
  <1>2. ASSUME NEW s \in Sync, SyncActs(s) PROVE TokenRows'
    <2>1. UNCHANGED <<pc, call, dirty>>
      BY <1>2 DEF SyncActs, tagVars
    <2>2. S!SyncAction(s)
      BY <1>2 DEF SyncActs
    <2>3. \A r \in Request :
            /\ pc'[r] = "refresh" => oauth'[call'[r].adv] # "absent"
            /\ \A a \in dirty'[r].tokens : a = call'[r].adv /\ oauth'[a] # "absent"
      BY <2>1, LockersKnown, TokensStay DEF HubInv, TokenRows
    <2>4. ASSUME NEW q \in Sync, q \in refreshed, q \in refreshed'
          PROVE  /\ oauth'[adv'[q]] # "absent"
                 /\ adv'[q] \in DOMAIN AdAccount /\ AdAccount[adv'[q]] # None
                 /\ \A r \in Request : adv'[q] \notin dirty'[r].tokens
      BY <2>1, <2>2, <2>4, SyncFacts, LockersKnown, TokensStay DEF HubInv, TokenRows
    <2>5. ASSUME NEW q \in Sync, q \notin refreshed, q \in refreshed'
          PROVE  /\ oauth'[adv'[q]] # "absent"
                 /\ adv'[q] \in DOMAIN AdAccount /\ AdAccount[adv'[q]] # None
                 /\ \A r \in Request : adv'[q] \notin dirty'[r].tokens
      <3>1. q = s /\ S!RefreshToken(s)
        BY <2>2, <2>5, SyncFacts
      <3>2. spc[s] = "refresh" /\ adv'[s] = adv[s]
        BY <2>2, <3>1, SyncFacts DEF S!RefreshToken
      <3>3. \A r \in Request : adv[s] \notin dirty[r].tokens
        BY <1>2, <3>1 DEF SyncActs
      <3> QED
        BY <2>1, <3>1, <3>2, <3>3, LockersKnown, TokensStay DEF HubInv, TokenRows
    <2>6. ASSUME NEW q \in Sync, spc'[q] = "refresh"
          PROVE  /\ oauth'[adv'[q]] # "absent"
                 /\ adv'[q] \in DOMAIN AdAccount /\ AdAccount[adv'[q]] # None
      <3>1. adv'[q] = adv[q]
        BY <2>2, <2>6, SyncFacts
      <3>2. CASE q = s
        <4>1. /\ oauth[adv[s]] = "expiring"
              /\ adv[s] \in DOMAIN AdAccount /\ AdAccount[adv[s]] # None
          BY <2>2, <2>6, <3>2, SyncFacts
        <4> QED
          BY <3>1, <3>2, <4>1, TokensStay, AccountsAssumption
      <3>3. CASE q # s
        BY <2>2, <2>6, <3>1, <3>3, SyncFacts, LockersKnown, TokensStay DEF HubInv, TokenRows
      <3> QED
        BY <3>2, <3>3
    <2>7. refreshed' \subseteq Sync
      BY <2>2, SyncFacts, LockersKnown
    <2> QED
      BY <2>3, <2>4, <2>5, <2>6, <2>7 DEF TokenRows
  <1>3. ASSUME UNCHANGED <<pc, call, dirty, spc, adv, refreshed>> PROVE TokenRows'
    BY <1>3, LockersKnown, TokensStay DEF HubInv, TokenRows
  <1>4. ASSUME NEW r \in Request, TagActs(r), T!MetaCatchesUp(r) PROVE TokenRows'
    BY <1>3, <1>4 DEF TagActs, syncVars, T!MetaCatchesUp, T!local
  <1> QED
    BY <1>1, <1>2, <1>3, <1>4, HubSteps DEF TagActs, vars, tagVars, syncVars

\* What a committed sync has listed, it has listed for good.
LEMMA ListedStays ==
  ASSUME HubInv, [Next]_vars, NEW p, NEW a, ListedFor(p, a)
  PROVE  ListedFor(p, a)'
  <1>1. PICK s \in Sync :
          spc[s] = "done" /\ adv[s] = a /\ \E e \in Syncs!Entries(s) : e.pixel = p
    BY DEF ListedFor
  <1>2. spc'[s] = "done" /\ adv'[s] = adv[s] /\ listing'[s] = listing[s]
    <2>1. ASSUME NEW q \in Sync, SyncActs(q)
          PROVE  spc'[s] = "done" /\ adv'[s] = adv[s] /\ listing'[s] = listing[s]
      BY <1>1, <2>1, SyncFacts DEF SyncActs
    <2>2. CASE UNCHANGED syncVars
      BY <1>1, <2>2 DEF syncVars
    <2> QED
      BY <2>1, <2>2, HubSteps DEF TagActs, vars
  <1> QED
    BY <1>1, <1>2 DEF ListedFor, Syncs!Entries

\* The pixels rows change by commits only, and a check reads one of them.
LEMMA PixelsListedStep ==
  ASSUME HubInv, [Next]_vars
  PROVE  PixelsListed'
  <1>1. ASSUME NEW p \in Pixel, NEW a, rows'[p] # None, rows'[p].owner = a
        PROVE  ListedFor(p, a)'
    <2>1. ListedFor(p, a) => ListedFor(p, a)'
      BY ListedStays
    <2>2. rows[p] # None /\ rows[p].owner = a => ListedFor(p, a)
      BY DEF HubInv, PixelsListed
    <2>3. ASSUME NEW s \in Sync, SyncActs(s), rows'[p] # rows[p]
          PROVE  ListedFor(p, a)'
      <3>1. S!Commit(s)
        BY <2>3, SyncFacts DEF SyncActs
      <3>2. CASE rows[p] # None /\ rows'[p].owner = rows[p].owner
        BY <1>1, <2>1, <2>2, <3>2
      <3>3. CASE rows'[p].owner = adv[s] /\ \E e \in S!Entries(s) : e.pixel = p
        <4>1. spc'[s] = "done" /\ adv'[s] = adv[s] /\ listing'[s] = listing[s]
          BY <3>1 DEF S!Commit, S!Goto, S!local, HubInv, S!IInv, S!TypeInv, S!TypeOK
        <4> QED
          BY <1>1, <3>3, <4>1 DEF ListedFor, Syncs!Entries, S!Entries
      <3> QED
        BY <2>3, <3>1, <3>2, <3>3, CommitFacts
    <2> QED
      BY <1>1, <2>1, <2>2, <2>3, HubSteps DEF TagActs, syncVars, vars
  <1>2. ASSUME NEW p \in Pixel, NEW a \in Advertiser, T!Bound(p, a)'
        PROVE  ListedFor(p, a)'
    <2>1. T!Bound(p, a) \/ Owner[p] = a
      BY <1>2, StepsMatch, T!BoundStep, CallsAssumption, AccountsAssumption
      DEF T!CallType, HubInv, T!IInv
    <2>2. Owner[p] = a => rows[p] # None /\ rows[p].owner = a
      BY RowsAssumption DEF Owner
    <2> QED
      BY <2>1, <2>2, ListedStays DEF HubInv, PixelsListed
  <1>3. \A p \in Pixel : rows'[p] # None => ListedFor(p, rows[p].owner)'
    BY <1>1 DEF ListedFor, Syncs!Entries
  <1> QED
    BY <1>2, <1>3 DEF PixelsListed

\* HubInv is inductive.
LEMMA HubStep == HubInv /\ [Next]_vars => HubInv'
  <1> SUFFICES ASSUME HubInv, [Next]_vars PROVE HubInv'
    OBVIOUS
  <1>1. T!IInv'
    BY StepsMatch, T!InvStep, CallsAssumption, AccountsAssumption DEF T!CallType, HubInv
  <1>2. S!IInv'
    BY StepsMatch, S!NextInv, AccountsAssumption, RowsAssumption, ListingsAssumption
    DEF S!Entry, S!Row, HubInv
  <1> QED
    BY <1>1, <1>2, TokenRowsStep, PixelsListedStep DEF HubInv

\* Both components' invariants hold of the whole, and so do the two that tie them.
THEOREM HubInvariant == Spec => []HubInv
  BY HubInit, HubStep, PTL DEF Spec
-----------------------------------------------------------------------------
(***************************************************************************)
(* Theorems.                                                               *)
(***************************************************************************)
\* The requests live in the environment that ConversionTags assumes: a sync
\* does no more to them than PixelSynced, for any number of either.
THEOREM TagsImplemented == Spec => ImplementsTags
  <1>1. Init => Tags!Init
    BY DEF Init
  <1>2. HubInv /\ [Next]_vars => [Tags!Next]_(Tags!vars)
    BY StepsMatch, SameTags
    DEF T!vars, T!local, T!outcome, T!tables, T!world,
        Tags!vars, Tags!local, Tags!outcome, Tags!tables, Tags!world
  <1> QED
    BY <1>1, <1>2, HubInvariant, PTL DEF Spec, ImplementsTags, Tags!Spec

\* The syncs live in the environment that PixelSync assumes: a request does no
\* more to them than TokenRefreshed.
THEOREM SyncsImplemented == Spec => ImplementsSyncs
  <1>1. Init => Syncs!Init
    BY DEF Init
  <1>2. HubInv /\ [Next]_vars => [Syncs!Next]_(Syncs!vars)
    BY StepsMatch, SameSyncs
    DEF S!vars, S!local, S!writes, S!tables,
        Syncs!vars, Syncs!local, Syncs!writes, Syncs!tables
  <1> QED
    BY <1>1, <1>2, HubInvariant, PTL DEF Spec, ImplementsSyncs, Syncs!Spec

\* Every tag that is stored names a pixel that a committed sync listed for the
\* tag's advertiser, however often pixels change hands between check and commit.
THEOREM TaggedListed == Spec => []TaggedPixelsWereListed
  <1>1. ASSUME HubInv PROVE TaggedPixelsWereListed
    <2>1. \A t \in tags : t.pixel \in Pixel /\ t.adv \in Advertiser
      BY <1>1 DEF HubInv, T!IInv, T!TypeInv, T!TypeOK, T!TagRow
    <2>2. \A t \in tags : T!Bound(t.pixel, t.adv)
      BY DEF T!Bound
    <2> QED
      BY <1>1, <2>1, <2>2 DEF HubInv, PixelsListed, TaggedPixelsWereListed
  <1> QED
    BY <1>1, HubInvariant, PTL

\* A sync that waits for a token row holds nothing, so nobody waits for it.
LEMMA NobodyBehindRefresh ==
  ASSUME HubInv, NEW s \in Sync, spc[s] = "refresh", NEW x \in Request \cup Sync
  PROVE  ~Waits(x, s)
  <1>1. s \notin refreshed /\ \A p \in Pixel : written[s][p] = None
    BY DEF HubInv, S!IInv, S!Held, S!Upserting, S!Untouched
  <1>2. ASSUME x \in Sync, Syncs!Waits(x, s) PROVE FALSE
    <2>1. spc[x] = "write" /\ written[s][S!Current(x).pixel] # None
      BY <1>1, <1>2 DEF Syncs!Waits, Syncs!TokenHeldBy,
             Syncs!RowHeldBy, Syncs!Current, S!Current
    <2>2. S!Current(x).pixel \in Pixel
      BY <1>2, <2>1, S!CurrentFacts, AccountsAssumption, RowsAssumption, ListingsAssumption
      DEF S!Entry, S!Row, HubInv, S!IInv
    <2> QED
      BY <1>1, <2>1, <2>2
  <1> QED
    BY <1>1, <1>2, SessionsAssumption DEF Waits, TagWaitsForSync, Syncs!TokenHeldBy

\* Between requests, who waits is behind whom it waits for.
LEMMA RequestsInTurn ==
  ASSUME HubInv, NEW q \in Request, NEW r \in Request, Waits(q, r)
  PROVE  T!Stage(q) < T!Stage(r)
  <1>1. T!Waits(q, r)
    BY SessionsAssumption
    DEF Waits, Tags!Waits, T!Waits, Tags!TagKeyHeldBy, T!TagKeyHeldBy, Tags!TokenHeldBy,
        T!TokenHeldBy, Tags!KeyHeldBy, T!KeyHeldBy, Tags!SameSlot, T!SameSlot
  <1>2. T!WaitersBehindHolders
    BY T!WaitersBehind, CallsAssumption, AccountsAssumption DEF T!CallType, HubInv
  <1> QED
    BY <1>1, <1>2 DEF T!WaitersBehindHolders

\* A cycle of waits has only upserting syncs in it: it has no sync at a token
\* row, so every request in it would have another one behind it, endlessly.
THEOREM OnlyUpserts == Spec => []OnlyUpsertsDeadlock
  <1>1. ASSUME HubInv PROVE OnlyUpsertsDeadlock
    <2> SUFFICES ASSUME NEW C \in SUBSET (Request \cup Sync),
                        \A x \in C : (\E y \in C : Waits(x, y)) /\ (\E y \in C : Waits(y, x))
                 PROVE  C \subseteq {s \in Sync : spc[s] = "write"}
      BY DEF OnlyUpsertsDeadlock
    <2>1. \A s \in C \cap Sync : spc[s] = "write"
      <3> SUFFICES ASSUME NEW s \in C \cap Sync PROVE spc[s] = "write"
        OBVIOUS
      <3>1. PICK x \in C : Waits(s, x)
        OBVIOUS
      <3>2. spc[s] \in {"refresh", "write"}
        BY <3>1, SessionsAssumption DEF Waits, Syncs!Waits, SyncWaitsForTag
      <3> QED
        BY <1>1, <3>2, NobodyBehindRefresh
    <2>2. \A r \in C \cap Request : \E q \in C \cap Request : Waits(q, r)
      <3> SUFFICES ASSUME NEW r \in C \cap Request PROVE \E q \in C \cap Request : Waits(q, r)
        OBVIOUS
      <3>1. PICK x \in C : Waits(x, r)
        OBVIOUS
      <3> QED
        BY <2>1, <3>1, SessionsAssumption DEF Waits, SyncWaitsForTag
    <2>3. \A r \in C \cap Request : T!Stage(r) \in 1..3
      <3> SUFFICES ASSUME NEW r \in C \cap Request PROVE T!Stage(r) \in 1..3
        OBVIOUS
      <3>1. PICK x \in C : Waits(r, x)
        OBVIOUS
      <3>2. pc[r] \in {"insert", "refresh", "store"}
        BY <3>1, SessionsAssumption DEF Waits, Tags!Waits, TagWaitsForSync
      <3> QED
        BY <3>2 DEF T!Stage
    <2>4. \A r \in C \cap Request : \E q \in C \cap Request : T!Stage(q) < T!Stage(r)
      BY <1>1, <2>2, RequestsInTurn
    <2>5. C \cap Request = {}
      <3> DEFINE stages == {T!Stage(r) : r \in C \cap Request}
      <3>1. stages \subseteq 1..3
        BY <2>3
      <3>2. \A m \in stages : \E n \in stages : n < m
        BY <2>4
      <3> HIDE DEF stages
      <3>3. 1 \notin stages /\ 2 \notin stages /\ 3 \notin stages
        BY <3>1, <3>2
      <3>4. stages = {}
        BY <3>1, <3>3
      <3> QED
        BY <3>4 DEF stages
    <2> QED
      BY <2>1, <2>5
  <1> QED
    BY <1>1, HubInvariant, PTL

\* Every variable of the whole stays within its type.
THEOREM HubTypes == Spec => []TypeOK
  <1>1. T!TypeOK => Tags!TypeOK
    BY DEF T!TypeOK, Tags!TypeOK, T!Label, Tags!Label, T!CallType, Tags!CallType,
           T!TagRow, Tags!TagRow, T!ConversionId, Tags!ConversionId, T!Reply, Tags!Reply,
           T!Code, Tags!Code, T!WriteSet, Tags!WriteSet, T!Record, Tags!Record,
           T!Hash, Tags!Hash, T!Token, Tags!Token, T!Conversion, Tags!Conversion
  <1>2. S!TypeOK => Syncs!TypeOK
    BY DEF S!TypeOK, Syncs!TypeOK, S!Label, Syncs!Label, S!Row, Syncs!Row,
           S!Token, Syncs!Token
  <1>3. HubInv => TypeOK
    BY <1>1, <1>2 DEF HubInv, T!IInv, T!TypeInv, S!IInv, S!TypeInv, TypeOK
  <1> QED
    BY <1>3, HubInvariant, PTL

\* What is proved of the components holds of the whole: among real syncs the
\* tables implement TagRegistry, among real requests PixelTable.
COROLLARY TablesImplemented == Spec => Tags!ImplementsRegistry /\ Syncs!ImplementsTable
  <1>1. Spec => T!Spec /\ S!Spec
    <2>1. Init => T!Init /\ S!Init
      BY SameTags, SameSyncs DEF Init
    <2>2. HubInv /\ [Next]_vars => [T!Next]_(T!vars) /\ [S!Next]_(S!vars)
      BY StepsMatch
    <2> QED
      BY <2>1, <2>2, HubInvariant, PTL DEF Spec, T!Spec, S!Spec
  <1>2. T!Spec => T!ImplementsRegistry
    BY T!Implementation, CallsAssumption, AccountsAssumption DEF T!CallType
  <1>3. S!Spec => S!ImplementsTable
    BY S!TableImplemented, AccountsAssumption, RowsAssumption, ListingsAssumption
    DEF S!Entry, S!Row
  <1>4. /\ T!Registry!Init <=> Tags!Registry!Init
        /\ [T!Registry!Next]_(T!Registry!vars) <=> [Tags!Registry!Next]_(Tags!Registry!vars)
    <2>1. T!TagRow = Tags!TagRow /\ T!Record = Tags!Record /\ T!ConversionId = Tags!ConversionId
      BY DEF T!TagRow, Tags!TagRow, T!Record, Tags!Record, T!Hash, Tags!Hash,
             T!ConversionId, Tags!ConversionId
    <2>2. T!Registry!Next <=> Tags!Registry!Next
      BY <2>1
      DEF T!Registry!SameSlot, Tags!Registry!SameSlot,
        T!Registry!Convert, Tags!Registry!Convert,
        T!Registry!Register, Tags!Registry!Register,
        T!Registry!Remember, Tags!Registry!Remember,
        T!Registry!Settle, Tags!Registry!Settle, T!Registry!Next, Tags!Registry!Next
    <2>3. T!Registry!vars = Tags!Registry!vars /\ T!Registry!vars' = Tags!Registry!vars'
      BY DEF T!Registry!vars, Tags!Registry!vars
    <2>4. T!Registry!Init <=> Tags!Registry!Init
      BY DEF T!Registry!Init, Tags!Registry!Init
    <2> QED
      BY <2>2, <2>3, <2>4
  <1>5. /\ S!Table!Init <=> Syncs!Table!Init
        /\ [S!Table!Next]_(S!Table!vars) <=> [Syncs!Table!Next]_(Syncs!Table!vars)
    BY DEF S!Table!vars, Syncs!Table!vars, S!Table!Row, Syncs!Table!Row,
      S!Table!Init, Syncs!Table!Init, S!Table!List, Syncs!Table!List,
      S!Table!Upserted, Syncs!Table!Upserted, S!Table!Reconcile, Syncs!Table!Reconcile,
      S!Table!Next, Syncs!Table!Next
  <1>6. T!Registry!Spec => Tags!Registry!Spec
    BY <1>4, PTL DEF T!Registry!Spec, Tags!Registry!Spec
  <1>7. S!Table!Spec => Syncs!Table!Spec
    BY <1>5, PTL DEF S!Table!Spec, Syncs!Table!Spec
  <1> QED
    BY <1>1, <1>2, <1>3, <1>6, <1>7
    DEF T!ImplementsRegistry, Tags!ImplementsRegistry, S!ImplementsTable, Syncs!ImplementsTable
=============================================================================
