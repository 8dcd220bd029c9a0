--------------------------- MODULE ConversionTags ---------------------------
(***************************************************************************)
(* POST /advertisers/{id}/conversion-tags: concurrent requests, each one   *)
(* database transaction, one call to Meta and one reply.                   *)
(*                                                                         *)
(* A request runs create_conversion_tag in a worker thread with a session  *)
(* of its own.  What its session has flushed but not committed is its      *)
(* write set `dirty[r]': nobody else reads it (READ COMMITTED), but a row  *)
(* in it blocks every other session that needs the same unique key or the  *)
(* same row, until the session commits or rolls back.                      *)
(*                                                                         *)
(* Each label of `pc' names the statement of the handler about to run; two *)
(* labels are apart whenever another session, Meta or a crash can be seen  *)
(* to act between the statements.                                          *)
(***************************************************************************)

EXTENDS Naturals

CONSTANTS
  Request,            \* HTTP requests; also the uuids of the rows they insert
  Advertiser, Account, Name, Pixel, Key,
  Detail,             \* event type, category, value, currency and rule
  AdAccount,          \* registered advertiser |-> meta_ad_account_id
  Refreshable,        \* advertisers with a stored refresh token
  Call,               \* the calls clients make
  ReplyBeforeCommit,  \* does FastAPI reply before get_session resumes?
  None

CallType == [adv : Advertiser, name : Name, pixel : Pixel, detail : Detail,
             key : Key \cup {None}]

ASSUME CallAssumption == Call \subseteq CallType
ASSUME AdAccountAssumption ==
  /\ DOMAIN AdAccount \subseteq Advertiser
  /\ \A a \in DOMAIN AdAccount : AdAccount[a] \in Account \cup {None}
ASSUME RefreshableAssumption == Refreshable \subseteq Advertiser
ASSUME ReplyOrderAssumption == ReplyBeforeCommit \in BOOLEAN

(***************************************************************************)
(* Rows.  `meta' is meta_custom_conversion_id: ids are stable in the       *)
(* account and the name.  An idempotency record keeps the row it replays.  *)
(***************************************************************************)
ConversionId == Account \X Name

TagRow == [id : Request, adv : Advertiser, name : Name, pixel : Pixel,
           detail : Detail, status : {"PENDING", "ACTIVE", "FAILED"},
           meta : ConversionId \cup {None}]

Hash == [adv : Advertiser, name : Name, pixel : Pixel, detail : Detail]

Record == [key : Key, hash : Hash, body : TagRow]

Conversion == [id : ConversionId, pixel : Pixel, detail : Detail]

Token == {"absent", "valid", "expiring"}

WriteSet == [tags : SUBSET TagRow, records : SUBSET Record,
             tokens : SUBSET Advertiser]

Code == {"created", "not_found", "conflict", "idempotency_conflict",
         "upstream_error", "server_error"}

Reply == [code : Code, tag : TagRow \cup {None}, replayed : BOOLEAN]

VARIABLES
  pc,          \* where each request's handler is
  call,        \* its parsed input
  tag,         \* the handler's local `tag'
  reply,       \* the reply it returned or raised
  answered,    \* requests whose reply has left for the client
  dirty,       \* flushed, uncommitted writes of its session
  tags,        \* committed rows of conversion_tags
  records,     \* committed rows of idempotency_records
  oauth,       \* committed oauth_tokens row of each advertiser
  pixelOwner,  \* committed pixels.advertiser_id, None when never synced
  conversions, \* custom conversions that exist at Meta
  inFlight     \* requests whose call was given up and may still reach Meta

local == <<call, tag>>
outcome == <<reply, answered>>
tables == <<tags, records, oauth>>
world == <<pixelOwner, conversions, inFlight>>
vars == <<pc, local, outcome, dirty, tables, world>>

Clean == [tags |-> {}, records |-> {}, tokens |-> {}]

Label == {"idle", "lookup", "check", "find", "insert", "token", "refresh",
          "meta", "activate", "store", "commit", "reply", "rollback",
          "done", "crashed"}

\* Mutation: the hash of the body alone, without the advertiser of the path.
hash_request_BodyOnly(c) ==
  [adv |-> CHOOSE a \in Advertiser : TRUE,
   name |-> c.name, pixel |-> c.pixel, detail |-> c.detail]

\* The parts of the input that the body and the path carry, and the hash of them.
hash_request(c) ==
  [adv |-> c.adv, name |-> c.name, pixel |-> c.pixel, detail |-> c.detail]

\* Same (advertiser, name): the key of uq_conversion_tags_advertiser_id_name.
SameSlot(x, y) == x.adv = y.adv /\ x.name = y.name

get_by_advertiser_and_name(c) == {t \in tags : SameSlot(t, c)}

get_record(k) == {x \in records : x.key = k}

Others(r) == Request \ {r}

Goto(r, l) == pc' = [pc EXCEPT ![r] = l]

(***************************************************************************)
(* Leaving the handler: a return value waits for the commit or goes out    *)
(* before it, an exception makes get_session roll back first.              *)
(***************************************************************************)
Return(r, t, isReplay) ==
  /\ reply' = [reply EXCEPT ![r] =
                 [code |-> "created", tag |-> t, replayed |-> isReplay]]
  /\ Goto(r, IF ReplyBeforeCommit THEN "reply" ELSE "commit")

\* Mutation: the exception is swallowed and get_session commits.
Raise_Commits(r, code) ==
  /\ reply' = [reply EXCEPT ![r] =
                 [code |-> code, tag |-> None, replayed |-> FALSE]]
  /\ Goto(r, "commit")

Raise(r, code) ==
  /\ reply' = [reply EXCEPT ![r] =
                 [code |-> code, tag |-> None, replayed |-> FALSE]]
  /\ Goto(r, "rollback")

\* session.flush() of a changed tag row: it replaces the row with the same id.
Flush(r, t) ==
  dirty' = [dirty EXCEPT ![r].tags = {u \in @ : u.id # t.id} \cup {t}]
-----------------------------------------------------------------------------
Init ==
  /\ pc = [r \in Request |-> "idle"]
  /\ call = [r \in Request |-> None]
  /\ tag = [r \in Request |-> None]
  /\ reply = [r \in Request |-> None]
  /\ answered = {}
  /\ dirty = [r \in Request |-> Clean]
  /\ tags = {}
  /\ records = {}
  /\ oauth \in [Advertiser -> Token]
  /\ pixelOwner \in [Pixel -> DOMAIN AdAccount \cup {None}]
  /\ conversions = {}
  /\ inFlight = {}

\* A client posts: a first attempt, a retry or a duplicate, in any number.
Receive(r) ==
  /\ pc[r] = "idle"
  /\ \E c \in Call :
       /\ call' = [call EXCEPT ![r] = c]
       /\ Goto(r, IF c.key = None THEN "check" ELSE "lookup")
  /\ UNCHANGED <<tag, outcome, dirty, tables, world>>

\* IdempotencyService.lookup; expires_at is stored but never read.
Lookup(r) ==
  /\ pc[r] = "lookup"
  /\ \/ /\ get_record(call[r].key) = {}
        /\ Goto(r, "check")
        /\ UNCHANGED reply
     \/ \E x \in get_record(call[r].key) :
          /\ x.hash # hash_request(call[r])
          /\ Raise(r, "idempotency_conflict")
     \/ \E x \in get_record(call[r].key) :
          /\ x.hash = hash_request(call[r])
          /\ Return(r, x.body, TRUE)
  /\ UNCHANGED <<local, answered, dirty, tables, world>>

TokenHeldBy(q, a) == a \in dirty[q].tokens

\* Mutation: an expiring token is refreshed up front, before the tag's insert.
CheckTarget_RefreshesFirst(r) ==
  LET a == call[r].adv
  IN  /\ pc[r] = "check"
      /\ a \in DOMAIN AdAccount
      /\ \A q \in Others(r) : ~TokenHeldBy(q, a)
      /\ dirty' = [dirty EXCEPT ![r].tokens =
                     IF oauth[a] = "expiring" THEN {a} ELSE {}]
      /\ Goto(r, "find")
      /\ UNCHANGED <<local, outcome, tables, world>>

\* Mutation: the pixel is only known to exist, not to be the advertiser's.
CheckTarget_AnyPixel(r) ==
  LET a == call[r].adv
  IN  /\ pc[r] = "check"
      /\ a \in DOMAIN AdAccount
      /\ AdAccount[a] # None
      /\ pixelOwner[call[r].pixel] # None
      /\ Goto(r, "find")
      /\ UNCHANGED <<local, outcome, dirty, tables, world>>

\* The advertiser exists and has an ad account, the pixel is the advertiser's.
CheckTarget(r) ==
  LET c == call[r]
  IN  /\ pc[r] = "check"
      /\ \/ c.adv \notin DOMAIN AdAccount /\ Raise(r, "not_found")
         \/ /\ c.adv \in DOMAIN AdAccount
            /\ AdAccount[c.adv] = None
            /\ Raise(r, "upstream_error")
         \/ /\ c.adv \in DOMAIN AdAccount
            /\ AdAccount[c.adv] # None
            /\ pixelOwner[c.pixel] # c.adv
            /\ Raise(r, "not_found")
         \/ /\ c.adv \in DOMAIN AdAccount
            /\ AdAccount[c.adv] # None
            /\ pixelOwner[c.pixel] = c.adv
            /\ Goto(r, "find")
            /\ UNCHANGED reply
      /\ UNCHANGED <<local, answered, dirty, tables, world>>

\* An ACTIVE row is the answer; any other row is taken up again.
FindTag(r) ==
  /\ pc[r] = "find"
  /\ \/ /\ get_by_advertiser_and_name(call[r]) = {}
        /\ Goto(r, "insert")
        /\ UNCHANGED tag
     \/ \E t \in get_by_advertiser_and_name(call[r]) :
          /\ tag' = [tag EXCEPT ![r] = t]
          /\ Goto(r, IF t.status = "ACTIVE" THEN "store" ELSE "token")
  /\ UNCHANGED <<call, outcome, dirty, tables, world>>

NewTag(r) ==
  [id |-> r, adv |-> call[r].adv, name |-> call[r].name,
   pixel |-> call[r].pixel, detail |-> call[r].detail,
   status |-> "PENDING", meta |-> None]

\* Another session holds an uncommitted row with this unique key.
TagKeyHeldBy(q, c) == \E t \in dirty[q].tags : SameSlot(t, c)

\* Mutation: no unique key that makes a second insert wait.
InsertTag_NoWait(r) ==
  /\ pc[r] = "insert"
  /\ get_by_advertiser_and_name(call[r]) = {}
  /\ tag' = [tag EXCEPT ![r] = NewTag(r)]
  /\ Flush(r, NewTag(r))
  /\ Goto(r, "token")
  /\ UNCHANGED <<call, outcome, tables, world>>

\* tags.create: the flush waits for the key, then inserts or violates it.
InsertTag(r) ==
  /\ pc[r] = "insert"
  /\ \A q \in Others(r) : ~TagKeyHeldBy(q, call[r])
  /\ get_by_advertiser_and_name(call[r]) = {}
  /\ tag' = [tag EXCEPT ![r] = NewTag(r)]
  /\ Flush(r, NewTag(r))
  /\ Goto(r, "token")
  /\ UNCHANGED <<call, outcome, tables, world>>

\* `except Exception': nothing else is in the session yet, so its own rollback
\* and that of get_session come to the same.
InsertConflicts(r) ==
  /\ pc[r] = "insert"
  /\ \A q \in Others(r) : ~TagKeyHeldBy(q, call[r])
  /\ get_by_advertiser_and_name(call[r]) # {}
  /\ Raise(r, "conflict")
  /\ UNCHANGED <<local, answered, dirty, tables, world>>

\* A numeric overflow, a cancelled wait or a lost connection reads as a conflict too.
InsertFails(r) ==
  /\ pc[r] = "insert"
  /\ Raise(r, "conflict")
  /\ UNCHANGED <<local, answered, dirty, tables, world>>

\* OAuthService.get_access_token up to the refresh's UPDATE.
GetToken(r) ==
  LET a == call[r].adv
  IN  /\ pc[r] = "token"
      /\ \/ oauth[a] = "valid" /\ Goto(r, "meta") /\ UNCHANGED reply
         \/ /\ oauth[a] = "expiring" /\ a \in Refreshable
            /\ Goto(r, "refresh") /\ UNCHANGED reply
         \/ /\ oauth[a] = "absent" \/ (oauth[a] = "expiring" /\ a \notin Refreshable)
            /\ Raise(r, "not_found")
      /\ UNCHANGED <<local, answered, dirty, tables, world>>

\* The refreshed token is flushed: the UPDATE waits for the row.
RefreshToken(r) ==
  /\ pc[r] = "refresh"
  /\ \A q \in Others(r) : ~TokenHeldBy(q, call[r].adv)
  /\ dirty' = [dirty EXCEPT ![r].tokens = @ \cup {call[r].adv}]
  /\ Goto(r, "meta")
  /\ UNCHANGED <<local, outcome, tables, world>>

MetaId(r) == <<AdAccount[call[r].adv], call[r].name>>

\* Meta is name-unique per ad account: a second create finds the first.
CreateAtMeta(r) ==
  conversions' =
    IF \E v \in conversions : v.id = MetaId(r)
      THEN conversions
      ELSE conversions \cup
             {[id |-> MetaId(r), pixel |-> call[r].pixel, detail |-> call[r].detail]}

MetaCreates(r) ==
  /\ pc[r] = "meta"
  /\ CreateAtMeta(r)
  /\ Goto(r, "activate")
  /\ UNCHANGED <<local, outcome, dirty, tables, pixelOwner, inFlight>>

\* The handler stops waiting for Meta, which may act on the call all the same.
GiveUp(r) ==
  /\ pc[r] = "meta"
  /\ inFlight' = inFlight \cup {r}
  /\ UNCHANGED <<pixelOwner, conversions>>

\* MetaError: the row is flushed as FAILED, then the exception propagates.
MetaFails(r) ==
  /\ GiveUp(r)
  /\ tag' = [tag EXCEPT ![r].status = "FAILED"]
  /\ Flush(r, [tag[r] EXCEPT !.status = "FAILED"])
  /\ Raise(r, "upstream_error")
  /\ UNCHANGED <<call, answered, tables>>

\* Anything else the call raises (httpx.TransportError, a malformed body).
MetaBreaks(r) ==
  /\ GiveUp(r)
  /\ Raise(r, "server_error")
  /\ UNCHANGED <<local, answered, dirty, tables>>

\* A call that timed out, or an earlier attempt of one, takes effect late.
MetaCatchesUp(r) ==
  /\ r \in inFlight
  /\ CreateAtMeta(r)
  /\ inFlight' = inFlight \ {r}
  /\ UNCHANGED <<pc, local, outcome, dirty, tables, pixelOwner>>

Activate(r) ==
  LET t == [tag[r] EXCEPT !.status = "ACTIVE", !.meta = MetaId(r)]
  IN  /\ pc[r] = "activate"
      /\ tag' = [tag EXCEPT ![r] = t]
      /\ Flush(r, t)
      /\ Goto(r, "store")
      /\ UNCHANGED <<call, outcome, tables, world>>

KeyHeldBy(q, k) == \E x \in dirty[q].records : x.key = k

NewRecord(r) ==
  [key |-> call[r].key, hash |-> hash_request(call[r]), body |-> tag[r]]

\* Mutation: requests without a key store a record too.
StoreRecord_Always(r) ==
  /\ pc[r] = "store"
  /\ \A q \in Others(r) : ~KeyHeldBy(q, call[r].key)
  /\ dirty' = [dirty EXCEPT ![r].records = {NewRecord(r)}]
  /\ Return(r, tag[r], FALSE)
  /\ UNCHANGED <<local, answered, tables, world>>

\* Mutation: the record is committed in a session of its own.
StoreRecord_OwnSession(r) ==
  /\ pc[r] = "store"
  /\ records' = IF call[r].key = None \/ get_record(call[r].key) # {}
                  THEN records ELSE records \cup {NewRecord(r)}
  /\ Return(r, tag[r], FALSE)
  /\ UNCHANGED <<local, answered, dirty, tags, oauth, world>>

\* Without an Idempotency-Key nothing is stored.  With one the flush waits
\* for the key; if it is taken, the whole session is rolled back, the record
\* found is dropped and the request still returns its own tag.
StoreRecord(r) ==
  /\ pc[r] = "store"
  /\ \/ call[r].key = None /\ UNCHANGED dirty
     \/ /\ call[r].key # None
        /\ \A q \in Others(r) : ~KeyHeldBy(q, call[r].key)
        /\ dirty' = [dirty EXCEPT ![r] =
                       IF get_record(call[r].key) = {}
                         THEN [@ EXCEPT !.records = {NewRecord(r)}]
                         ELSE Clean]
  /\ Return(r, tag[r], FALSE)
  /\ UNCHANGED <<local, answered, tables, world>>

\* Any other failure to store the record becomes an HTTP 500.
StoreRecordFails(r) ==
  /\ pc[r] = "store"
  /\ call[r].key # None
  /\ Raise(r, "server_error")
  /\ UNCHANGED <<local, answered, dirty, tables, world>>

\* The database drops the session under any other statement: an HTTP 500.
StatementFails(r) ==
  /\ pc[r] \in {"lookup", "check", "find", "token", "refresh", "activate"}
  /\ Raise(r, "server_error")
  /\ UNCHANGED <<local, answered, dirty, tables, world>>

\* The database has committed what the session wrote.
Committed(r) ==
  LET w == dirty[r]
  IN  /\ pc[r] = "commit"
      /\ tags' = {t \in tags : \A u \in w.tags : u.id # t.id} \cup w.tags
      /\ records' = records \cup w.records
      /\ oauth' = [a \in Advertiser |->
                     IF a \in w.tokens THEN "valid" ELSE oauth[a]]
      /\ dirty' = [dirty EXCEPT ![r] = Clean]
      /\ UNCHANGED <<local, answered, world>>

\* get_session resumes after the handler returned.
Commit(r) ==
  /\ Committed(r)
  /\ Goto(r, IF ReplyBeforeCommit THEN "done" ELSE "reply")
  /\ UNCHANGED reply

\* The connection is lost between the commit and the word of it: a 500 for rows
\* that are stored.  (Once the reply is out this is no different from a Commit.)
CommitUnacknowledged(r) ==
  /\ ~ReplyBeforeCommit
  /\ Committed(r)
  /\ Raise(r, "server_error")

\* Mutation: the failed commit is logged and the reply sent all the same.
CommitFails_Swallowed(r) ==
  /\ pc[r] = "commit"
  /\ dirty' = [dirty EXCEPT ![r] = Clean]
  /\ Goto(r, "reply")
  /\ UNCHANGED <<local, outcome, tables, world>>

\* The connection is lost before the commit: nothing of the session survives.
CommitFails(r) ==
  /\ pc[r] = "commit"
  /\ dirty' = [dirty EXCEPT ![r] = Clean]
  /\ IF ReplyBeforeCommit
       THEN Goto(r, "done") /\ UNCHANGED reply
       ELSE Raise(r, "server_error")
  /\ UNCHANGED <<local, answered, tables, world>>

SendReply(r) ==
  /\ pc[r] = "reply"
  /\ answered' = answered \cup {r}
  /\ Goto(r, IF ReplyBeforeCommit THEN "commit" ELSE "done")
  /\ UNCHANGED <<local, reply, dirty, tables, world>>

\* Mutation: the session is neither rolled back nor closed.
Rollback_Leaks(r) ==
  /\ pc[r] = "rollback"
  /\ answered' = answered \cup {r}
  /\ Goto(r, "done")
  /\ UNCHANGED <<local, reply, dirty, tables, world>>

\* get_session rolls back, then the exception handler's response is sent.
Rollback(r) ==
  /\ pc[r] = "rollback"
  /\ dirty' = [dirty EXCEPT ![r] = Clean]
  /\ answered' = answered \cup {r}
  /\ Goto(r, "done")
  /\ UNCHANGED <<local, reply, tables, world>>

\* The process dies or its container is reclaimed; Postgres aborts the session.
Crash(r) ==
  /\ pc[r] \notin {"idle", "done", "crashed"}
  /\ dirty' = [dirty EXCEPT ![r] = Clean]
  /\ Goto(r, "crashed")
  /\ GiveUp(r) \/ (pc[r] # "meta" /\ UNCHANGED world)
  /\ UNCHANGED <<local, outcome, tables>>

\* An access token comes within the refresh leeway of its expiry.
TokenExpires(a) ==
  /\ oauth[a] = "valid"
  /\ oauth' = [oauth EXCEPT ![a] = "expiring"]
  /\ UNCHANGED <<pc, local, outcome, dirty, tags, records, world>>

\* A pixel sync of a commits: some pixels are its own from now on, and so is
\* the token that it refreshed, whose row it had locked.
PixelSynced(a) ==
  /\ AdAccount[a] # None
  /\ \E P \in SUBSET Pixel :
       pixelOwner' = [p \in Pixel |-> IF p \in P THEN a ELSE pixelOwner[p]]
  /\ \/ UNCHANGED oauth
     \/ /\ oauth[a] # "absent"
        /\ \A q \in Request : ~TokenHeldBy(q, a)
        /\ oauth' = [oauth EXCEPT ![a] = "valid"]
  /\ UNCHANGED <<pc, local, outcome, dirty, tags, records, conversions, inFlight>>

\* What the handler does next when nothing fails under it.
Step(r) ==
  \/ Lookup(r) \/ CheckTarget(r) \/ FindTag(r)
  \/ InsertTag(r) \/ InsertConflicts(r) \/ GetToken(r) \/ RefreshToken(r)
  \/ MetaCreates(r) \/ MetaFails(r) \/ MetaBreaks(r) \/ Activate(r)
  \/ StoreRecord(r) \/ Commit(r) \/ SendReply(r) \/ Rollback(r)

Fault(r) ==
  \/ InsertFails(r) \/ StoreRecordFails(r) \/ StatementFails(r)
  \/ CommitUnacknowledged(r) \/ CommitFails(r) \/ Crash(r)

Environment ==
  \/ \E a \in Advertiser : TokenExpires(a)
  \/ \E a \in DOMAIN AdAccount : PixelSynced(a)
  \/ \E r \in Request : MetaCatchesUp(r)

\* Every request has ended: the instance has nothing left to do.
Terminating ==
  /\ \A r \in Request : pc[r] \in {"done", "crashed"}
  /\ UNCHANGED vars

Next ==
  \/ \E r \in Request : Receive(r) \/ Step(r) \/ Fault(r)
  \/ Environment
  \/ Terminating

Spec == Init /\ [][Next]_vars

\* A thread that can run does, and a call to Meta ends.  A wait for a lock ends
\* only when its holder's session does: no failure is assumed to break it.
Fairness == \A r \in Request : WF_vars(Step(r))

FairSpec == Spec /\ Fairness
-----------------------------------------------------------------------------
\* Every variable stays within its type.
TypeOK ==
  /\ pc \in [Request -> Label]
  /\ call \in [Request -> CallType \cup {None}]
  /\ tag \in [Request -> TagRow \cup {None}]
  /\ reply \in [Request -> Reply \cup {None}]
  /\ answered \subseteq Request
  /\ dirty \in [Request -> WriteSet]
  /\ tags \subseteq TagRow
  /\ records \subseteq Record
  /\ oauth \in [Advertiser -> Token]
  /\ pixelOwner \in [Pixel -> Advertiser \cup {None}]
  /\ conversions \subseteq Conversion
  /\ inFlight \subseteq Request

\* A row outlives its request only as an ACTIVE tag whose conversion exists at
\* Meta under the id it names: the PENDING insert and the FAILED update share
\* the transaction that get_session rolls back, so no other request (and no
\* GET) ever sees a half-made tag.  This is the opposite of what the model's
\* docstring says (models/conversion_tag.py:22-23): that callers can read back
\* rows that are mid-creation.
CommittedTagsActive ==
  \A t \in tags :
    /\ t.status = "ACTIVE"
    /\ t.meta = <<AdAccount[t.adv], t.name>>
    /\ \E v \in conversions : v.id = t.meta

\* A stored idempotency record replays a tag that is really in the table, and
\* one of the advertiser and name that its request hash was computed from:
\* the record and the row it quotes are committed together or not at all.
RecordsNameStoredTags ==
  \A x \in records : x.body \in tags /\ SameSlot(x.body, x.hash)

\* Keys are scoped by endpoint only, so two advertisers may send the same one:
\* whatever is replayed, a client is only shown a tag of the advertiser and
\* the name that it asked for.
CreatedReplyIsOwn ==
  \A r \in answered :
    reply[r].code = "created" => SameSlot(reply[r].tag, call[r])

\* A 201 names a row that has been committed.
CreatedTagIsStored ==
  \A r \in answered : reply[r].code = "created" => reply[r].tag \in tags

\* Every use of an Idempotency-Key carries the same body.
ProperKeys ==
  \A q, r \in Request :
    (pc[q] # "idle" /\ pc[r] # "idle" /\ call[q].key = call[r].key
       /\ call[r].key # None)
    => hash_request(call[q]) = hash_request(call[r])

\* If clients use keys properly a 201 is never for a tag that was rolled back,
\* although a lost race for the key rolls back the session of the request
\* that goes on to answer 201.  So it is where get_session commits before the
\* reply is sent; with ReplyBeforeCommit a commit may fail behind any 201.
ProperlyKeyedTagIsStored == ProperKeys => CreatedTagIsStored

CallsMeta(r) == pc[r] \in {"token", "refresh", "meta", "activate"}

\* While a request is between its insert and its flush of the outcome, no
\* other request works on the same (advertiser, name): the uncommitted row is
\* what keeps two of them from creating at Meta for one tag.
MetaCallsExclusive ==
  \A q, r \in Request :
    CallsMeta(q) /\ CallsMeta(r) /\ SameSlot(call[q], call[r]) => q = r

\* Request r waits for a row or a unique key that the session of q holds.
Waits(r, q) ==
  /\ q # r
  /\ \/ pc[r] = "insert" /\ TagKeyHeldBy(q, call[r])
     \/ pc[r] = "refresh" /\ TokenHeldBy(q, call[r].adv)
     \/ pc[r] = "store" /\ call[r].key # None /\ KeyHeldBy(q, call[r].key)

\* How far a request has come in the order in which sessions take their locks.
Stage(r) ==
  CASE pc[r] \in {"idle", "lookup", "check", "find"} -> 0
    [] pc[r] = "insert" -> 1
    [] pc[r] \in {"token", "refresh"} -> 2
    [] pc[r] \in {"meta", "activate", "store"} -> 3
    [] OTHER -> 4

\* Whoever waits is behind the one it waits for in the order tag key, token
\* row, idempotency key: waits never form a cycle, so Postgres never has a
\* deadlock between conversion-tag requests to break.
WaitersBehindHolders ==
  \A q, r \in Request : Waits(r, q) => Stage(r) < Stage(q)

\* The tables implement TagRegistry: whatever the interleaving, each commit is
\* one registration, and neither a rollback nor a crash can be told from a
\* request that was never made.
Registry == INSTANCE TagRegistry
  WITH Tag <- TagRow, registered <- tags, replays <- records,
       existing <- {v.id : v \in conversions}

ImplementsRegistry == Registry!Spec

\* Every request that was received is answered or dies with its process: lock
\* waits end because every session that holds a lock ends.
EveryRequestFinishes ==
  \A r \in Request : pc[r] # "idle" ~> pc[r] \in {"done", "crashed"}

\* What the docs promise and the code does not keep.

\* The service's docstring: after a failure at Meta the row stays in place, so
\* that the same call finds it again.
FailedAttemptKept ==
  \A r \in answered :
    (reply[r].code = "upstream_error" /\ AdAccount[call[r].adv] # None)
    => \E t \in tags : SameSlot(t, call[r])

\* README: the replay of a key with a different body gets 409, so of two
\* different bodies under one key at most one is answered 201.
KeyReuseRejected ==
  \A q, r \in answered :
    (reply[q].code = "created" /\ reply[r].code = "created"
       /\ call[q].key = call[r].key /\ call[r].key # None)
    => hash_request(call[q]) = hash_request(call[r])

\* README: a tag is created together with the matching custom conversion.
ConversionMatchesTag ==
  \A t \in tags : \E v \in conversions :
    v = [id |-> t.meta, pixel |-> t.pixel, detail |-> t.detail]
=============================================================================
