------------------------ MODULE ConversionTagsProofs ------------------------
(***************************************************************************)
(* What ConversionTags guarantees for any number of requests, advertisers, *)
(* names and keys: proofs for TLAPS.                                       *)
(***************************************************************************)
EXTENDS ConversionTags, TLAPS

-----------------------------------------------------------------------------
(***************************************************************************)
(* Types.  TypeOK alone is not inductive: a handler builds rows out of its *)
(* input and its local variable, so that these are set where they are used *)
(* is part of the invariant.                                               *)
(***************************************************************************)
PastCheck == {"find", "insert", "token", "refresh", "meta", "activate", "store"}

HasTag == {"token", "refresh", "meta", "activate", "store"}

CallKnown == \A r \in Request : pc[r] # "idle" => call[r] \in CallType

TargetKnown ==
  \A r \in Request : pc[r] \in PastCheck =>
    call[r].adv \in DOMAIN AdAccount /\ AdAccount[call[r].adv] \in Account

TagKnown ==
  \A r \in Request : pc[r] \in HasTag =>
    tag[r] \in TagRow /\ SameSlot(tag[r], call[r])

\* A call that may still reach Meta is one that was sent.
InFlightKnown ==
  \A r \in inFlight :
    /\ pc[r] # "idle"
    /\ call[r].adv \in DOMAIN AdAccount /\ AdAccount[call[r].adv] \in Account

HandlersTyped == TypeOK /\ CallKnown /\ TargetKnown /\ TagKnown

TypeInv == TypeOK /\ CallKnown /\ TargetKnown /\ TagKnown /\ InFlightKnown

(***************************************************************************)
(* The inductive invariant behind the safety properties.                   *)
(***************************************************************************)
\* A row that may be committed: what CommittedTagsActive asks of a tag.
Finished(t) ==
  /\ t.status = "ACTIVE"
  /\ t.meta = <<AdAccount[t.adv], t.name>>
  /\ \E v \in conversions : v.id = t.meta

\* What the session of r holds: nothing before the insert, then the one tag row
\* that r works on, then a token row, and only at the end a record.
Held(r) ==
  /\ pc[r] \in {"idle", "lookup", "check", "find", "insert", "done", "crashed"}
       => dirty[r].tags = {}
  /\ CallsMeta(r) => dirty[r].tags = {tag[r]}
  /\ \A t \in dirty[r].tags : t.id = r /\ SameSlot(t, call[r])
  /\ pc[r] = "reply" /\ ~ReplyBeforeCommit => dirty[r] = Clean
  /\ pc[r] \notin {"meta", "activate", "store", "reply", "commit", "rollback"}
       => dirty[r].tokens = {}
  /\ pc[r] \notin {"reply", "commit", "rollback"} => dirty[r].records = {}

\* Nobody else has a row with the unique key of an uncommitted one.
SlotExclusive(r) ==
  \A t \in dirty[r].tags :
    /\ \A u \in tags : ~SameSlot(t, u)
    /\ \A q \in Others(r) : \A u \in dirty[q].tags : ~SameSlot(t, u)

\* From the answer of Meta on, everything in the write set may be committed.
Ready(r) ==
  /\ pc[r] = "activate" => \E v \in conversions : v.id = MetaId(r)
  /\ pc[r] = "store" => Finished(tag[r]) /\ tag[r] \in tags \cup dirty[r].tags
  /\ pc[r] \in {"store", "reply", "commit"} => \A t \in dirty[r].tags : Finished(t)
  /\ pc[r] \in {"reply", "commit"} =>
       \A x \in dirty[r].records :
         x.body \in tags \cup dirty[r].tags /\ SameSlot(x.body, x.hash)

\* What a request has ready to send, or has sent: a 201 is for the advertiser
\* and the name of the call that it answers.
RepliesOwn(r) ==
  /\ r \in answered => pc[r] # "idle"
  /\ pc[r] \in {"reply", "commit", "rollback", "done"} \/ r \in answered =>
       /\ reply[r] \in Reply
       /\ reply[r].code = "created" => SameSlot(reply[r].tag, call[r])

\* The request that inserted a committed row is through with its session.
CommittedIsOver ==
  \A t \in tags :
    /\ pc[t.id] \in {"reply", "rollback", "done", "crashed"}
    /\ pc[t.id] = "reply" => ~ReplyBeforeCommit
    /\ dirty[t.id].tags = {}

IInv ==
  /\ TypeInv
  /\ CommittedTagsActive
  /\ RecordsNameStoredTags
  /\ CommittedIsOver
  /\ \A r \in Request : Held(r) /\ SlotExclusive(r) /\ Ready(r) /\ RepliesOwn(r)
-----------------------------------------------------------------------------
(***************************************************************************)
(* Types of the two ways out of the handler and of the write set.          *)
(***************************************************************************)
LEMMA ReturnType ==
  ASSUME TypeOK, NEW r \in Request, NEW t \in TagRow, NEW b \in BOOLEAN,
         Return(r, t, b)
  PROVE  /\ reply' \in [Request -> Reply \cup {None}]
         /\ pc' \in [Request -> Label]
         /\ pc'[r] \in {"reply", "commit"}
         /\ \A q \in Others(r) : pc'[q] = pc[q]
  BY DEF TypeOK, Return, Goto, Reply, Code, Label, Others

\* An exception leaves a typed reply and only the raising request moves.
LEMMA RaiseType ==
  ASSUME TypeOK, NEW r \in Request, NEW code \in Code, Raise(r, code)
  PROVE  /\ reply' \in [Request -> Reply \cup {None}]
         /\ pc' \in [Request -> Label]
         /\ pc'[r] = "rollback"
         /\ \A q \in Others(r) : pc'[q] = pc[q]
  BY DEF TypeOK, Raise, Goto, Reply, Label, Others

\* A flush of a row keeps every write set typed.
LEMMA FlushType ==
  ASSUME TypeOK, NEW r \in Request, NEW t \in TagRow, Flush(r, t)
  PROVE  dirty' \in [Request -> WriteSet]
  BY DEF TypeOK, Flush, WriteSet

\* The empty write set is one.
LEMMA CleanType == Clean \in WriteSet
  BY DEF Clean, WriteSet

\* The PENDING row that the service builds is a row of the name asked for.
LEMMA NewTagType ==
  ASSUME NEW r \in Request, call[r] \in CallType
  PROVE  NewTag(r) \in TagRow /\ SameSlot(NewTag(r), call[r])
  BY DEF NewTag, TagRow, CallType, SameSlot

RequestStep(r) == Receive(r) \/ Step(r) \/ Fault(r)

SameFor(q) ==
  /\ pc'[q] = pc[q] /\ call'[q] = call[q] /\ tag'[q] = tag[q]
  /\ reply'[q] = reply[q] /\ dirty'[q] = dirty[q]
  /\ q \in answered' <=> q \in answered

\* A request changes nothing of another's handler or session.
LEMMA StepIsLocal ==
  ASSUME TypeOK, NEW r \in Request, RequestStep(r), NEW q \in Others(r)
  PROVE  SameFor(q)
  <1> USE DEF TypeOK, SameFor, Others, Goto
  <1>1. CASE Receive(r)
    BY <1>1 DEF Receive, outcome
  <1>2. CASE Lookup(r) \/ CheckTarget(r) \/ GetToken(r)
    BY <1>2 DEF Lookup, CheckTarget, GetToken, Return, Raise, local
  <1>3. CASE FindTag(r) \/ InsertTag(r) \/ RefreshToken(r) \/ Activate(r)
    BY <1>3 DEF FindTag, InsertTag, RefreshToken, Activate, Flush, local, outcome
  <1>4. CASE InsertConflicts(r) \/ InsertFails(r) \/ StoreRecordFails(r) \/ StatementFails(r)
    BY <1>4 DEF InsertConflicts, InsertFails, StoreRecordFails, StatementFails, Raise, local
  <1>5. CASE MetaCreates(r) \/ MetaFails(r) \/ MetaBreaks(r)
    BY <1>5 DEF MetaCreates, MetaFails, MetaBreaks, GiveUp, Raise, Flush, local, outcome
  <1>6. CASE StoreRecord(r) \/ Commit(r) \/ CommitUnacknowledged(r) \/ CommitFails(r)
    BY <1>6 DEF StoreRecord, Commit, CommitUnacknowledged, Committed, CommitFails, Return, Raise,
                local, outcome
  <1>7. CASE SendReply(r) \/ Rollback(r) \/ Crash(r)
    BY <1>7 DEF SendReply, Rollback, Crash, local, outcome
  <1> QED
    BY <1>1, <1>2, <1>3, <1>4, <1>5, <1>6, <1>7 DEF RequestStep, Step, Fault

\* A request that was received keeps its call.
LEMMA CallsKept ==
  ASSUME TypeOK, [Next]_vars, NEW q \in Request, pc[q] # "idle"
  PROVE  pc'[q] # "idle" /\ call'[q] = call[q]
  <1>1. ASSUME NEW r \in Request, RequestStep(r) PROVE pc'[q] # "idle" /\ call'[q] = call[q]
    <2>1. CASE q = r
      <3>1. ~Receive(r)
        BY <2>1 DEF Receive
      <3>2. call' = call
        BY <1>1, <3>1
        DEF RequestStep, Step, Fault, Lookup, CheckTarget, GetToken, FindTag, InsertTag,
            RefreshToken, Activate, InsertConflicts, InsertFails, StoreRecordFails,
            StatementFails, MetaCreates, MetaFails, MetaBreaks, GiveUp, StoreRecord, Commit,
            CommitUnacknowledged, Committed, CommitFails, SendReply, Rollback, Crash, local
      <3>3. \E l \in Label \ {"idle"} : Goto(r, l)
        BY <1>1, <3>1
        DEF RequestStep, Step, Fault, Lookup, CheckTarget, GetToken, FindTag, InsertTag,
            RefreshToken, Activate, InsertConflicts, InsertFails, StoreRecordFails,
            StatementFails, MetaCreates, MetaFails, MetaBreaks, GiveUp, StoreRecord, Commit,
            CommitUnacknowledged, Committed, CommitFails, SendReply, Rollback, Crash, Return,
            Raise, Label
      <3> QED
        BY <2>1, <3>2, <3>3 DEF Goto, TypeOK
    <2>2. CASE q # r
      BY <1>1, <2>2, StepIsLocal DEF SameFor, Others
    <2> QED
      BY <2>1, <2>2
  <1>2. CASE Environment \/ UNCHANGED vars
    BY <1>2 DEF Environment, TokenExpires, PixelSynced, MetaCatchesUp, vars, local
  <1> QED
    BY <1>1, <1>2 DEF Next, RequestStep, Terminating

\* What a step of r has to show beyond TypeOK when it leaves call and tag alone.
LEMMA KnownFrame ==
  ASSUME TypeInv, NEW r \in Request, pc[r] # "idle", UNCHANGED local,
         \A q \in Others(r) : pc'[q] = pc[q],
         pc'[r] \in PastCheck => pc[r] \in PastCheck,
         pc'[r] \in HasTag => pc[r] \in HasTag
  PROVE  CallKnown' /\ TargetKnown' /\ TagKnown'
  BY DEF TypeInv, CallKnown, TargetKnown, TagKnown, local, Others, SameSlot

\* The invariant of types holds before the first request.
LEMMA TypeInit == Init => TypeInv
  <1> SUFFICES ASSUME Init PROVE TypeInv
    OBVIOUS
  <1>1. TypeOK
    BY AdAccountAssumption, CleanType DEF Init, TypeOK, Label
  <1>2. CallKnown /\ TargetKnown /\ TagKnown /\ InFlightKnown
    BY DEF Init, CallKnown, TargetKnown, TagKnown, InFlightKnown, PastCheck, HasTag
  <1> QED
    BY <1>1, <1>2 DEF TypeInv

\* What Meta makes of a call is a conversion.
LEMMA CreateType ==
  ASSUME TypeOK, NEW r \in Request, call[r] \in CallType,
         AdAccount[call[r].adv] \in Account, CreateAtMeta(r)
  PROVE  conversions' \subseteq Conversion
  <1>1. MetaId(r) \in ConversionId
    BY DEF MetaId, ConversionId, CallType
  <1> QED
    BY <1>1 DEF CreateAtMeta, TypeOK, Conversion, CallType

\* Every action keeps the types and what the labels say of call and tag.
LEMMA HandlersTypedStep == TypeInv /\ [Next]_vars => HandlersTyped'
  <1> SUFFICES ASSUME TypeInv, [Next]_vars PROVE HandlersTyped'
    OBVIOUS
  <1> USE DEF TypeInv, HandlersTyped
  <1>1. ASSUME NEW r \in Request, Receive(r) PROVE HandlersTyped'
    <2>1. TypeOK'
      BY <1>1, CallAssumption
      DEF Receive, TypeOK, Goto, Label, outcome, tables, world
    <2>2. CallKnown' /\ TargetKnown' /\ TagKnown'
      BY <1>1, CallAssumption
      DEF Receive, TypeOK, Goto, CallKnown, TargetKnown, TagKnown, PastCheck,
          HasTag, SameSlot, tables
    <2> QED
      BY <2>1, <2>2
  <1>2. ASSUME NEW r \in Request, Lookup(r) PROVE HandlersTyped'
    <2>1. CASE Goto(r, "check") /\ UNCHANGED reply
      BY <1>2, <2>1, KnownFrame
      DEF Lookup, TypeOK, Goto, Label, local, tables, world, Others, PastCheck, HasTag
    <2>2. CASE Raise(r, "idempotency_conflict")
      BY <1>2, <2>2, RaiseType, KnownFrame
      DEF Lookup, TypeOK, Code, local, tables, world, PastCheck, HasTag
    <2>3. CASE \E x \in get_record(call[r].key) : Return(r, x.body, TRUE)
      <3>1. PICK x \in records : Return(r, x.body, TRUE)
        BY <2>3 DEF get_record
      <3>2. x.body \in TagRow
        BY DEF TypeOK, Record
      <3> QED
        BY <1>2, <3>1, <3>2, ReturnType, KnownFrame
        DEF Lookup, TypeOK, local, tables, world, PastCheck, HasTag
    <2> QED
      BY <1>2, <2>1, <2>2, <2>3 DEF Lookup
  <1>3. ASSUME NEW r \in Request, CheckTarget(r) PROVE HandlersTyped'
    <2>1. CASE Raise(r, "not_found") \/ Raise(r, "upstream_error")
      BY <1>3, <2>1, RaiseType, KnownFrame
      DEF CheckTarget, TypeOK, Code, local, tables, world, PastCheck, HasTag
    <2>2. CASE /\ call[r].adv \in DOMAIN AdAccount /\ AdAccount[call[r].adv] # None
               /\ Goto(r, "find") /\ UNCHANGED reply
      <3>1. TypeOK'
        BY <1>3, <2>2 DEF CheckTarget, TypeOK, Goto, Label, local, tables, world
      <3>2. AdAccount[call[r].adv] \in Account
        BY <2>2, AdAccountAssumption
      <3>3. CallKnown' /\ TargetKnown' /\ TagKnown'
        BY <1>3, <2>2, <3>2
        DEF CheckTarget, TypeOK, Goto, CallKnown, TargetKnown, TagKnown,
            PastCheck, HasTag, SameSlot, local
      <3> QED
        BY <3>1, <3>3
    <2> QED
      BY <1>3, <2>1, <2>2 DEF CheckTarget
  <1>4. ASSUME NEW r \in Request, FindTag(r) PROVE HandlersTyped'
    <2>1. CASE Goto(r, "insert") /\ UNCHANGED tag
      BY <1>4, <2>1, KnownFrame
      DEF FindTag, TypeOK, Goto, Label, local, outcome, tables, world, Others,
          PastCheck, HasTag
    <2>2. ASSUME NEW t \in get_by_advertiser_and_name(call[r]),
                 tag' = [tag EXCEPT ![r] = t],
                 Goto(r, IF t.status = "ACTIVE" THEN "store" ELSE "token")
          PROVE  HandlersTyped'
      <3>1. t \in TagRow /\ SameSlot(t, call[r])
        BY DEF get_by_advertiser_and_name, TypeOK
      <3>2. TypeOK'
        BY <1>4, <2>2, <3>1 DEF FindTag, TypeOK, Goto, Label, outcome, tables, world
      <3>3. CallKnown' /\ TargetKnown' /\ TagKnown'
        BY <1>4, <2>2, <3>1
        DEF FindTag, TypeOK, Goto, CallKnown, TargetKnown, TagKnown,
            PastCheck, HasTag, SameSlot
      <3> QED
        BY <3>2, <3>3
    <2> QED
      BY <1>4, <2>1, <2>2 DEF FindTag
  <1>5. ASSUME NEW r \in Request, InsertTag(r) PROVE HandlersTyped'
    <2>1. NewTag(r) \in TagRow /\ SameSlot(NewTag(r), call[r])
      BY <1>5, NewTagType DEF InsertTag, CallKnown
    <2>2. TypeOK'
      BY <1>5, <2>1, FlushType DEF InsertTag, TypeOK, Goto, Label, outcome, tables, world
    <2>3. CallKnown' /\ TargetKnown' /\ TagKnown'
      BY <1>5, <2>1
      DEF InsertTag, TypeOK, Goto, CallKnown, TargetKnown, TagKnown, PastCheck,
          HasTag, SameSlot
    <2> QED
      BY <2>2, <2>3
  <1>6. ASSUME NEW r \in Request,
               InsertConflicts(r) \/ InsertFails(r)
                 \/ StoreRecordFails(r) \/ StatementFails(r)
        PROVE  HandlersTyped'
    <2>1. PICK code \in Code : Raise(r, code)
      BY <1>6 DEF InsertConflicts, InsertFails, StoreRecordFails, StatementFails, Code
    <2> QED
      BY <1>6, <2>1, RaiseType, KnownFrame
      DEF InsertConflicts, InsertFails, StoreRecordFails, StatementFails, TypeOK,
          local, tables, world, PastCheck, HasTag
  <1>7. ASSUME NEW r \in Request, GetToken(r) PROVE HandlersTyped'
    <2>1. CASE Raise(r, "not_found")
      BY <1>7, <2>1, RaiseType, KnownFrame
      DEF GetToken, TypeOK, Code, local, tables, world, PastCheck, HasTag
    <2>2. CASE (Goto(r, "meta") \/ Goto(r, "refresh")) /\ UNCHANGED reply
      BY <1>7, <2>2, KnownFrame
      DEF GetToken, TypeOK, Goto, Label, local, tables, world, Others,
          PastCheck, HasTag
    <2> QED
      BY <1>7, <2>1, <2>2 DEF GetToken
  <1>8. ASSUME NEW r \in Request, RefreshToken(r) PROVE HandlersTyped'
    <2>1. call[r].adv \in Advertiser
      BY <1>8 DEF RefreshToken, CallKnown, CallType
    <2>2. TypeOK'
      BY <1>8, <2>1
      DEF RefreshToken, TypeOK, Goto, Label, WriteSet, local, outcome, tables, world
    <2> QED
      BY <1>8, <2>2, KnownFrame
      DEF RefreshToken, TypeOK, Goto, Others, local, PastCheck, HasTag
  <1>9. ASSUME NEW r \in Request, MetaCreates(r) \/ MetaFails(r) \/ MetaBreaks(r)
        PROVE  HandlersTyped'
    <2>1. conversions' \subseteq Conversion
      <3>1. CASE MetaCreates(r)
        BY <3>1, CreateType DEF MetaCreates, CallKnown, TargetKnown, PastCheck
      <3>2. CASE MetaFails(r) \/ MetaBreaks(r)
        BY <3>2 DEF MetaFails, MetaBreaks, GiveUp, TypeOK
      <3> QED
        BY <1>9, <3>1, <3>2
    <2>2. CASE MetaCreates(r)
      BY <2>1, <2>2, KnownFrame
      DEF MetaCreates, TypeOK, Goto, Label, Others, local, outcome, tables,
          PastCheck, HasTag
    <2>3. CASE MetaFails(r)
      <3> DEFINE t == [tag[r] EXCEPT !.status = "FAILED"]
      <3>1. t \in TagRow /\ SameSlot(t, call[r])
        BY <2>3 DEF MetaFails, GiveUp, TagKnown, HasTag, TagRow, SameSlot
      <3>2. tag' = [tag EXCEPT ![r] = t]
        BY <2>3 DEF MetaFails
      <3>3. TypeOK'
        BY <2>1, <2>3, <3>1, <3>2, RaiseType, FlushType
        DEF MetaFails, GiveUp, TypeOK, Code, tables
      <3>4. CallKnown' /\ TargetKnown' /\ TagKnown'
        BY <2>3, <3>1, <3>2
        DEF MetaFails, GiveUp, Raise, Goto, TypeOK, CallKnown, TargetKnown, TagKnown,
            PastCheck, HasTag, SameSlot
      <3> QED
        BY <3>3, <3>4
    <2>4. CASE MetaBreaks(r)
      BY <2>1, <2>4, RaiseType, KnownFrame
      DEF MetaBreaks, GiveUp, TypeOK, Code, local, tables, PastCheck, HasTag
    <2> QED
      BY <1>9, <2>2, <2>3, <2>4
  <1>10. ASSUME NEW r \in Request, Activate(r) PROVE HandlersTyped'
    <2> DEFINE t == [tag[r] EXCEPT !.status = "ACTIVE", !.meta = MetaId(r)]
    <2>1. MetaId(r) \in ConversionId
      BY <1>10
      DEF Activate, CallKnown, TargetKnown, PastCheck, MetaId, ConversionId, CallType
    <2>2. t \in TagRow /\ SameSlot(t, call[r])
      BY <1>10, <2>1 DEF Activate, TagKnown, HasTag, TagRow, SameSlot
    <2>3. tag' = [tag EXCEPT ![r] = t] /\ Flush(r, t)
      BY <1>10 DEF Activate
    <2>4. TypeOK'
      BY <1>10, <2>2, <2>3, FlushType
      DEF Activate, TypeOK, Goto, Label, outcome, tables, world
    <2>5. CallKnown' /\ TargetKnown' /\ TagKnown'
      BY <1>10, <2>2, <2>3
      DEF Activate, TypeOK, Goto, CallKnown, TargetKnown, TagKnown, PastCheck,
          HasTag, SameSlot
    <2> QED
      BY <2>4, <2>5
  <1>11. ASSUME NEW r \in Request, StoreRecord(r) PROVE HandlersTyped'
    <2>1. tag[r] \in TagRow
      BY <1>11 DEF StoreRecord, TagKnown, HasTag
    <2>2. call[r].key # None => NewRecord(r) \in Record
      BY <1>11, <2>1
      DEF StoreRecord, CallKnown, CallType, NewRecord, Record, Hash, hash_request
    <2>3. dirty' \in [Request -> WriteSet]
      <3> DEFINE kept == [dirty[r] EXCEPT !.records = {NewRecord(r)}]
      <3>1. dirty \in [Request -> WriteSet]
        BY DEF TypeOK
      <3>2. call[r].key # None => kept \in WriteSet
        BY <2>2, <3>1 DEF WriteSet
      <3>3. \/ UNCHANGED dirty
            \/ call[r].key # None /\ dirty' = [dirty EXCEPT ![r] = kept]
            \/ dirty' = [dirty EXCEPT ![r] = Clean]
        BY <1>11, <3>1 DEF StoreRecord
      <3> HIDE DEF kept
      <3> QED
        BY <3>1, <3>2, <3>3, CleanType
    <2> QED
      BY <1>11, <2>1, <2>3, ReturnType, KnownFrame
      DEF StoreRecord, TypeOK, local, tables, world, PastCheck, HasTag
  <1>12. ASSUME NEW r \in Request, Commit(r) \/ CommitUnacknowledged(r) PROVE HandlersTyped'
    <2>1. /\ dirty' \in [Request -> WriteSet] /\ tags' \subseteq TagRow
          /\ records' \subseteq Record /\ oauth' \in [Advertiser -> Token]
          /\ UNCHANGED <<local, answered, world>>
      BY <1>12, CleanType DEF Commit, CommitUnacknowledged, Committed, TypeOK, WriteSet, Token
    <2>2. /\ pc' \in [Request -> Label] /\ reply' \in [Request -> Reply \cup {None}]
          /\ pc'[r] \in {"done", "reply", "rollback"}
          /\ \A q \in Others(r) : pc'[q] = pc[q]
      <3>1. CASE Commit(r)
        BY <3>1 DEF Commit, CommitUnacknowledged, Committed, TypeOK, Goto, Label, Others
      <3>2. CASE Raise(r, "server_error")
        BY <3>2, RaiseType DEF TypeOK, Code
      <3> QED
        BY <1>12, <3>1, <3>2 DEF CommitUnacknowledged
    <2>3. TypeOK'
      BY <2>1, <2>2 DEF TypeOK, local, world
    <2>4. pc[r] # "idle"
      BY <1>12 DEF Commit, CommitUnacknowledged, Committed
    <2> QED
      BY <2>1, <2>2, <2>3, <2>4, KnownFrame DEF PastCheck, HasTag
  <1>13. ASSUME NEW r \in Request, CommitFails(r) PROVE HandlersTyped'
    <2>1. TypeOK' /\ pc'[r] \in {"done", "rollback"}
                 /\ \A q \in Others(r) : pc'[q] = pc[q]
      <3>1. CASE Goto(r, "done") /\ UNCHANGED reply
        BY <1>13, <3>1, CleanType
        DEF CommitFails, TypeOK, Goto, Label, local, tables, world, Others
      <3>2. CASE Raise(r, "server_error")
        BY <1>13, <3>2, CleanType, RaiseType
        DEF CommitFails, TypeOK, Code, local, tables, world
      <3> QED
        BY <1>13, <3>1, <3>2 DEF CommitFails
    <2> QED
      BY <1>13, <2>1, KnownFrame DEF CommitFails, PastCheck, HasTag
  <1>14. ASSUME NEW r \in Request, SendReply(r) \/ Rollback(r) \/ Crash(r)
         PROVE  HandlersTyped'
    <2>1. TypeOK' /\ pc'[r] \in {"commit", "done", "crashed"}
                 /\ \A q \in Others(r) : pc'[q] = pc[q]
      BY <1>14, CleanType
      DEF SendReply, Rollback, Crash, GiveUp, TypeOK, Goto, Label, local, outcome,
          tables, world, Others
    <2> QED
      BY <1>14, <2>1, KnownFrame
      DEF SendReply, Rollback, Crash, GiveUp, PastCheck, HasTag, local
  <1>15. ASSUME Environment PROVE HandlersTyped'
    <2>1. conversions' \subseteq Conversion
      <3>1. ASSUME NEW r \in Request, MetaCatchesUp(r) PROVE conversions' \subseteq Conversion
        BY <3>1, CreateType DEF MetaCatchesUp, CallKnown, InFlightKnown, TypeOK
      <3> QED
        BY <1>15, <3>1 DEF Environment, TokenExpires, PixelSynced, TypeOK, world
    <2>2. TypeOK'
      BY <1>15, <2>1, AdAccountAssumption
      DEF Environment, TokenExpires, PixelSynced, MetaCatchesUp, TypeOK, Token, local,
          outcome, tables, world
    <2> QED
      BY <1>15, <2>2
      DEF Environment, TokenExpires, PixelSynced, MetaCatchesUp, local, CallKnown,
          TargetKnown, TagKnown, SameSlot
  <1>16. CASE UNCHANGED vars
    BY <1>16
    DEF vars, local, outcome, tables, world, TypeOK, CallKnown, TargetKnown,
        TagKnown, SameSlot
  <1> QED
    BY <1>1, <1>2, <1>3, <1>4, <1>5, <1>6, <1>7, <1>8, <1>9, <1>10, <1>11, <1>12,
       <1>13, <1>14, <1>15, <1>16
    DEF Next, Step, Fault, Terminating

\* A call in flight stays the one that was sent, and only such calls are added.
LEMMA InFlightStep == TypeInv /\ [Next]_vars => InFlightKnown'
  <1> SUFFICES ASSUME TypeInv, [Next]_vars PROVE InFlightKnown'
    OBVIOUS
  <1>1. \A r \in Request : pc[r] # "idle" => pc'[r] # "idle" /\ call'[r] = call[r]
    BY CallsKept DEF TypeInv
  <1>2. ASSUME NEW r \in inFlight', r \notin inFlight PROVE r \in Request /\ pc[r] = "meta"
    BY <1>2
    DEF Next, Step, Fault, Environment, Receive, Lookup, CheckTarget, FindTag, InsertTag,
        InsertConflicts, InsertFails, GetToken, RefreshToken, Activate, StoreRecordFails,
        StatementFails, MetaCreates, MetaFails, MetaBreaks, GiveUp, StoreRecord, Commit,
        CommitUnacknowledged, Committed, CommitFails, SendReply, Rollback, Crash, TokenExpires,
        PixelSynced, MetaCatchesUp, Terminating, vars, world
  <1> QED
    BY <1>1, <1>2 DEF TypeInv, TypeOK, InFlightKnown, TargetKnown, PastCheck

\* Every step keeps the types and what is known of calls, tags and calls in flight.
LEMMA TypeStep == TypeInv /\ [Next]_vars => TypeInv'
  BY HandlersTypedStep, InFlightStep DEF TypeInv, HandlersTyped

\* Every variable stays within its type, for any number of requests and rows.
THEOREM TypeCorrect == Spec => []TypeOK
  <1>1. TypeInv => TypeOK
    BY DEF TypeInv
  <1> QED
    BY <1>1, TypeInit, TypeStep, PTL DEF Spec
-----------------------------------------------------------------------------
(***************************************************************************)
(* Safety.                                                                 *)
(***************************************************************************)
\* Nothing but get_session's commit changes the tables, and Meta forgets nothing.
LEMMA OnlyCommitWrites ==
  ASSUME NEW r \in Request, RequestStep(r), ~Committed(r)
  PROVE  UNCHANGED <<tags, records>> /\ conversions \subseteq conversions'
  <1>1. UNCHANGED <<tags, records>>
    BY DEF RequestStep, Step, Fault, Receive, Lookup, CheckTarget, GetToken, FindTag, InsertTag,
           RefreshToken, Activate, InsertConflicts, InsertFails, StoreRecordFails,
           StatementFails, MetaCreates, MetaFails, MetaBreaks, GiveUp, StoreRecord, Commit,
           CommitUnacknowledged, CommitFails, SendReply, Rollback, Crash, tables
  <1>2. conversions \subseteq conversions'
    BY DEF RequestStep, Step, Fault, Receive, Lookup, CheckTarget, GetToken, FindTag, InsertTag,
           RefreshToken, Activate, InsertConflicts, InsertFails, StoreRecordFails,
           StatementFails, MetaCreates, MetaFails, MetaBreaks, GiveUp, CreateAtMeta, StoreRecord,
           Commit, CommitUnacknowledged, CommitFails, SendReply, Rollback, Crash, world
  <1> QED
    BY <1>1, <1>2

\* Committed rows are never changed or removed, and what a commit adds is the
\* write set of one session.
LEMMA CommittedGrows ==
  ASSUME IInv, [Next]_vars
  PROVE  /\ \/ UNCHANGED <<tags, records>>
            \/ \E r \in Request :
                 /\ Committed(r)
                 /\ tags' = tags \cup dirty[r].tags
                 /\ records' = records \cup dirty[r].records
         /\ conversions \subseteq conversions'
  <1>1. ASSUME NEW r \in Request, Committed(r)
        PROVE  /\ tags' = tags \cup dirty[r].tags
               /\ records' = records \cup dirty[r].records
               /\ UNCHANGED conversions
    <2>1. \A t \in tags, u \in dirty[r].tags : u.id # t.id
      BY <1>1 DEF IInv, CommittedIsOver, Held
    <2> QED
      BY <1>1, <2>1 DEF Committed, world
  <1>2. ASSUME Environment \/ UNCHANGED vars
        PROVE  UNCHANGED <<tags, records>> /\ conversions \subseteq conversions'
    BY <1>2
    DEF Environment, TokenExpires, PixelSynced, MetaCatchesUp, CreateAtMeta, vars,
        tables, world
  <1> QED
    BY <1>1, <1>2, OnlyCommitWrites DEF Next, RequestStep, Terminating

\* A flush replaces the one row that the session holds.
LEMMA FlushHeld ==
  ASSUME IInv, NEW r \in Request, CallsMeta(r),
         NEW t \in TagRow, t.id = tag[r].id, SameSlot(t, tag[r]), Flush(r, t)
  PROVE  /\ dirty'[r].tags = {t}
         /\ dirty'[r].tokens = dirty[r].tokens
         /\ dirty'[r].records = dirty[r].records
         /\ t.id = r
         /\ SameSlot(t, call[r])
  <1>1. dirty[r].tags = {tag[r]} /\ tag[r].id = r /\ SameSlot(tag[r], call[r])
    BY DEF IInv, Held
  <1>2. dirty[r] \in WriteSet
    BY DEF IInv, TypeInv, TypeOK
  <1>3. {u \in dirty[r].tags : u.id # t.id} \cup {t} = {t}
    BY <1>1
  <1>4. dirty'[r] = [dirty[r] EXCEPT !.tags = {t}]
    BY <1>3 DEF Flush, IInv, TypeInv, TypeOK
  <1> QED
    BY <1>1, <1>2, <1>4 DEF WriteSet, SameSlot

\* The rows that MetaFails and Activate flush.
LEMMA FlushedRow ==
  ASSUME IInv, NEW r \in Request, MetaFails(r) \/ Activate(r)
  PROVE  /\ CallsMeta(r)
         /\ tag'[r] \in TagRow /\ tag'[r].id = tag[r].id /\ SameSlot(tag'[r], tag[r])
         /\ Flush(r, tag'[r])
         /\ Activate(r) => tag'[r].status = "ACTIVE" /\ tag'[r].meta = MetaId(r)
  <1>1. tag[r] \in TagRow /\ CallsMeta(r)
    BY DEF IInv, TypeInv, TagKnown, HasTag, MetaFails, GiveUp, Activate, CallsMeta
  <1>2. CASE MetaFails(r)
    <2>1. tag'[r] = [tag[r] EXCEPT !.status = "FAILED"] /\ Flush(r, tag'[r])
      BY <1>2 DEF MetaFails, IInv, TypeInv, TypeOK
    <2> QED
      BY <1>1, <1>2, <2>1 DEF TagRow, SameSlot, MetaFails, GiveUp, Activate
  <1>3. CASE Activate(r)
    <2>1. /\ tag'[r] = [tag[r] EXCEPT !.status = "ACTIVE", !.meta = MetaId(r)]
          /\ Flush(r, tag'[r])
      BY <1>3 DEF Activate, IInv, TypeInv, TypeOK
    <2>2. MetaId(r) \in ConversionId
      BY <1>3
      DEF Activate, IInv, TypeInv, CallKnown, TargetKnown, PastCheck, MetaId, ConversionId, CallType
    <2> QED
      BY <1>1, <1>3, <2>1, <2>2 DEF TagRow, SameSlot
  <1> QED
    BY <1>2, <1>3

\* A request's own step keeps its account of the rows that its session holds.
LEMMA HeldStep ==
  ASSUME IInv, NEW r \in Request, RequestStep(r)
  PROVE  Held(r)'
  <1>1. TypeOK /\ Held(r)
    BY DEF IInv, TypeInv
  <1>2. CASE Receive(r) \/ Lookup(r) \/ CheckTarget(r) \/ GetToken(r)
    <2>1. dirty' = dirty /\ tag' = tag /\ pc[r] \in {"idle", "lookup", "check", "token"}
      BY <1>2 DEF Receive, Lookup, CheckTarget, GetToken, local
    <2>2. pc[r] # "idle" => call' = call
      BY <1>2 DEF Receive, Lookup, CheckTarget, GetToken, local
    <2>3. /\ pc[r] = "token" => pc'[r] \in {"refresh", "meta", "rollback"}
          /\ pc[r] # "token" =>
               pc'[r] \in {"lookup", "check", "find", "reply", "commit", "rollback"}
      BY <1>1, <1>2
      DEF Receive, Lookup, CheckTarget, GetToken, Return, Raise, Goto, TypeOK
    <2> QED
      BY <1>1, <2>1, <2>2, <2>3 DEF Held, CallsMeta, Clean, TypeOK, WriteSet, SameSlot
  <1>3. CASE InsertConflicts(r) \/ InsertFails(r) \/ StoreRecordFails(r)
               \/ StatementFails(r) \/ MetaBreaks(r)
    BY <1>1, <1>3
    DEF InsertConflicts, InsertFails, StoreRecordFails, StatementFails, MetaBreaks, GiveUp,
        Raise, Goto, local, TypeOK, Held, CallsMeta, SameSlot
  <1>4. CASE FindTag(r)
    <2>1. \A t \in get_by_advertiser_and_name(call[r]) : t.status = "ACTIVE"
      BY DEF IInv, CommittedTagsActive, get_by_advertiser_and_name
    <2> QED
      BY <1>1, <1>4, <2>1
      DEF FindTag, Goto, outcome, TypeOK, Held, CallsMeta, SameSlot
  <1>5. CASE InsertTag(r)
    BY <1>1, <1>5
    DEF InsertTag, NewTag, Flush, Goto, TypeOK, WriteSet, Held, CallsMeta, SameSlot
  <1>6. CASE RefreshToken(r)
    BY <1>1, <1>6
    DEF RefreshToken, Goto, local, TypeOK, WriteSet, Held, CallsMeta, SameSlot
  <1>7. CASE MetaCreates(r)
    BY <1>1, <1>7 DEF MetaCreates, Goto, local, TypeOK, Held, CallsMeta, SameSlot
  <1>8. CASE MetaFails(r) \/ Activate(r)
    <2>1. /\ dirty'[r].tags = {tag'[r]} /\ dirty'[r].records = dirty[r].records
          /\ tag'[r].id = r /\ SameSlot(tag'[r], call[r])
      BY <1>8, FlushedRow, FlushHeld
    <2>2. pc'[r] \in {"rollback", "store"} /\ call' = call
          /\ pc[r] \in {"meta", "activate"}
      BY <1>1, <1>8 DEF MetaFails, GiveUp, Activate, Raise, Goto, TypeOK
    <2> QED
      BY <1>1, <2>1, <2>2 DEF Held, CallsMeta, SameSlot
  <1>9. CASE StoreRecord(r)
    BY <1>1, <1>9
    DEF StoreRecord, Return, Goto, Clean, local, TypeOK, WriteSet, Held, CallsMeta, SameSlot
  <1>10. CASE Commit(r) \/ CommitUnacknowledged(r) \/ CommitFails(r) \/ Rollback(r) \/ Crash(r)
    <2>1. dirty'[r] = Clean
      BY <1>1, <1>10 DEF Commit, CommitUnacknowledged, Committed, CommitFails, Rollback, Crash,
                         TypeOK
    <2>2. pc'[r] \in {"done", "reply", "rollback", "crashed"}
      BY <1>1, <1>10 DEF Commit, CommitUnacknowledged, Committed, CommitFails, Rollback, Crash,
                         Raise, Goto, TypeOK
    <2> QED
      BY <2>1, <2>2 DEF Held, CallsMeta, Clean
  <1>11. CASE SendReply(r)
    BY <1>1, <1>11
    DEF SendReply, Goto, Clean, local, TypeOK, Held, CallsMeta, SameSlot
  <1> QED
    BY <1>2, <1>3, <1>4, <1>5, <1>6, <1>7, <1>8, <1>9, <1>10, <1>11
    DEF RequestStep, Step, Fault

\* A request puts a row of a slot it did not hold into its write set only when
\* it inserts.
LEMMA WriteSetStep ==
  ASSUME IInv, NEW r \in Request, RequestStep(r), NEW t \in dirty'[r].tags
  PROVE  \/ \E u \in dirty[r].tags : SameSlot(t, u)
         \/ InsertTag(r) /\ t = NewTag(r)
  <1>1. TypeOK /\ Held(r)
    BY DEF IInv, TypeInv
  <1>2. CASE InsertTag(r)
    <2>1. dirty'[r].tags = {NewTag(r)}
      BY <1>1, <1>2 DEF InsertTag, Flush, Held, TypeOK, WriteSet
    <2> QED
      BY <1>2, <2>1
  <1>3. CASE MetaFails(r) \/ Activate(r)
    <2>1. dirty'[r].tags = {tag'[r]} /\ SameSlot(tag'[r], tag[r]) /\ CallsMeta(r)
      BY <1>3, FlushedRow, FlushHeld
    <2> QED
      BY <1>1, <2>1 DEF Held
  <1>4. CASE RefreshToken(r) \/ StoreRecord(r)
    <2>1. dirty'[r].tags \subseteq dirty[r].tags
      <3>1. \/ dirty'[r] = [dirty[r] EXCEPT !.tokens = @ \cup {call[r].adv}]
            \/ dirty'[r] = [dirty[r] EXCEPT !.records = {NewRecord(r)}]
            \/ dirty'[r] = dirty[r]
            \/ dirty'[r] = Clean
        BY <1>1, <1>4 DEF RefreshToken, StoreRecord, TypeOK
      <3> QED
        BY <1>1, <3>1 DEF Clean, TypeOK, WriteSet
    <2> QED
      BY <2>1 DEF SameSlot
  <1>5. CASE Commit(r) \/ CommitUnacknowledged(r) \/ CommitFails(r) \/ Rollback(r) \/ Crash(r)
    BY <1>1, <1>5 DEF Commit, CommitUnacknowledged, Committed, CommitFails, Rollback, Crash,
                      Clean, TypeOK
  <1>6. CASE dirty' = dirty
    BY <1>6 DEF SameSlot
  <1>7. \/ InsertTag(r) \/ MetaFails(r) \/ Activate(r) \/ RefreshToken(r)
        \/ StoreRecord(r) \/ Commit(r) \/ CommitUnacknowledged(r) \/ CommitFails(r)
        \/ Rollback(r) \/ Crash(r) \/ dirty' = dirty
    BY DEF RequestStep, Step, Fault, Receive, Lookup, CheckTarget, GetToken, FindTag,
        InsertConflicts, InsertFails, StoreRecordFails, StatementFails, MetaCreates,
        MetaBreaks, GiveUp, SendReply
  <1> QED
    BY <1>2, <1>3, <1>4, <1>5, <1>6, <1>7

\* A step keeps every uncommitted row alone in its (advertiser, name).
LEMMA SlotStep ==
  ASSUME IInv, [Next]_vars, NEW r \in Request, RequestStep(r)
  PROVE  \A q \in Request : SlotExclusive(q)'
  <1>1. \A q \in Others(r) : dirty'[q] = dirty[q]
    BY StepIsLocal DEF IInv, TypeInv, SameFor
  <1>2. \A q \in Request : SlotExclusive(q)
    BY DEF IInv
  <1>3. CASE InsertTag(r)
    <2>1. tags' = tags
      BY <1>3 DEF InsertTag, tables
    <2>2. \A t \in dirty'[r].tags : t = NewTag(r)
      BY <1>3 DEF InsertTag, Flush, IInv, TypeInv, TypeOK, WriteSet, Held
    <2>3. \A u \in tags : ~SameSlot(NewTag(r), u) /\ ~SameSlot(u, NewTag(r))
      BY <1>3 DEF InsertTag, get_by_advertiser_and_name, SameSlot, NewTag
    <2>4. \A q \in Others(r) : \A u \in dirty[q].tags :
            ~SameSlot(NewTag(r), u) /\ ~SameSlot(u, NewTag(r))
      BY <1>3 DEF InsertTag, TagKeyHeldBy, SameSlot, NewTag
    <2> QED
      BY <1>1, <1>2, <2>1, <2>2, <2>3, <2>4 DEF SlotExclusive, Others
  <1>4. CASE Committed(r)
    <2>1. dirty'[r].tags = {} /\ tags' = tags \cup dirty[r].tags
      <3>1. \A t \in tags, u \in dirty[r].tags : u.id # t.id
        BY <1>4 DEF Committed, IInv, CommittedIsOver, Held
      <3> QED
        BY <1>4, <3>1 DEF Committed, Clean, IInv, TypeInv, TypeOK
    <2> QED
      BY <1>1, <1>2, <2>1 DEF SlotExclusive, Others, SameSlot
  <1>5. CASE ~InsertTag(r) /\ ~Committed(r)
    <2>1. tags' = tags
      BY <1>5, OnlyCommitWrites
    <2>2. \A t \in dirty'[r].tags : \E u \in dirty[r].tags : SameSlot(t, u)
      BY <1>5, WriteSetStep
    <2> QED
      BY <1>1, <1>2, <2>1, <2>2 DEF SlotExclusive, Others, SameSlot
  <1> QED
    BY <1>3, <1>4, <1>5

\* A committed row belongs to a request whose session has ended.
LEMMA OverStep ==
  ASSUME IInv, [Next]_vars, NEW r \in Request, RequestStep(r)
  PROVE  CommittedIsOver'
  <1>1. \A q \in Others(r) : pc'[q] = pc[q] /\ dirty'[q] = dirty[q]
    BY StepIsLocal DEF IInv, TypeInv, SameFor
  <1>2. TypeOK /\ CommittedIsOver /\ Held(r)
    BY DEF IInv, TypeInv
  <1>3. CASE Committed(r)
    <2>1. \A t \in tags, u \in dirty[r].tags : u.id # t.id
      BY <1>2, <1>3 DEF Committed, CommittedIsOver, Held
    <2>2. /\ tags' = tags \cup dirty[r].tags
          /\ dirty'[r].tags = {}
      BY <1>2, <1>3, <2>1 DEF Committed, Clean, TypeOK
    <2>4. /\ pc'[r] \in {"reply", "rollback", "done", "crashed"}
          /\ pc'[r] = "reply" => ~ReplyBeforeCommit
      <3>1. Commit(r) \/ CommitUnacknowledged(r) \/ CommitFails(r) \/ Crash(r)
        BY <1>3
        DEF Committed, RequestStep, Step, Fault, Receive, Lookup, CheckTarget, GetToken,
            FindTag, InsertTag, RefreshToken, InsertConflicts, InsertFails, Activate,
            StoreRecordFails, StatementFails, MetaCreates, MetaFails, MetaBreaks, GiveUp,
            StoreRecord, SendReply, Rollback
      <3> QED
        BY <1>2, <3>1 DEF Commit, CommitUnacknowledged, Committed, CommitFails, Crash, Raise,
                          Goto, TypeOK
    <2>3. \A t \in tags : t.id \in Others(r)
      BY <1>2, <1>3 DEF Committed, CommittedIsOver, TypeOK, TagRow,
                        Others
    <2> QED
      BY <1>1, <1>2, <2>2, <2>3, <2>4 DEF CommittedIsOver, Held
  <1>4. CASE ~Committed(r)
    <2>1. tags' = tags
      BY <1>4, OnlyCommitWrites
    <2>2. ASSUME NEW t \in tags, t.id = r
          PROVE  pc'[r] \in {"done", "crashed"} /\ dirty'[r].tags = {}
      <3>1. /\ pc[r] \in {"reply", "rollback", "done", "crashed"} /\ dirty[r].tags = {}
            /\ pc[r] = "reply" => ~ReplyBeforeCommit
        BY <1>2, <2>2 DEF CommittedIsOver
      <3>2. SendReply(r) \/ Rollback(r) \/ Crash(r)
        BY <1>4, <3>1
        DEF RequestStep, Step, Fault, Receive, Lookup, CheckTarget, GetToken, FindTag, InsertTag,
            RefreshToken, Activate, InsertConflicts, InsertFails, StoreRecordFails,
            StatementFails, MetaCreates, MetaFails, MetaBreaks, GiveUp, StoreRecord, Commit,
            CommitUnacknowledged, Committed, CommitFails
      <3>3. pc[r] # "done" /\ pc[r] # "crashed"
        BY <3>2 DEF SendReply, Rollback, Crash
      <3> QED
        BY <1>2, <3>1, <3>2, <3>3 DEF SendReply, Rollback, Crash, Goto, Clean, TypeOK
    <2>3. \A t \in tags : t.id \in Request
      BY <1>2 DEF TypeOK, TagRow
    <2> QED
      BY <1>1, <1>2, <2>1, <2>2, <2>3 DEF CommittedIsOver, Others
  <1> QED
    BY <1>3, <1>4

\* What a commit adds is ACTIVE, known to Meta, and quoted only by its own record.
LEMMA StoredStep ==
  ASSUME IInv, [Next]_vars
  PROVE  CommittedTagsActive' /\ RecordsNameStoredTags'
  <1>1. conversions \subseteq conversions'
    BY CommittedGrows
  <1>2. CommittedTagsActive /\ RecordsNameStoredTags
    BY DEF IInv
  <1>3. CASE UNCHANGED <<tags, records>>
    BY <1>1, <1>2, <1>3 DEF CommittedTagsActive, RecordsNameStoredTags, SameSlot
  <1>4. ASSUME NEW r \in Request, Committed(r), tags' = tags \cup dirty[r].tags,
               records' = records \cup dirty[r].records
        PROVE  CommittedTagsActive' /\ RecordsNameStoredTags'
    <2>1. Ready(r) /\ pc[r] = "commit"
      BY <1>4 DEF IInv, Committed
    <2> QED
      BY <1>1, <1>2, <1>4, <2>1
      DEF Ready, Finished, CommittedTagsActive, RecordsNameStoredTags, SameSlot
  <1> QED
    BY <1>3, <1>4, CommittedGrows

\* The tag that a request is about to answer with stays fit to be committed.
LEMMA ReadyStep ==
  ASSUME IInv, [Next]_vars, NEW r \in Request, RequestStep(r)
  PROVE  \A q \in Request : Ready(q)'
  <1>1. conversions \subseteq conversions' /\ tags \subseteq tags'
    BY CommittedGrows
  <1>2. ASSUME NEW q \in Others(r) PROVE Ready(q)'
    <2>1. SameFor(q) /\ Ready(q)
      BY StepIsLocal DEF IInv, TypeInv, Others
    <2> QED
      BY <1>1, <2>1 DEF SameFor, Ready, Finished, MetaId, SameSlot
  <1>3. TypeOK /\ Held(r) /\ Ready(r) /\ TagKnown
    BY DEF IInv, TypeInv
  <1>4. Ready(r)'
    <2>1. CASE Receive(r)
      BY <1>3, <2>1 DEF Receive, Goto, TypeOK, Ready
    <2>2. CASE Lookup(r) \/ CheckTarget(r) \/ GetToken(r)
      <3>1. /\ dirty' = dirty
            /\ pc'[r] \in {"check", "find", "refresh", "meta", "reply", "commit", "rollback"}
            /\ pc'[r] \in {"reply", "commit"} => pc[r] = "lookup"
        BY <1>3, <2>2 DEF Lookup, CheckTarget, GetToken, Return, Raise, Goto, TypeOK
      <3> QED
        BY <1>3, <3>1 DEF Ready, Held
    <2>3. CASE FindTag(r)
      BY <1>3, <2>3
      DEF FindTag, Goto, get_by_advertiser_and_name, IInv, CommittedTagsActive,
          outcome, tables, world, TypeOK, Held, Ready, Finished
    <2>4. CASE InsertTag(r) \/ RefreshToken(r) \/ Rollback(r) \/ Crash(r)
      BY <1>3, <2>4 DEF InsertTag, RefreshToken, Rollback, Crash, Goto, TypeOK, Ready
    <2>5. CASE InsertConflicts(r) \/ InsertFails(r) \/ StoreRecordFails(r)
                 \/ StatementFails(r) \/ MetaFails(r) \/ MetaBreaks(r)
      BY <1>3, <2>5
      DEF InsertConflicts, InsertFails, StoreRecordFails, StatementFails, MetaFails,
          MetaBreaks, GiveUp, Raise, Goto, TypeOK, Ready
    <2>6. CASE MetaCreates(r)
      <3>1. pc'[r] = "activate" /\ MetaId(r)' = MetaId(r)
        BY <1>3, <2>6 DEF MetaCreates, MetaId, Goto, local, TypeOK
      <3>2. CreateAtMeta(r)
        BY <2>6 DEF MetaCreates
      <3>3. \E v \in conversions' : v.id = MetaId(r)
        <4>1. CASE \E v \in conversions : v.id = MetaId(r)
          BY <1>1, <4>1
        <4>2. CASE ~\E v \in conversions : v.id = MetaId(r)
          <5> DEFINE w == [id |-> MetaId(r), pixel |-> call[r].pixel,
                           detail |-> call[r].detail]
          <5>1. w \in conversions' /\ w.id = MetaId(r)
            BY <3>2, <4>2 DEF CreateAtMeta
          <5> QED
            BY <5>1
        <4> QED
          BY <4>1, <4>2
      <3> QED
        BY <3>1, <3>3 DEF Ready
    <2>7. CASE Activate(r)
      <3>1. /\ dirty'[r].tags = {tag'[r]} /\ SameSlot(tag'[r], call[r])
            /\ tag'[r].status = "ACTIVE" /\ tag'[r].meta = MetaId(r)
        BY <2>7, FlushedRow, FlushHeld
      <3>2. pc'[r] = "store" /\ conversions' = conversions
            /\ \E v \in conversions : v.id = MetaId(r)
        BY <1>3, <2>7 DEF Activate, Goto, world, TypeOK, Ready
      <3> QED
        BY <3>1, <3>2 DEF Ready, Finished, MetaId, SameSlot
    <2>8. CASE StoreRecord(r)
      <3>1. /\ pc'[r] \in {"reply", "commit"} /\ UNCHANGED <<tags, conversions>>
            /\ Finished(tag[r]) /\ tag[r] \in tags \cup dirty[r].tags
            /\ SameSlot(tag[r], call[r])
            /\ \A t \in dirty[r].tags : Finished(t)
        BY <1>3, <2>8
        DEF StoreRecord, Return, Goto, tables, world, TypeOK, Ready, TagKnown, HasTag
      <3>2. \/ dirty'[r] = dirty[r] /\ dirty[r].records = {}
            \/ dirty'[r] = [dirty[r] EXCEPT !.records = {NewRecord(r)}]
            \/ dirty'[r] = Clean
        BY <1>3, <2>8 DEF StoreRecord, TypeOK, Held
      <3>3. /\ dirty'[r].tags \subseteq dirty[r].tags
            /\ \A x \in dirty'[r].records :
                 x = NewRecord(r) /\ dirty'[r].tags = dirty[r].tags
        BY <1>3, <3>2 DEF Clean, TypeOK, WriteSet
      <3>4. NewRecord(r).body = tag[r] /\ SameSlot(tag[r], NewRecord(r).hash)
        BY <3>1 DEF NewRecord, hash_request, SameSlot
      <3> QED
        BY <3>1, <3>3, <3>4 DEF Ready, Finished
    <2>9. CASE Commit(r) \/ CommitUnacknowledged(r) \/ CommitFails(r)
      BY <1>3, <2>9 DEF Commit, CommitUnacknowledged, Committed, CommitFails, Raise, Goto, Clean,
                        TypeOK, Ready
    <2>10. CASE SendReply(r)
      BY <1>3, <2>10
      DEF SendReply, Goto, tables, world, TypeOK, Ready, Finished, SameSlot
    <2> QED
      BY <2>1, <2>2, <2>3, <2>4, <2>5, <2>6, <2>7, <2>8, <2>9, <2>10
      DEF RequestStep, Step, Fault
  <1> QED
    BY <1>2, <1>4 DEF Others

\* A request's reply, its own or a replay, is of the tag it asked for.
LEMMA RepliesStep ==
  ASSUME IInv, NEW r \in Request, RequestStep(r)
  PROVE  RepliesOwn(r)'
  <1>1. TypeOK /\ RepliesOwn(r) /\ TagKnown /\ RecordsNameStoredTags
    BY DEF IInv, TypeInv
  <1>2. ASSUME NEW t \in TagRow, NEW b \in BOOLEAN, Return(r, t, b),
               SameSlot(t, call[r]), call' = call
        PROVE  RepliesOwn(r)'
    BY <1>1, <1>2 DEF Return, Goto, Reply, Code, TypeOK, RepliesOwn, SameSlot
  <1>3. ASSUME NEW code \in Code \ {"created"}, Raise(r, code)
        PROVE  RepliesOwn(r)'
    BY <1>1, <1>3 DEF Raise, Goto, Reply, TypeOK, RepliesOwn
  <1>4. ASSUME UNCHANGED <<call, reply>>,
               pc'[r] # "idle",
               pc'[r] \in {"reply", "commit", "rollback", "done"} =>
                 pc[r] \in {"reply", "commit", "rollback"},
               r \in answered' =>
                 r \in answered \/ pc[r] \in {"reply", "rollback"}
        PROVE  RepliesOwn(r)'
    BY <1>1, <1>4 DEF RepliesOwn, SameSlot
  <1>5. CASE Receive(r)
    BY <1>1, <1>5 DEF Receive, Goto, outcome, TypeOK, RepliesOwn
  <1>6. CASE Lookup(r)
    <2>1. CASE Goto(r, "check") /\ UNCHANGED reply
      BY <1>1, <1>4, <1>6, <2>1 DEF Lookup, Goto, local, TypeOK
    <2>2. CASE Raise(r, "idempotency_conflict")
      BY <1>3, <2>2 DEF Code
    <2>3. ASSUME NEW x \in records, x.hash = hash_request(call[r]), Return(r, x.body, TRUE)
          PROVE  RepliesOwn(r)'
      <3>1. x.body \in TagRow /\ SameSlot(x.body, call[r])
        BY <1>1, <2>3 DEF RecordsNameStoredTags, TypeOK, hash_request, SameSlot
      <3> QED
        BY <1>2, <1>6, <2>3, <3>1 DEF Lookup, local
    <2> QED
      BY <1>6, <2>1, <2>2, <2>3 DEF Lookup, get_record
  <1>7. CASE CheckTarget(r) \/ GetToken(r)
    <2>1. CASE Raise(r, "not_found") \/ Raise(r, "upstream_error")
      BY <1>3, <2>1 DEF Code
    <2>2. CASE UNCHANGED reply /\ pc'[r] \in {"find", "meta", "refresh"}
      BY <1>4, <1>7, <2>2 DEF CheckTarget, GetToken, local
    <2> QED
      BY <1>1, <1>7, <2>1, <2>2 DEF CheckTarget, GetToken, Goto, TypeOK
  <1>8. CASE FindTag(r) \/ InsertTag(r) \/ RefreshToken(r) \/ MetaCreates(r) \/ Activate(r)
    BY <1>1, <1>4, <1>8
    DEF FindTag, InsertTag, RefreshToken, MetaCreates, Activate, Goto, local, outcome, TypeOK
  <1>9. CASE InsertConflicts(r) \/ InsertFails(r) \/ StoreRecordFails(r)
               \/ StatementFails(r) \/ MetaFails(r) \/ MetaBreaks(r)
    BY <1>3, <1>9
    DEF InsertConflicts, InsertFails, StoreRecordFails, StatementFails, MetaFails,
        MetaBreaks, GiveUp, Code
  <1>10. CASE StoreRecord(r)
    BY <1>1, <1>2, <1>10 DEF StoreRecord, TagKnown, HasTag, local
  <1>11. CASE Commit(r) \/ SendReply(r) \/ Rollback(r) \/ Crash(r)
    BY <1>1, <1>4, <1>11
    DEF Commit, CommitUnacknowledged, Committed, SendReply, Rollback, Crash, Goto, local,
        outcome, TypeOK
  <1>12. CASE CommitUnacknowledged(r) \/ CommitFails(r)
    <2>1. CASE Raise(r, "server_error")
      BY <1>3, <2>1 DEF Code
    <2>2. CASE CommitFails(r) /\ UNCHANGED reply /\ Goto(r, "done")
      BY <1>1, <1>4, <1>12, <2>2 DEF CommitFails, Goto, local, TypeOK
    <2> QED
      BY <1>12, <2>1, <2>2 DEF CommitUnacknowledged, CommitFails
  <1> QED
    BY <1>5, <1>6, <1>7, <1>8, <1>9, <1>10, <1>11, <1>12 DEF RequestStep, Step, Fault

(***************************************************************************)
(* The invariant and the properties that follow from it.                   *)
(***************************************************************************)
\* The inductive invariant holds before the first request.
LEMMA InvInit == Init => IInv
  <1> SUFFICES ASSUME Init PROVE IInv
    OBVIOUS
  <1>1. TypeInv
    BY TypeInit
  <1>2. CommittedTagsActive /\ RecordsNameStoredTags /\ CommittedIsOver
    BY DEF Init, CommittedTagsActive, RecordsNameStoredTags, CommittedIsOver
  <1>3. \A r \in Request : Held(r) /\ SlotExclusive(r) /\ Ready(r) /\ RepliesOwn(r)
    BY DEF Init, Held, SlotExclusive, Ready, RepliesOwn, CallsMeta, Clean
  <1> QED
    BY <1>1, <1>2, <1>3 DEF IInv

\* Every step, of a request or of its environment, keeps the invariant.
LEMMA InvStep == IInv /\ [Next]_vars => IInv'
  <1> SUFFICES ASSUME IInv, [Next]_vars PROVE IInv'
    OBVIOUS
  <1>1. TypeInv' /\ CommittedTagsActive' /\ RecordsNameStoredTags'
    BY TypeStep, StoredStep DEF IInv
  <1>2. ASSUME NEW r \in Request, RequestStep(r) PROVE IInv'
    <2>1. CommittedIsOver'
      BY <1>2, OverStep
    <2>2. \A q \in Request : SlotExclusive(q)' /\ Ready(q)'
      BY <1>2, SlotStep, ReadyStep
    <2>3. Held(r)' /\ RepliesOwn(r)'
      BY <1>2, HeldStep, RepliesStep
    <2>4. ASSUME NEW q \in Others(r) PROVE Held(q)' /\ RepliesOwn(q)'
      <3>1. SameFor(q) /\ Held(q) /\ RepliesOwn(q)
        BY <1>2, StepIsLocal DEF IInv, TypeInv, Others
      <3> QED
        BY <3>1 DEF SameFor, Held, RepliesOwn, CallsMeta, SameSlot
    <2> QED
      BY <1>1, <2>1, <2>2, <2>3, <2>4 DEF IInv, Others
  <1>3. CASE Environment \/ UNCHANGED vars
    <2>1. /\ UNCHANGED <<pc, call, tag, reply, answered, dirty, tags, records>>
          /\ conversions \subseteq conversions'
      BY <1>3
      DEF Environment, TokenExpires, PixelSynced, MetaCatchesUp, CreateAtMeta, vars,
          local, outcome, tables, world
    <2>2. CommittedIsOver'
      BY <2>1 DEF IInv, CommittedIsOver
    <2>3. ASSUME NEW r \in Request
          PROVE  Held(r)' /\ SlotExclusive(r)' /\ Ready(r)' /\ RepliesOwn(r)'
      <3>1. Held(r) /\ SlotExclusive(r) /\ Ready(r) /\ RepliesOwn(r)
        BY DEF IInv
      <3>2. Held(r)' /\ RepliesOwn(r)'
        BY <2>1, <3>1 DEF Held, RepliesOwn, CallsMeta, SameSlot
      <3>3. SlotExclusive(r)'
        BY <2>1, <3>1 DEF SlotExclusive, SameSlot
      <3>4. Ready(r)'
        BY <2>1, <3>1 DEF Ready, Finished, MetaId, SameSlot
      <3> QED
        BY <3>2, <3>3, <3>4
    <2> QED
      BY <1>1, <2>2, <2>3 DEF IInv
  <1> QED
    BY <1>2, <1>3 DEF Next, RequestStep, Terminating

\* The inductive invariant holds throughout.
LEMMA InvCorrect == Spec => []IInv
  BY InvInit, InvStep, PTL DEF Spec

\* Only ACTIVE tags whose conversion exists at Meta are ever committed: the PENDING
\* insert and the FAILED update never outlive the transaction of their request.
THEOREM CommittedActive == Spec => []CommittedTagsActive
  <1>1. IInv => CommittedTagsActive
    BY DEF IInv
  <1> QED
    BY <1>1, InvCorrect, PTL

\* Every committed idempotency record replays a committed tag of the advertiser
\* and name that its hash was computed from.
THEOREM RecordsStored == Spec => []RecordsNameStoredTags
  <1>1. IInv => RecordsNameStoredTags
    BY DEF IInv
  <1> QED
    BY <1>1, InvCorrect, PTL

\* No 201, fresh or replayed under a key that advertisers share, shows a client
\* a tag of another advertiser or name than it asked for.
THEOREM RepliesCorrect == Spec => []CreatedReplyIsOwn
  <1>1. IInv => CreatedReplyIsOwn
    BY DEF IInv, TypeInv, TypeOK, RepliesOwn, CreatedReplyIsOwn
  <1> QED
    BY <1>1, InvCorrect, PTL

\* The unique key lets one request at a time work on an (advertiser, name)
\* between its insert and the flush of Meta's answer.
THEOREM MetaExclusive == Spec => []MetaCallsExclusive
  <1>1. ASSUME IInv PROVE MetaCallsExclusive
    <2> SUFFICES ASSUME NEW q \in Request, NEW r \in Request, CallsMeta(q), CallsMeta(r),
                        SameSlot(call[q], call[r]), q # r
                 PROVE  FALSE
      BY DEF MetaCallsExclusive
    <2>1. Held(q) /\ Held(r) /\ SlotExclusive(q)
      BY <1>1 DEF IInv
    <2> QED
      BY <2>1 DEF Held, SlotExclusive, Others, SameSlot
  <1> QED
    BY <1>1, InvCorrect, PTL

\* A session that is waited for holds what its request took on the way.
LEMMA WaitersBehind ==
  ASSUME IInv
  PROVE  WaitersBehindHolders
  <1> SUFFICES ASSUME NEW q \in Request, NEW r \in Request, Waits(r, q)
               PROVE  Stage(r) < Stage(q)
    BY DEF WaitersBehindHolders
  <1>1. Held(q) /\ pc[q] \in Label
    BY DEF IInv, TypeInv, TypeOK
  <1>2. CASE pc[r] = "insert" /\ TagKeyHeldBy(q, call[r])
    <2>1. pc[q] \notin {"idle", "lookup", "check", "find", "insert"}
      BY <1>1, <1>2 DEF TagKeyHeldBy, Held
    <2> QED
      BY <1>1, <1>2, <2>1 DEF Stage, Label
  <1>3. CASE pc[r] = "refresh" /\ TokenHeldBy(q, call[r].adv)
    <2>1. pc[q] \in {"meta", "activate", "store", "reply", "commit", "rollback"}
      BY <1>1, <1>3 DEF TokenHeldBy, Held
    <2> QED
      BY <1>3, <2>1 DEF Stage
  <1>4. CASE pc[r] = "store" /\ KeyHeldBy(q, call[r].key)
    <2>1. pc[q] \in {"reply", "commit", "rollback"}
      BY <1>1, <1>4 DEF KeyHeldBy, Held
    <2> QED
      BY <1>4, <2>1 DEF Stage
  <1> QED
    BY <1>2, <1>3, <1>4 DEF Waits

\* Requests take their locks in one order, tag key, token row, idempotency key,
\* so no cycle of waits between them can arise.
THEOREM NoWaitCycle == Spec => []WaitersBehindHolders
  BY WaitersBehind, InvCorrect, PTL
-----------------------------------------------------------------------------
(***************************************************************************)
(* A properly keyed 201 is stored.  The critical step is the lost race for *)
(* a key in StoreRecord: the record that won has, by proper keys, the hash *)
(* of the loser's call, so its tag is committed under the loser's own      *)
(* (advertiser, name) and the loser cannot have inserted one.              *)
(***************************************************************************)
\* A record is kept under the key and the hash of a call that was received.
FromCall(x) ==
  \E q \in Request :
    pc[q] # "idle" /\ call[q].key = x.key /\ hash_request(call[q]) = x.hash

RecordsFromCalls ==
  /\ \A x \in records : FromCall(x)
  /\ \A r \in Request : \A x \in dirty[r].records : FromCall(x)

\* The tag of a 201 is committed, or about to be.
AnswerKept(r) ==
  /\ pc[r] = "commit" /\ reply[r].code = "created"
       => reply[r].tag \in tags \cup dirty[r].tags
  /\ pc[r] \in {"reply", "done"} /\ reply[r].code = "created" => reply[r].tag \in tags
  /\ pc[r] = "rollback" => reply[r].code # "created"
  /\ r \in answered => pc[r] \in {"done", "crashed"}
  /\ r \in answered /\ reply[r].code = "created" => reply[r].tag \in tags

KeyInv ==
  /\ IInv
  /\ RecordsFromCalls
  /\ ProperKeys => \A r \in Request : AnswerKept(r)

\* Every record, committed or not, was made for the call of some request.
LEMMA RecordsFromStep ==
  ASSUME KeyInv, [Next]_vars
  PROVE  RecordsFromCalls'
  <1>1. TypeOK /\ IInv /\ RecordsFromCalls
    BY DEF KeyInv, IInv, TypeInv
  <1>2. \A x : FromCall(x) => FromCall(x)'
    BY <1>1, CallsKept DEF FromCall, hash_request
  <1>3. \A x \in records' : FromCall(x)'
    BY <1>1, <1>2, CommittedGrows DEF RecordsFromCalls
  <1>4. ASSUME NEW r \in Request, RequestStep(r), NEW q \in Request,
               NEW x \in dirty'[q].records
        PROVE  FromCall(x)'
    <2>1. CASE q # r
      BY <1>1, <1>2, <1>4, <2>1, StepIsLocal DEF SameFor, Others, RecordsFromCalls
    <2>2. CASE q = r /\ ~StoreRecord(r)
      <3>1. \/ dirty'[r].records = dirty[r].records
            \/ dirty'[r] = Clean
        <4>1. CASE InsertTag(r) \/ RefreshToken(r)
          BY <1>1, <4>1 DEF InsertTag, Flush, RefreshToken, TypeOK, WriteSet
        <4>2. CASE MetaFails(r) \/ Activate(r)
          BY <1>1, <4>2, FlushedRow, FlushHeld
        <4>3. CASE ~(InsertTag(r) \/ RefreshToken(r) \/ MetaFails(r) \/ Activate(r))
          BY <1>1, <1>4, <2>2, <4>3
          DEF RequestStep, Step, Fault, Receive, Lookup, CheckTarget, GetToken, FindTag,
              InsertConflicts, InsertFails, StoreRecordFails, StatementFails, MetaCreates,
              MetaBreaks, GiveUp, Commit, CommitUnacknowledged, Committed, CommitFails,
              SendReply, Rollback, Crash, TypeOK
        <4> QED
          BY <4>1, <4>2, <4>3
      <3> QED
        BY <1>1, <1>2, <1>4, <2>2, <3>1 DEF RecordsFromCalls, Clean
    <2>3. CASE q = r /\ StoreRecord(r)
      <3>1. x \in dirty[r].records \/ x = NewRecord(r)
        BY <1>1, <1>4, <2>3 DEF StoreRecord, Clean, TypeOK, WriteSet
      <3>2. FromCall(NewRecord(r))
        BY <2>3 DEF FromCall, NewRecord, StoreRecord
      <3> QED
        BY <1>1, <1>2, <3>1, <3>2 DEF RecordsFromCalls
    <2> QED
      BY <2>1, <2>2, <2>3
  <1>5. CASE Environment \/ UNCHANGED vars
    <2>1. dirty' = dirty
      BY <1>5 DEF Environment, TokenExpires, PixelSynced, MetaCatchesUp, vars
    <2> QED
      BY <1>1, <1>2, <1>3, <2>1 DEF RecordsFromCalls
  <1> QED
    BY <1>3, <1>4, <1>5 DEF Next, RequestStep, Terminating, RecordsFromCalls

\* With proper keys the loser of a race for a key answers with a stored tag.
LEMMA LoserKeepsTag ==
  ASSUME KeyInv, ProperKeys, NEW r \in Request, StoreRecord(r)
  PROVE  tag[r] \in tags \cup dirty'[r].tags
  <1>1. TypeOK /\ pc[r] = "store" /\ Ready(r) /\ Held(r) /\ SlotExclusive(r) /\ TagKnown
    BY DEF KeyInv, IInv, TypeInv, StoreRecord
  <1>2. tag[r] \in tags \cup dirty[r].tags /\ SameSlot(tag[r], call[r])
    BY <1>1 DEF Ready, TagKnown, HasTag
  <1>3. CASE call[r].key = None \/ get_record(call[r].key) = {}
    <2>1. dirty'[r].tags = dirty[r].tags
      BY <1>1, <1>3 DEF StoreRecord, TypeOK, WriteSet
    <2> QED
      BY <1>2, <2>1
  <1>4. CASE call[r].key # None /\ get_record(call[r].key) # {}
    <2>1. PICK x \in records : x.key = call[r].key
      BY <1>4 DEF get_record
    <2>2. x.hash = hash_request(call[r])
      BY <1>1, <1>4, <2>1 DEF KeyInv, RecordsFromCalls, FromCall, ProperKeys
    <2>3. x.body \in tags /\ SameSlot(tag[r], x.body)
      BY <1>2, <2>2 DEF KeyInv, IInv, RecordsNameStoredTags, hash_request, SameSlot
    <2>4. tag[r] \notin dirty[r].tags
      BY <1>1, <2>3 DEF SlotExclusive
    <2> QED
      BY <1>2, <2>4
  <1> QED
    BY <1>3, <1>4

\* With proper keys and the commit before the reply, an answered tag is stored.
LEMMA AnswerStep ==
  ASSUME KeyInv, ~ReplyBeforeCommit, ProperKeys, [Next]_vars,
         NEW r \in Request, RequestStep(r), \A q \in Request : AnswerKept(q)
  PROVE  \A q \in Request : AnswerKept(q)'
  <1>1. TypeOK /\ IInv /\ AnswerKept(r) /\ RepliesOwn(r)
    BY DEF KeyInv, IInv, TypeInv
  <1>2. tags \subseteq tags'
    BY <1>1, CommittedGrows
  <1>3. ASSUME NEW q \in Others(r) PROVE AnswerKept(q)'
    BY <1>1, <1>2, StepIsLocal DEF SameFor, Others, AnswerKept
  <1>4. ASSUME NEW code \in Code \ {"created"}, Raise(r, code), r \notin answered'
        PROVE  AnswerKept(r)'
    BY <1>1, <1>4 DEF Raise, Goto, TypeOK, AnswerKept
  <1>5. ASSUME NEW t \in TagRow, NEW b \in BOOLEAN, Return(r, t, b),
               t \in tags' \cup dirty'[r].tags, r \notin answered'
        PROVE  AnswerKept(r)'
    BY <1>1, <1>5 DEF Return, Goto, TypeOK, AnswerKept
  <1>6. ASSUME pc'[r] \in Label \ {"commit", "reply", "done", "rollback"}, r \notin answered'
        PROVE  AnswerKept(r)'
    BY <1>6 DEF AnswerKept
  <1>7. r \in answered => pc[r] \in {"done", "crashed"}
    BY <1>1 DEF AnswerKept
  <1>8. ASSUME Receive(r)
        PROVE  AnswerKept(r)'
    BY <1>1, <1>6, <1>7, <1>8 DEF Receive, Goto, Label, outcome, TypeOK
  <1>9. ASSUME Lookup(r)
        PROVE  AnswerKept(r)'
    <2>1. r \notin answered'
      BY <1>7, <1>9 DEF Lookup
    <2>2. CASE Goto(r, "check")
      BY <1>1, <1>6, <2>1, <2>2 DEF Goto, Label, TypeOK
    <2>3. CASE Raise(r, "idempotency_conflict")
      BY <1>4, <2>1, <2>3 DEF Code
    <2>4. ASSUME NEW x \in records, Return(r, x.body, TRUE) PROVE AnswerKept(r)'
      <3>1. x.body \in TagRow /\ x.body \in tags
        BY <1>1 DEF IInv, RecordsNameStoredTags, TypeOK
      <3> QED
        BY <1>2, <1>5, <2>1, <2>4, <3>1
    <2> QED
      BY <1>9, <2>2, <2>3, <2>4 DEF Lookup, get_record
  <1>10. ASSUME CheckTarget(r) \/ GetToken(r)
         PROVE  AnswerKept(r)'
    <2>1. r \notin answered'
      BY <1>7, <1>10 DEF CheckTarget, GetToken
    <2>2. CASE Raise(r, "not_found") \/ Raise(r, "upstream_error")
      BY <1>4, <2>1, <2>2 DEF Code
    <2>3. CASE pc'[r] \in {"find", "meta", "refresh"}
      BY <1>6, <2>1, <2>3 DEF Label
    <2> QED
      BY <1>1, <1>10, <2>2, <2>3 DEF CheckTarget, GetToken, Goto, TypeOK
  <1>11. ASSUME FindTag(r) \/ InsertTag(r) \/ RefreshToken(r) \/ MetaCreates(r) \/ Activate(r)
         PROVE  AnswerKept(r)'
    BY <1>1, <1>6, <1>7, <1>11
    DEF FindTag, InsertTag, RefreshToken, MetaCreates, Activate, Goto, Label, outcome, TypeOK
  <1>12. ASSUME \/ InsertConflicts(r) \/ InsertFails(r) \/ StoreRecordFails(r)
                \/ StatementFails(r) \/ MetaFails(r) \/ MetaBreaks(r)
         PROVE  AnswerKept(r)'
    BY <1>4, <1>7, <1>12
    DEF InsertConflicts, InsertFails, StoreRecordFails, StatementFails, MetaFails,
        MetaBreaks, GiveUp, Code
  <1>13. ASSUME StoreRecord(r)
         PROVE  AnswerKept(r)'
    <2>1. tag[r] \in TagRow /\ r \notin answered' /\ tags' = tags
      BY <1>7, <1>13 DEF StoreRecord, IInv, KeyInv, TypeInv, TagKnown, HasTag, tables
    <2>2. Return(r, tag[r], FALSE)
      BY <1>13 DEF StoreRecord
    <2> QED
      BY <1>5, <1>13, <2>1, <2>2, LoserKeepsTag
  <1>14. ASSUME Commit(r)
         PROVE  AnswerKept(r)'
    <2>1. tags' = tags \cup dirty[r].tags
      BY <1>1, <1>14 DEF Commit, CommitUnacknowledged, Committed, IInv, CommittedIsOver, Held
    <2> QED
      BY <1>1, <1>7, <1>14, <2>1 DEF Commit, CommitUnacknowledged, Committed, Goto, outcome,
                                     TypeOK, AnswerKept
  <1>15. ASSUME CommitUnacknowledged(r) \/ CommitFails(r)
         PROVE  AnswerKept(r)'
    BY <1>4, <1>7, <1>15 DEF CommitUnacknowledged, Committed, CommitFails, Code
  <1>16. ASSUME SendReply(r) \/ Rollback(r)
         PROVE  AnswerKept(r)'
    BY <1>1, <1>2, <1>16 DEF SendReply, Rollback, Goto, TypeOK, AnswerKept
  <1>17. ASSUME Crash(r)
         PROVE  AnswerKept(r)'
    BY <1>1, <1>6, <1>7, <1>17 DEF Crash, Goto, Label, outcome, TypeOK
  <1> QED
    BY <1>3, <1>8, <1>9, <1>10, <1>11, <1>12, <1>13, <1>14, <1>15, <1>16, <1>17
    DEF RequestStep, Step, Fault, Others

\* FastAPI commits before it replies, clients use keys properly: every 201 is
\* for a committed tag, although a lost race for a key rolls back the session
\* of a request that goes on to answer 201.
THEOREM AnswersStored ==
  ~ReplyBeforeCommit => (Spec => []ProperlyKeyedTagIsStored)
  <1> SUFFICES ASSUME ~ReplyBeforeCommit PROVE Spec => []ProperlyKeyedTagIsStored
    OBVIOUS
  <1>1. Init => KeyInv
    BY InvInit DEF Init, KeyInv, RecordsFromCalls, AnswerKept, Clean
  <1>2. KeyInv /\ [Next]_vars => KeyInv'
    <2> SUFFICES ASSUME KeyInv, [Next]_vars PROVE KeyInv'
      OBVIOUS
    <2>1. IInv' /\ RecordsFromCalls'
      BY InvStep, RecordsFromStep DEF KeyInv
    <2>2. ASSUME ProperKeys' PROVE \A r \in Request : AnswerKept(r)'
      <3>1. ProperKeys
        BY <2>2, CallsKept DEF ProperKeys, hash_request, KeyInv, IInv, TypeInv
      <3>2. \A r \in Request : AnswerKept(r)
        BY <3>1 DEF KeyInv
      <3>3. CASE \E r \in Request : RequestStep(r)
        BY <3>1, <3>2, <3>3, AnswerStep
      <3>4. CASE Environment \/ UNCHANGED vars
        BY <3>2, <3>4
        DEF Environment, TokenExpires, PixelSynced, MetaCatchesUp, vars, outcome, tables, AnswerKept
      <3> QED
        BY <3>3, <3>4 DEF Next, RequestStep, Terminating
    <2> QED
      BY <2>1, <2>2 DEF KeyInv
  <1>3. KeyInv => ProperlyKeyedTagIsStored
    BY DEF KeyInv, IInv, TypeInv, TypeOK, AnswerKept, ProperlyKeyedTagIsStored,
       CreatedTagIsStored
  <1> QED
    BY <1>1, <1>2, <1>3, PTL DEF Spec

-----------------------------------------------------------------------------
(***************************************************************************)
(* The tables implement TagRegistry.  A commit is one registration because *)
(* a session holds at most one row of each table, under keys that no other *)
(* session holds and no committed row has.                                 *)
(***************************************************************************)
OneOfEach(r) ==
  /\ dirty[r].tags = {} \/ \E t \in TagRow : dirty[r].tags = {t}
  /\ dirty[r].records = {} \/ \E x \in Record : dirty[r].records = {x}

KeyExclusive(r) ==
  \A x \in dirty[r].records :
    /\ \A y \in records : y.key # x.key
    /\ \A q \in Others(r) : \A y \in dirty[q].records : y.key # x.key

RegistryInv == IInv /\ \A r \in Request : OneOfEach(r) /\ KeyExclusive(r)

\* What one step can do to the write set of its session.
LEMMA DirtyStep ==
  ASSUME IInv, NEW r \in Request, RequestStep(r)
  PROVE  \/ dirty'[r] = dirty[r]
         \/ dirty'[r] = Clean
         \/ \E t \in TagRow : dirty'[r] = [dirty[r] EXCEPT !.tags = {t}]
         \/ dirty'[r] = [dirty[r] EXCEPT !.tokens = @ \cup {call[r].adv}]
         \/ /\ StoreRecord(r)
            /\ get_record(call[r].key) = {}
            /\ \A q \in Others(r) : ~KeyHeldBy(q, call[r].key)
            /\ NewRecord(r) \in Record
            /\ dirty'[r] = [dirty[r] EXCEPT !.records = {NewRecord(r)}]
  <1>1. TypeOK /\ Held(r) /\ CallKnown /\ TagKnown
    BY DEF IInv, TypeInv
  <1>2. CASE InsertTag(r)
    <2>1. NewTag(r) \in TagRow
      BY <1>1, <1>2, NewTagType DEF InsertTag, CallKnown
    <2>2. {u \in dirty[r].tags : u.id # NewTag(r).id} \cup {NewTag(r)} = {NewTag(r)}
      BY <1>1, <1>2 DEF InsertTag, Held
    <2>3. dirty'[r] = [dirty[r] EXCEPT !.tags = {NewTag(r)}]
      BY <1>1, <1>2, <2>2 DEF InsertTag, Flush, TypeOK
    <2> QED
      BY <2>1, <2>3
  <1>3. CASE MetaFails(r) \/ Activate(r)
    <2>1. tag'[r] \in TagRow /\ dirty'[r].tags = {tag'[r]} /\ Flush(r, tag'[r])
      BY <1>3, FlushedRow, FlushHeld
    <2>2. dirty'[r] = [dirty[r] EXCEPT !.tags = {tag'[r]}]
      BY <1>1, <2>1 DEF Flush, TypeOK, WriteSet
    <2> QED
      BY <2>1, <2>2
  <1>4. CASE RefreshToken(r)
    BY <1>1, <1>4 DEF RefreshToken, TypeOK
  <1>5. CASE StoreRecord(r)
    <2>1. call[r].key # None => NewRecord(r) \in Record
      BY <1>1, <1>5
      DEF StoreRecord, CallKnown, CallType, TagKnown, HasTag, NewRecord, Record, Hash,
          hash_request
    <2> QED
      BY <1>1, <1>5, <2>1 DEF StoreRecord, TypeOK
  <1>6. CASE Commit(r) \/ CommitUnacknowledged(r) \/ CommitFails(r) \/ Rollback(r) \/ Crash(r)
    BY <1>1, <1>6 DEF Commit, CommitUnacknowledged, Committed, CommitFails, Rollback, Crash,
                      TypeOK
  <1>7. \/ InsertTag(r) \/ MetaFails(r) \/ Activate(r) \/ RefreshToken(r)
        \/ StoreRecord(r) \/ Commit(r) \/ CommitUnacknowledged(r) \/ CommitFails(r)
        \/ Rollback(r) \/ Crash(r) \/ dirty' = dirty
    BY DEF RequestStep, Step, Fault, Receive, Lookup, CheckTarget, GetToken, FindTag,
        InsertConflicts, InsertFails, StoreRecordFails, StatementFails, MetaCreates,
        MetaBreaks, GiveUp, SendReply
  <1> QED
    BY <1>2, <1>3, <1>4, <1>5, <1>6, <1>7

\* DirtyStep, one field of the write set at a time.
LEMMA DirtyFields ==
  ASSUME IInv, NEW r \in Request, RequestStep(r)
  PROVE  /\ \/ dirty'[r].tags = dirty[r].tags
            \/ dirty'[r].tags = {}
            \/ \E t \in TagRow : dirty'[r].tags = {t}
         /\ \/ dirty'[r].records = dirty[r].records
            \/ dirty'[r].records = {}
            \/ /\ get_record(call[r].key) = {}
               /\ \A q \in Others(r) : ~KeyHeldBy(q, call[r].key)
               /\ NewRecord(r) \in Record
               /\ dirty'[r].records = {NewRecord(r)}
  <1>1. dirty[r] \in WriteSet
    BY DEF IInv, TypeInv, TypeOK
  <1>2. CASE dirty'[r] = dirty[r] \/ dirty'[r] = Clean
    BY <1>2 DEF Clean
  <1>3. ASSUME NEW t \in TagRow, dirty'[r] = [dirty[r] EXCEPT !.tags = {t}]
        PROVE  dirty'[r].tags = {t} /\ dirty'[r].records = dirty[r].records
    BY <1>1, <1>3 DEF WriteSet
  <1>4. ASSUME dirty'[r] = [dirty[r] EXCEPT !.tokens = @ \cup {call[r].adv}]
        PROVE  dirty'[r].tags = dirty[r].tags /\ dirty'[r].records = dirty[r].records
    BY <1>1, <1>4 DEF WriteSet
  <1>5. ASSUME dirty'[r] = [dirty[r] EXCEPT !.records = {NewRecord(r)}]
        PROVE  dirty'[r].tags = dirty[r].tags /\ dirty'[r].records = {NewRecord(r)}
    BY <1>1, <1>5 DEF WriteSet
  <1> QED
    BY <1>2, <1>3, <1>4, <1>5, DirtyStep

\* Every step keeps each write set to one row and one record, alone with its key.
LEMMA RegistryInvStep == RegistryInv /\ [Next]_vars => RegistryInv'
  <1> SUFFICES ASSUME RegistryInv, [Next]_vars PROVE RegistryInv'
    OBVIOUS
  <1>1. IInv /\ IInv' /\ TypeOK
    BY InvStep DEF RegistryInv, IInv, TypeInv
  <1>2. \A r \in Request : OneOfEach(r) /\ KeyExclusive(r)
    BY DEF RegistryInv
  <1>3. ASSUME NEW r \in Request, RequestStep(r)
        PROVE  \A q \in Request : OneOfEach(q)' /\ KeyExclusive(q)'
    <2>1. \A q \in Others(r) : dirty'[q] = dirty[q]
      BY <1>1, <1>3, StepIsLocal DEF SameFor
    <2>2. OneOfEach(r)'
      BY <1>1, <1>2, <1>3, DirtyFields DEF OneOfEach
    <2>3. CASE Committed(r)
      <3>1. dirty'[r].records = {} /\ records' = records \cup dirty[r].records
        BY <1>1, <2>3 DEF Committed, Clean, TypeOK
      <3>2. \A q \in Request : KeyExclusive(q)'
        BY <1>2, <2>1, <3>1 DEF KeyExclusive, Others
      <3> QED
        BY <1>2, <2>1, <2>2, <3>2 DEF OneOfEach, Others
    <2>4. CASE ~Committed(r)
      <3>1. records' = records
        BY <1>3, <2>4, OnlyCommitWrites
      <3>2. CASE dirty'[r].records \subseteq dirty[r].records
        BY <1>2, <2>1, <2>2, <3>1, <3>2 DEF OneOfEach, KeyExclusive, Others
      <3>3. CASE /\ get_record(call[r].key) = {}
                 /\ \A q \in Others(r) : ~KeyHeldBy(q, call[r].key)
                 /\ dirty'[r].records = {NewRecord(r)}
        <4>1. NewRecord(r).key = call[r].key
          BY DEF NewRecord
        <4>2. \A y \in records : y.key # call[r].key
          BY <3>3 DEF get_record
        <4>3. \A q \in Others(r) : \A y \in dirty[q].records : y.key # call[r].key
          BY <3>3 DEF KeyHeldBy
        <4>4. \A q \in Request : KeyExclusive(q)'
          BY <1>2, <2>1, <3>1, <3>3, <4>1, <4>2, <4>3 DEF KeyExclusive, Others
        <4> QED
          BY <1>2, <2>1, <2>2, <4>4 DEF OneOfEach, Others
      <3> QED
        BY <1>1, <1>3, <3>2, <3>3, DirtyFields
    <2> QED
      BY <2>3, <2>4
  <1>4. CASE Environment \/ UNCHANGED vars
    <2>1. UNCHANGED <<dirty, records>>
      BY <1>4 DEF Environment, TokenExpires, PixelSynced, MetaCatchesUp, vars, tables
    <2> QED
      BY <1>1, <1>2, <2>1 DEF RegistryInv, OneOfEach, KeyExclusive
  <1> QED
    BY <1>1, <1>3, <1>4 DEF RegistryInv, Next, RequestStep, Terminating

\* What Meta makes of a call is one Convert of the registry.
LEMMA ConvertStep ==
  ASSUME TypeOK, NEW r \in Request, call[r] \in CallType,
         AdAccount[call[r].adv] \in Account, CreateAtMeta(r), UNCHANGED <<tags, records>>
  PROVE  Registry!Next
  <1>1. MetaId(r) \in ConversionId
    BY DEF MetaId, ConversionId, CallType
  <1> DEFINE w == [id |-> MetaId(r), pixel |-> call[r].pixel, detail |-> call[r].detail]
  <1>2. {v.id : v \in conversions'} = {v.id : v \in conversions} \cup {MetaId(r)}
    <2>1. CASE \E v \in conversions : v.id = MetaId(r)
      BY <2>1 DEF CreateAtMeta
    <2>2. CASE conversions' = conversions \cup {w}
      <3>1. w.id = MetaId(r)
        OBVIOUS
      <3> HIDE DEF w
      <3> QED
        BY <2>2, <3>1
    <2> QED
      BY <2>1, <2>2 DEF CreateAtMeta
  <1> QED
    BY <1>1, <1>2 DEF Registry!Next, Registry!Convert

\* Apart from the commit a request's step is a Convert or a stutter.
LEMMA MetaStep ==
  ASSUME IInv, NEW r \in Request, RequestStep(r), ~Committed(r)
  PROVE  [Registry!Next]_(Registry!vars)
  <1>1. UNCHANGED <<tags, records>>
    BY OnlyCommitWrites
  <1>2. CASE CreateAtMeta(r) /\ pc[r] = "meta"
    BY <1>1, <1>2, ConvertStep
    DEF IInv, TypeInv, CallKnown, TargetKnown, PastCheck
  <1>3. CASE UNCHANGED conversions
    BY <1>1, <1>3 DEF Registry!vars
  <1> QED
    BY <1>2, <1>3
    DEF RequestStep, Step, Fault, Receive, Lookup, CheckTarget, GetToken, FindTag, InsertTag,
        RefreshToken, Activate, InsertConflicts, InsertFails, StoreRecordFails, StatementFails,
        MetaCreates, MetaFails, MetaBreaks, GiveUp, StoreRecord, Commit, CommitUnacknowledged,
        CommitFails, SendReply, Rollback, Crash, world

\* A commit is one Settle of the registry, or a stutter.
LEMMA CommitStep ==
  ASSUME RegistryInv, [Next]_vars, NEW r \in Request, Committed(r)
  PROVE  [Registry!Next]_(Registry!vars)
  <1>1. IInv /\ Ready(r) /\ SlotExclusive(r) /\ OneOfEach(r) /\ KeyExclusive(r)
    BY DEF RegistryInv, IInv
  <1>2. /\ tags' = tags \cup dirty[r].tags
        /\ records' = records \cup dirty[r].records
        /\ UNCHANGED conversions
    <2>1. \A t \in tags, u \in dirty[r].tags : u.id # t.id
      BY <1>1 DEF Committed, IInv, CommittedIsOver, Held
    <2> QED
      BY <2>1 DEF Committed, world
  <1>3. ASSUME NEW t \in TagRow, dirty[r].tags = {t} PROVE Registry!Register(t)
    <2>1. Finished(t)
      BY <1>1, <1>3 DEF Ready, Committed
    <2>2. t.meta \in {v.id : v \in conversions}
      BY <2>1 DEF Finished
    <2> QED
      BY <1>1, <1>2, <1>3, <2>1, <2>2
      DEF Registry!Register, Registry!SameSlot, SlotExclusive, SameSlot, Finished
  <1>4. ASSUME NEW x \in Record, dirty[r].records = {x} PROVE Registry!Remember(x)
    BY <1>1, <1>2, <1>4
    DEF Registry!Remember, Registry!SameSlot, KeyExclusive, Ready, Committed, SameSlot
  <1>5. dirty[r].tags = {} => UNCHANGED tags
    BY <1>2
  <1>6. dirty[r].records = {} => UNCHANGED records
    BY <1>2
  <1>7. UNCHANGED <<tags, records>> \/ Registry!Settle
    BY <1>1, <1>2, <1>3, <1>4, <1>5, <1>6 DEF OneOfEach, Registry!Settle
  <1> QED
    BY <1>2, <1>7 DEF Registry!Next, Registry!vars

\* Every behaviour of the handlers is, seen through the tables and Meta, one of
\* TagRegistry.
THEOREM Implementation == Spec => ImplementsRegistry
  <1>1. Init => RegistryInv
    BY InvInit DEF Init, RegistryInv, OneOfEach, KeyExclusive, Clean
  <1>2. Init => Registry!Init
    BY DEF Init, Registry!Init
  <1>3. RegistryInv /\ [Next]_vars => [Registry!Next]_(Registry!vars)
    <2> SUFFICES ASSUME RegistryInv, [Next]_vars PROVE [Registry!Next]_(Registry!vars)
      OBVIOUS
    <2>1. CASE \E r \in Request : RequestStep(r)
      BY <2>1, MetaStep, CommitStep DEF RegistryInv
    <2>2. ASSUME NEW r \in Request, MetaCatchesUp(r) PROVE Registry!Next
      BY <2>2, ConvertStep
      DEF MetaCatchesUp, RegistryInv, IInv, TypeInv, CallKnown, InFlightKnown, tables
    <2>3. CASE (Environment /\ ~\E r \in Request : MetaCatchesUp(r)) \/ UNCHANGED vars
      BY <2>3 DEF Environment, TokenExpires, PixelSynced, vars, tables, world, Registry!vars
    <2> QED
      BY <2>1, <2>2, <2>3 DEF Next, RequestStep, Terminating, Environment
  <1> QED
    BY <1>1, <1>2, <1>3, RegistryInvStep, PTL DEF Spec, Registry!Spec, ImplementsRegistry
-----------------------------------------------------------------------------
(***************************************************************************)
(* What the proofs about Hub use of a request's step: where the pixels of  *)
(* its rows come from, and what it does to the token rows.                 *)
(***************************************************************************)
\* Some request, or some row, binds pixel p to advertiser a.
Bound(p, a) ==
  \/ \E t \in tags : t.pixel = p /\ t.adv = a
  \/ \E r \in Request :
       \/ \E t \in dirty[r].tags : t.pixel = p /\ t.adv = a
       \/ pc[r] \in HasTag /\ tag[r].pixel = p /\ tag[r].adv = a
       \/ pc[r] \in PastCheck /\ call[r].pixel = p /\ call[r].adv = a

\* A step's rows come from the table, the session, the local variable or the call.
LEMMA RowsCarried ==
  ASSUME TypeInv, NEW r \in Request, RequestStep(r)
  PROVE  /\ \A t \in dirty'[r].tags :
              \/ t \in dirty[r].tags
              \/ pc[r] \in HasTag /\ t.pixel = tag[r].pixel /\ t.adv = tag[r].adv
              \/ pc[r] \in PastCheck /\ t.pixel = call[r].pixel /\ t.adv = call[r].adv
         /\ pc'[r] \in HasTag =>
              \/ tag'[r] \in tags
              \/ /\ pc[r] \in HasTag
                 /\ tag'[r].pixel = tag[r].pixel /\ tag'[r].adv = tag[r].adv
              \/ /\ pc[r] \in PastCheck
                 /\ tag'[r].pixel = call[r].pixel /\ tag'[r].adv = call[r].adv
         /\ pc'[r] \in PastCheck =>
              /\ call'[r] = call[r]
              /\ pc[r] \in PastCheck \/ pixelOwner[call[r].pixel] = call[r].adv
         /\ tags' \subseteq tags \cup dirty[r].tags
  <1> USE DEF TypeInv, TypeOK, PastCheck, HasTag, Goto
  <1>1. CASE Receive(r) \/ Lookup(r) \/ CheckTarget(r) \/ GetToken(r)
    BY <1>1 DEF Receive, Lookup, CheckTarget, GetToken, Return, Raise, local, tables
  <1>2. CASE FindTag(r) \/ RefreshToken(r) \/ MetaCreates(r) \/ StoreRecordFails(r)
    BY <1>2 DEF FindTag, RefreshToken, MetaCreates, StoreRecordFails, Raise, local, tables,
                get_by_advertiser_and_name, WriteSet
  <1>3. CASE InsertTag(r)
    BY <1>3 DEF InsertTag, Flush, NewTag, tables
  <1>4. CASE Activate(r) \/ MetaFails(r)
    <2>1. PICK t : tag' = [tag EXCEPT ![r] = t] /\ Flush(r, t)
                     /\ t.pixel = tag[r].pixel /\ t.adv = tag[r].adv
      <3>1. tag[r] \in TagRow
        BY <1>4 DEF Activate, MetaFails, GiveUp, TagKnown
      <3>2. CASE Activate(r)
        <4> DEFINE t == [tag[r] EXCEPT !.status = "ACTIVE", !.meta = MetaId(r)]
        <4>1. t.pixel = tag[r].pixel /\ t.adv = tag[r].adv
          BY <3>1 DEF TagRow
        <4> QED
          BY <3>2, <4>1 DEF Activate
      <3>3. CASE MetaFails(r)
        <4> DEFINE t == [tag[r] EXCEPT !.status = "FAILED"]
        <4>1. t.pixel = tag[r].pixel /\ t.adv = tag[r].adv
          BY <3>1 DEF TagRow
        <4>2. tag' = [tag EXCEPT ![r] = t] /\ Flush(r, t)
          BY <3>3 DEF MetaFails
        <4> HIDE DEF t
        <4> QED
          BY <4>1, <4>2
      <3> QED
        BY <1>4, <3>2, <3>3
    <2>2. pc[r] \in HasTag /\ pc[r] \in PastCheck /\ UNCHANGED <<call, tags>>
      BY <1>4 DEF Activate, MetaFails, GiveUp, tables
    <2> QED
      BY <2>1, <2>2 DEF Flush
  <1>5. CASE InsertConflicts(r) \/ InsertFails(r) \/ MetaBreaks(r) \/ StatementFails(r)
    BY <1>5 DEF InsertConflicts, InsertFails, MetaBreaks, StatementFails, Raise, local, tables
  <1>6. CASE StoreRecord(r)
    <2>1. dirty'[r].tags \subseteq dirty[r].tags
      BY <1>6 DEF StoreRecord, Clean, WriteSet
    <2> QED
      BY <1>6, <2>1 DEF StoreRecord, Return, local, tables
  <1>7. CASE \/ Commit(r) \/ CommitUnacknowledged(r) \/ CommitFails(r)
             \/ SendReply(r) \/ Rollback(r) \/ Crash(r)
    BY <1>7 DEF Commit, CommitUnacknowledged, Committed, CommitFails, Raise, SendReply, Rollback,
                Crash, local, tables, Clean
  <1> QED
    BY <1>1, <1>2, <1>3, <1>4, <1>5, <1>6, <1>7 DEF RequestStep, Step, Fault

\* A pixel is bound to an advertiser only where the handler finds it is the
\* advertiser's: every row of the table goes back to such a check.
LEMMA BoundStep ==
  ASSUME TypeInv, [Next]_vars, NEW p, NEW a, Bound(p, a)'
  PROVE  Bound(p, a) \/ pixelOwner[p] = a
  <1>1. CASE \E r \in Request : RequestStep(r)
    <2>1. PICK r \in Request : RequestStep(r)
      BY <1>1
    <2>2. \A q \in Request : q # r => SameFor(q)
      BY <2>1, StepIsLocal DEF Others, TypeInv
    <2>3. CASE \E t \in tags' : t.pixel = p /\ t.adv = a
      BY <2>1, <2>3, RowsCarried DEF Bound
    <2>4. CASE \E q \in Request : q # r /\
                 \/ \E t \in dirty'[q].tags : t.pixel = p /\ t.adv = a
                 \/ pc'[q] \in HasTag /\ tag'[q].pixel = p /\ tag'[q].adv = a
                 \/ pc'[q] \in PastCheck /\ call'[q].pixel = p /\ call'[q].adv = a
      BY <2>2, <2>4 DEF SameFor, Bound
    <2>5. CASE \E t \in dirty'[r].tags : t.pixel = p /\ t.adv = a
      BY <2>1, <2>5, RowsCarried DEF Bound
    <2>6. CASE pc'[r] \in HasTag /\ tag'[r].pixel = p /\ tag'[r].adv = a
      BY <2>1, <2>6, RowsCarried DEF Bound
    <2>7. CASE pc'[r] \in PastCheck /\ call'[r].pixel = p /\ call'[r].adv = a
      BY <2>1, <2>7, RowsCarried DEF Bound
    <2> QED
      BY <2>3, <2>4, <2>5, <2>6, <2>7 DEF Bound
  <1>2. CASE Environment \/ UNCHANGED vars
    <2>1. UNCHANGED <<pc, call, tag, dirty, tags>>
      BY <1>2
      DEF Environment, TokenExpires, PixelSynced, MetaCatchesUp, vars, local, outcome, tables, world
    <2> QED
      BY <2>1 DEF Bound
  <1> QED
    BY <1>1, <1>2 DEF Next, RequestStep, Terminating

\* A request refreshes the one token it needs, an expiring one, and only its
\* commit shows.
LEMMA TokensCarried ==
  ASSUME TypeOK, NEW r \in Request, RequestStep(r)
  PROVE  /\ \/ dirty'[r].tokens \subseteq dirty[r].tokens
            \/ /\ RefreshToken(r)
               /\ dirty'[r].tokens = dirty[r].tokens \cup {call[r].adv}
         /\ pc'[r] = "refresh" => oauth[call[r].adv] = "expiring" /\ oauth' = oauth
         /\ pc'[r] = "refresh" \/ RefreshToken(r) => call' = call
         /\ oauth' = oauth \/ Committed(r)
  <1> USE DEF TypeOK, Goto
  <1>1. CASE Receive(r) \/ Lookup(r) \/ CheckTarget(r) \/ GetToken(r)
    BY <1>1 DEF Receive, Lookup, CheckTarget, GetToken, Return, Raise, local, tables, RefreshToken
  <1>2. CASE FindTag(r) \/ RefreshToken(r) \/ MetaCreates(r) \/ StoreRecordFails(r)
    BY <1>2 DEF FindTag, RefreshToken, MetaCreates, StoreRecordFails, Raise, local, tables, WriteSet
  <1>3. CASE InsertTag(r) \/ Activate(r) \/ MetaFails(r)
    BY <1>3 DEF InsertTag, Activate, MetaFails, Flush, Raise, tables, WriteSet, RefreshToken
  <1>4. CASE InsertConflicts(r) \/ InsertFails(r) \/ MetaBreaks(r) \/ StatementFails(r)
    BY <1>4 DEF InsertConflicts, InsertFails, MetaBreaks, StatementFails, Raise, local, tables
  <1>5. CASE StoreRecord(r) \/ CommitFails(r)
    BY <1>5 DEF StoreRecord, CommitFails, Return, Raise, local, tables, Clean, WriteSet
  <1>6. CASE SendReply(r) \/ Rollback(r) \/ Crash(r)
    BY <1>6 DEF SendReply, Rollback, Crash, local, tables, Clean
  <1>7. CASE Commit(r) \/ CommitUnacknowledged(r)
    <2>1. Committed(r)
      BY <1>7 DEF Commit, CommitUnacknowledged
    <2>2. pc[r] = "commit" /\ dirty'[r].tokens = {}
      BY <2>1 DEF Committed, Clean
    <2>3. ~RefreshToken(r)
      BY <2>2 DEF RefreshToken
    <2>4. pc'[r] # "refresh"
      BY <1>7 DEF Commit, CommitUnacknowledged, Raise
    <2> QED
      BY <2>1, <2>2, <2>3, <2>4
  <1> QED
    BY <1>1, <1>2, <1>3, <1>4, <1>5, <1>6, <1>7 DEF RequestStep, Step, Fault
=============================================================================
