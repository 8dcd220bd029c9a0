# Hub Meta Conversion Service: TLA+ models

A verification project for the service in `src/`: TLA+ modules that model it,
TLC configurations that check them on small instances, and TLAPS proofs of what
matters most. Paths below are relative to the repository.

## The system

The service is a FastAPI application on Postgres that writes to Meta's Marketing
API on behalf of advertisers. Route handlers are `def` functions, so each request
runs in a worker thread; several containers may serve at once. All
coordination between requests goes through the database.

| component | source | state | operations | what makes it correct |
| --- | --- | --- | --- | --- |
| Conversion-tag creation | `app/api/routes/conversion_tags.py`, `app/services/conversion_tag_service.py`, `app/repositories/conversion_tag.py` | `conversion_tags`, unique on (advertiser, name) | POST (create), GET (list) | one tag per name; only finished tags are visible; one request at a time calls Meta for a name; a 201 is for a stored tag of the caller |
| Idempotency keys | `app/services/idempotency.py`, `app/repositories/idempotency.py` | `idempotency_records`, unique on (endpoint, key) | lookup, store | a record replays a stored tag of the same request; a key never answers two different bodies |
| Session per request | `app/db/session.py`, `app/api/errors.py`, `app/api/deps.py` | one transaction per request | commit after return, rollback on any exception | all of a request's writes or none; every session ends |
| OAuth tokens | `app/services/oauth_service.py`, `app/repositories/oauth_token.py` | `oauth_tokens`, unique on (advertiser, provider) | store (no caller outside the tests), get with refresh inside a 60 s leeway | a token handed out is still good when it is used; refreshes do not undo each other |
| Meta client | `app/integrations/meta/client.py`, `real_adapter.py` | none | GET, POST with retries | attempts are bounded; only transient failures are retried |
| Mock adapter | `app/integrations/meta/mock_adapter.py` | pixels, conversions, a call counter | list, create, fault injection | name-unique per ad account; every n-th call fails |
| Pixel sync | `app/services/pixel_sync_service.py`, `app/repositories/pixel.py` | `pixels`, unique on the Meta id | sync: list at Meta, upsert one by one | the table becomes what Meta listed; concurrent syncs do not mix |
| Advertisers | `app/services/advertiser_service.py`, `app/repositories/advertiser.py` | `advertisers`, unique on external_ref | create, get | no duplicate external_ref |
| The rest | `app/core/`, `app/main.py`, `app/db/base.py`, `alembic/`, `terraform/` | settings, schema | wiring | |

Interactions. A request's session is opened by `get_session` and shared by the
services of that request. Creating a tag reads advertisers and pixels, inserts
the tag, gets a token (which may update the token row), calls Meta while the
insert's lock is held, updates the tag, and stores the idempotency record, all in one
transaction. Pixel sync changes the pixels that tags refer to. Nothing else is shared
except the mock adapter's dictionaries, behind a lock.

What is hard: two or more requests interleave at every statement; the unique
keys make them wait for each other's uncommitted rows; Meta keeps what a
rolled-back or crashed request created; the lost race for an Idempotency-Key
rolls back a whole session in the middle of a request that then goes on; the
framework may send the reply before or after the commit. `PROJECT.json` lists each of
these at its line under `hazards`, with the property that covers it.

## Modules

| module | models |
| --- | --- |
| `ConversionTags` | POST conversion-tags: requests, sessions, tables, Meta, faults |
| `TagRegistry` | what the endpoint promises the readers of its tables (abstract) |
| `MCConversionTags` | the instances that TLC checks |
| `ConversionTagsProofs` | its inductive invariants and theorems |
| `MetaClient` | one call to Meta: token, attempts, waits, the exception it ends with |
| `MCMetaClient` | its instance with the default settings |
| `MetaClientProofs` | its inductive invariant and theorems |
| `PixelSync` | POST sync-pixels: concurrent syncs, their upserts, locks, deadlocks and faults |
| `PixelTable` | what the readers of `pixels` may count on (abstract) |
| `MCPixelSync` | its instances |
| `PixelSyncProofs` | its inductive invariant, theorems and refinement |
| `Workers` | requests against worker threads, pool connections and row locks, on `/advertisers` and the health checks |
| `MCWorkers` | its instance |
| `WorkersProofs` | its inductive invariant and theorems |
| `Hub` | tag requests and pixel syncs together on one database: `ConversionTags` and `PixelSync` composed |
| `MCHub` | its instance |
| `HubProofs` | that each kind of request is a permitted environment of the other, and what follows for the whole |

`ConversionTags` and `PixelSync` each have the other in their environment: `PixelSynced` and `TokenRefreshed` are
what a commit of the other kind does to the pixels and the token row. `Hub` has no environment but time: it runs both,
and shows that the environments assumed are the ones met. `Workers` has the threads and the pool that the other modules
assume to be free.

### ConversionTags

One request is one worker thread with one session. `pc[r]` names the statement about
to run. `call` is the parsed input, `tag` the handler's local variable, `reply` what
it returned or raised, and `answered` the requests whose reply has left. `dirty[r]` is
what the session has flushed but not committed. Postgres runs at READ
COMMITTED: nobody else reads `dirty[r]`, but a flush that needs a unique key or a row
in another session's `dirty` waits (`TagKeyHeldBy`, `KeyHeldBy`,
`TokenHeldBy`). `tags`, `records`, `oauth` and `pixelOwner` are committed rows;
`conversions` is what exists at Meta, and `inFlight` the calls that a handler gave up, or
died in, while they may still reach Meta.

| action | code |
| --- | --- |
| `Receive`, `Lookup` | `create_conversion_tag` to the end of the replay branch, `IdempotencyService.lookup` |
| `CheckTarget`, `FindTag`, `InsertTag`, `InsertConflicts`, `InsertFails` | `ConversionTagService.create` up to the insert and its `except Exception` |
| `GetToken`, `RefreshToken` | `OAuthService.get_access_token` |
| `MetaCreates`, `MetaFails`, `MetaBreaks` | `create_custom_conversion` succeeds, raises MetaError, raises anything else; the last two with or without effect at Meta |
| `Activate` | the update to ACTIVE |
| `StoreRecord`, `StoreRecordFails` | `IdempotencyService.store` and its `except IntegrityError`; the route's `except Exception` |
| `Commit`, `CommitUnacknowledged`, `CommitFails`, `Rollback`, `SendReply` | `get_session` after the yield, and the reply; the connection may be lost before the commit takes effect, or after it and before the word of it |
| `StatementFails`, `Crash` | a lost connection under any other statement; the death of the process |
| `TokenExpires`, `PixelSynced`, `MetaCatchesUp` | time; a committed pixel sync; a call given up takes effect late |

Statements between two labels are one step when no other actor can tell them
apart. Event type, category, value, currency and rule are one opaque `detail`. A
conversion's id at Meta is a function of the ad account and the name, as
`_stable_id` computes it. A request stands also for the uuid of the row it
inserts. FastAPI sends the reply before the dependency commits from version 0.118 on and after
it before; `pyproject.toml` allows both, so `ReplyBeforeCommit` is a constant. What 201 promises depends on
it: `ProperlyKeyedTagIsStored` is stated, checked and proved for a commit that comes first only.

Fairness (`FairSpec`) is weak fairness of `Step(r)`: a thread that can run runs, and
a call to Meta ends, which httpx's timeout and the bounded attempts give. Faults, crashes, the environment and
the arrival of requests are not fair: nothing is assumed to break a
wait for a lock except the end of the session that holds it.

### MetaClient

One call, from the moment `get_access_token` reads the token row: `clock` counts half
seconds from there and `left` is when the token expires. An attempt takes up to
`Span`, the timeout times the number of its phases (connect, write, read) that may be slow,
because httpx applies the timeout to each. Between attempts tenacity waits
`wait_exponential`; the power of two is the constant `Power`, with an assumption that
says it doubles, so that the module needs no recursion.

| action | code |
| --- | --- |
| `GetToken` | `get_access_token`: the stored token outside the leeway, a refreshed one, or `NotFoundError` |
| `Succeed` | an attempt whose answer `RealMetaAdapter` returns |
| `Fail` | any other answer or none; `Raises` is `_do_request`'s mapping, `Retried` and `Exhausted` are tenacity's `retry` and `stop` |
| `Sleep` | `wait_exponential`, then the next attempt |

`RetriesOnlyTransient` has an exception in it: a 429 whose Retry-After is a date (`rate_limited_until_date`) ends in the
ValueError of `float()`, which nobody retries, so it ends the call however many attempts are left.

An answer is a class of status codes; `malformed` stands for a body that is not the
JSON expected. Meta refuses an expired token, so such an attempt meets with nothing
but a refusal, a rate limit, a server error or silence.
The refresh itself is a stand-in without a request and takes no time.
The database row is read once, so one call needs no interleaving with others; how calls
of several requests interleave is in `ConversionTags`.

### PixelSync

One sync is one request and one session. `listing[s]` is what Meta answered, `next[s]` the entry in
work, and `seen[s]` the row that the last SELECT returned. `dirty[s]` holds the rows it
has written and not committed: each is locked to the end of the session, and so is
the token row of a refresh (`refreshed`). SQLAlchemy's UPDATE names only the columns that differ from `seen[s]`,
and none is sent when none does (`Changed`, `KeepPixel`); Postgres
applies it to the newest committed row. `overlapped` is a history variable.

| action | code |
| --- | --- |
| `Receive`, `Authorize` | `sync_pixels`, the checks of `sync_for_advertiser` and the lookup of the token |
| `RefreshToken` | `get_access_token`'s upsert |
| `ListPixels`, `ListFails` | `list_pixels` returns, or raises what nobody catches |
| `FindPixel` | `get_by_meta_id` |
| `InsertPixel`, `InsertConflicts` | the insert's flush: it waits for the key, then inserts or fails |
| `UpdatePixel`, `KeepPixel` | the flush of the changed columns, or of none |
| `Return`, `Commit`, `Rollback` | the reply's SELECT, and `get_session` after the yield |
| `StatementFails`, `Crash`, `DeadlockVictim`, `TokenExpires` | a lost connection, the death of the process, Postgres' deadlock detector, time |

`PixelTable` is what remains for a reader of the table: it changes by whole syncs, each with one
listing that Meta has shown for the ad account; every column of a listed pixel is then as listed or as it was.
"Or as it was" is the price of overlapping syncs, and pixel_torn shows that it is paid.

Fairness: weak for each sync's steps (threads run, a call to Meta ends) and for the deadlock detector, which
Postgres runs after a second of waiting. Faults are not fair.

### Workers

FastAPI runs every `def` handler in a thread of anyio's limiter, validates its response in a
thread of the same limiter, and closes the dependency afterwards in a thread outside it. Between
these steps the session stays open: `threads` and `connections` are what a request occupies, per
container, and `inserted` the rows it keeps others waiting for, across containers. `stored` is the requests whose row is
committed, `created` those whose 201 has left. In the containers of `ReplyFirst`, whose image has FastAPI 0.118
or later, the reply leaves before the commit; in the others after it. Images built at different times do either,
so both may serve at once.

| action | code |
| --- | --- |
| `Receive`, `Call`, `Health` | a request arrives; its handler gets a thread; a probe needs nothing else |
| `Connect`, `PoolTimeout`, `ConnectFails` | the first statement takes a connection, waits 30 s in vain, or is refused |
| `Insert`, `InsertConflicts` | `AdvertiserService.create`: the insert waits for a rival's uncommitted row, then inserts, or rolls back and raises `ConflictError` |
| `Select`, `Misses` | the GET handlers |
| `Return`, `Validate` | the handler returns; its response is validated |
| `SendReply` | the reply, on the one side of the commit or the other |
| `Commit`, `CommitUnacknowledged`, `CommitFails`, `Rollback` | `get_session` after the yield; a commit may raise although its row is stored |
| `StatementFails`, `Crash` | a lost connection; a container dies |

With the defaults the pool has 5 + 10 = 15 connections and the limiter 40 threads. When 40
requests hold all threads and wait for the row of a 41st that waits for a thread to validate its response,
nothing moves: but at most 15 of the 40 can be past the pool, so the others time out
there and free their threads. `StallsTimeOut` states this, with its condition: were the pool larger than the limiter,
all threads could wait for one row for ever. `NoStallBelowThreads` states when not even the timeout is needed.
Health checks wait in the same queue for threads.

`OneCreator` says what POST /advertisers still promises when both orders are about: one row for each external_ref, no 409
without it, and no false 201 where the commit comes first. Where the reply comes first a 201 is false if the commit fails
behind it, or the container dies before it, and only then; a rival may then be answered 201 as well.

Fairness: weak for each request's steps and for the pool's timeout (`PoolTimeout` is part of `Step`).
The database cancels no wait for a row (no `lock_timeout` or `statement_timeout` is set).

### Hub

`Hub` instantiates both components over its own variables. The tag requests see of a pixel only whose it is
(`pixelOwner <- Owner`), and both components have the same `oauth`. A step of `Hub` is a step of one component that
leaves the other's variables alone; it adds what neither component can say, that a refresh also waits while a session of the
other kind has the token row (`TagWaitsForSync`, `SyncWaitsForTag`).

| action | code |
| --- | --- |
| `TagStep`, `SyncStep` | a statement of either handler, which now waits for token rows of both kinds |
| `TagElse`, `SyncElse` | arrivals, faults, deadlock victims and late effects at Meta, as in the components |
| `TokenExpires` | time |

Nothing else couples them. The foreign keys of `conversion_tags` and `oauth_tokens` take KEY SHARE locks on pixels and advertisers;
an upsert changes a pixel's `advertiser_id`, name and status, none of which is in a key that others
reference, so it takes FOR NO KEY UPDATE, which does not conflict. A tag's insert refers to a pixel it has read, so to a committed one.

Fairness is that of the components: each session's next statement and the deadlock detector. The detector is fair for syncs only,
which `OnlyUpsertsDeadlock` justifies: no deadlock contains anything else.

## Runs

The bounds: two or three requests (the races are between two, the third
is the one that waits behind them), one or more advertisers, one key, two names, one pixel.
Requests are never reused after they end, so a retry is another request. `SYMMETRY` over
requests is used where no liveness is checked.

| run | checks | shows |
| --- | --- | --- |
| contention | `TypeOK`, `CommittedTagsActive`, `RecordsNameStoredTags`, `ProperlyKeyedTagIsStored`, `MetaCallsExclusive`, `WaitersBehindHolders` | three requests of one advertiser, with no key, with a key, and with the key used for another tag |
| registry | `CreatedReplyIsOwn`, `ImplementsRegistry`, `EveryRequestFinishes` | two advertisers share an ad account, a key and a name, and the reply comes before the commit: neither sees the other's tag, the tables refine `TagRegistry`, and each received request is answered or dies |
| failed_attempt | `FailedAttemptKept` violated | the docstring's row that stays in place after a failure is rolled back |
| key_reuse | `KeyReuseRejected` violated | one key, two bodies, two 201s |
| lost_race | `CreatedTagIsStored` violated | a 201 for a tag that was rolled back |
| mismatch | `ConversionMatchesTag` violated | an edited retry adopts a conversion with the old content |
| meta_client | `TypeOK`, `TokenAliveWhenSent`, `CallEndsInTime`, `RetriesOnlyTransient` | the default settings, one slow phase per attempt: four attempts, 48.5 s from the lookup to the last, within the leeway of 60; and a 429 with a date ends the call at once |
| meta_slow | `TokenAliveWhenSent` violated | the same with two slow phases: 93.5 s, and an expired token is sent |
| pixel_sync | `TypeOK`, `SyncIsAllOrNothing`, `ImplementsTable`, `SortedSyncsNeverDeadlock`, `EverySyncEnds` | two syncs of three advertisers; two ad accounts share a pixel, one lists its pixels in either order, the third advertiser has none |
| pixel_torn | `RowsWereListed` violated | a pixel is renamed and switched off between three syncs; two of them overlap, and the row shows a name and a status that were never listed together |
| workers | `TypeOK`, `StallsTimeOut`, `NoStallBelowThreads`, `OneCreator`, `EveryRequestEnds` | a container with two threads and two connections serves three creates of one advertiser, a GET and a probe, and replies after the commit; a second container serves a fourth create and replies before it |
| hub | `TypeOK`, `OnlyUpsertsDeadlock`, `TaggedPixelsWereListed`, `ImplementsTags`, `ImplementsSyncs`, `EverySessionEnds` | a tag request and two syncs of two advertisers whose ad accounts list the same two pixels in opposite orders, one of them with a token that can be refreshed |

`PixelSync` needs two syncs for its races and its deadlocks (a cycle of two is
the shortest, and `OnCycle` is about any), two pixels for the two orders and a shared pixel for the takeover. A third sync
is in pixel_torn, where the torn row needs one to create it. `Workers` has more requests than threads and
as many connections as threads, the edge of `StallsTimeOut`'s condition, so that stalls with and without a
timeout to wait for occur; `NoStallBelowThreads` bites while at most two requests are in the first container.
Its three creates are alike until each gets a thread, and no property names one of them. TLC therefore explores
only the runs in which they arrive and get their threads in turn (`InOrder`, an ACTION_CONSTRAINT of the configuration);
any other run is one of these with the names exchanged, its fairness included, since requests that wait for a thread in one container
are all enabled or none. This halves the run: 264,015 states in three minutes, 507,645 without, with the same result.
The rest take less than three minutes each.
`Hub` needs two syncs for the deadlock that a tag request must stay out of and for the takeover of a pixel, and one tag request
to hold or want the token row; races among several tag requests are those of contention and registry. Its
tag request sends no key, since records have no part in what is shared.
`MetaClient` is run with the settings the service starts with. A stored token has nothing left, half a
second, exactly the leeway, half a second more, or an hour; these are the boundaries of
the comparison.

## Findings

The runs that are violated are disagreements between the documentation and the
code; `PROJECT.json` quotes both under `findings`. Two more stand beside passing runs, whose property
states what the code does and so denies what is written:

- `CommittedTagsActive` (contention): the docstring at `src/app/models/conversion_tag.py:22-23` says that callers can read back rows
  that are mid-creation, with no conversion id. They cannot: the one commit comes after Meta's answer.
- `RetriesOnlyTransient` (meta_client): `client.py:5` and `src/README.md:127` promise that a 429 is retried. One whose Retry-After is a
  date ends the call on its first attempt, with a ValueError that the service answers with a 500.

## Proofs

### ConversionTags

`ConversionTagsProofs` proves for every number of requests, advertisers, names, keys and
pixels, from the assumptions on the constants alone:

| theorem | property |
| --- | --- |
| `TypeCorrect` | `TypeOK` |
| `CommittedActive`, `RecordsStored` | `CommittedTagsActive`, `RecordsNameStoredTags` |
| `RepliesCorrect` | `CreatedReplyIsOwn` |
| `MetaExclusive` | `MetaCallsExclusive` |
| `NoWaitCycle` | `WaitersBehindHolders` |
| `AnswersStored` | `ProperlyKeyedTagIsStored`, when the commit comes before the reply |
| `Implementation` | `ImplementsRegistry`, in either order |

`TypeOK` is not inductive: an action reads fields of `call[r]` and `tag[r]`, so `TypeInv`
adds that they are set where the labels say so, and that a call in flight is one that was sent. `IInv` adds, for each request: `Held`, which
rows its session holds at which label; `SlotExclusive`, an uncommitted row is alone
in its (advertiser, name), among the sessions and against the table; `Ready`, the tag it is about to answer with is
ACTIVE, exists at Meta, and is in the table or in its own write set; `RepliesOwn`; and
`CommittedIsOver`, a committed row's request has left the service. The exclusion of
calls to Meta, the lock order and what the tables hold follow from it. `KeyInv` adds
that each record was made for some call and that an answer's tag stays stored if keys are used properly.
`RegistryInv` adds that a session writes at most one row and one record,
which with `SlotExclusive` makes its commit one `Settle` of the registry.

### MetaClient

`MetaClientProofs` proves for all settings, every `Power` that doubles, and every token and
answer:

| theorem | property |
| --- | --- |
| `ClientTypes`, `EndsInTime`, `OnlyTransientRetried` | `TypeOK`, `CallEndsInTime`, `RetriesOnlyTransient` |
| `TokenOutlivesCall` | `TokenAliveWhenSent`, if the leeway covers the budget of every attempt |

`Inv` adds that a sleeping call has attempts left and met with a passing
trouble, that a token in use had more than the leeway left at the lookup, and that `Power[attempt]` is at
least 1 (an induction over the attempts, done by the steps of the call). The wait after the
n-th attempt is at most the base delay times `Power[n]` (`WaitBounded`), and an attempt with that wait
is exactly the distance between two budgets (`BudgetNext`). The condition of
`TokenOutlivesCall` is what meta_client satisfies and meta_slow does not.

### PixelSync

`PixelSyncProofs` proves for every number of syncs, advertisers, ad accounts and pixels, every listing that names a
pixel at most once, and every order `Rank`:

| theorem | property |
| --- | --- |
| `SyncTypes` | `TypeOK` |
| `AllOrNothing` | `SyncIsAllOrNothing` |
| `TableImplemented` | `ImplementsTable` |
| `NoSortedDeadlock` | `SortedSyncsNeverDeadlock` |

`IInv` adds to the types which labels hold locks (`Held`) and: a row has one writer at a time (`Exclusive`); what a session has
written is an entry before `next`, upserted over the committed row, which cannot change under the
lock (`Grounded`); every entry before `next` has a row (`Covered`), and exactly the listed one if no other sync
overlapped (`Exact`), which syncs that run together know of (`Quiet`). At the commit `next` is past the end, which makes the commit one `Reconcile`. For the deadlock,
`Place` ranks a waiting sync by the lock it waits for, the token's row first. Whoever is waited for
and waits itself has a larger place (`WaitsUpwards`), so the sync with the least place in a cycle
would have nobody behind it.

### Workers

`WorkersProofs` proves for every number of containers and requests, every limiter and every pool:

| theorem | property |
| --- | --- |
| `WorkerTypes` | `TypeOK`, the limits included |
| `CreatedOnce` | `OneCreator`, whichever containers reply first |
| `PoolBreaksStalls` | `StallsTimeOut` |
| `NoStall` | `NoStallBelowThreads` |

`Inv` adds what a request occupies at which label (`Occupies`) and that an uncommitted external_ref is
alone among the sessions and the table (`Alone`), and for each label whether its row is inserted or stored and its 201
sent (`Holds`, `Answers`). Two false 201s need two commits that fail behind them: the lemma `FalseReply` gives, of two
201s for one external_ref, the one whose commit failed. In a stall without a wait for the pool every thread is held by a request that
waits for a row, with a connection; the row's owner waits for a thread, with a connection too and without a
thread. So its container has more connections than threads (`OneOver`), which the pool does not allow.

### Hub

`HubProofs` proves for every number of requests and syncs, every set of calls and every listing that names a pixel
at most once, in whatever order:

| theorem | property |
| --- | --- |
| `TagsImplemented`, `SyncsImplemented` | `ImplementsTags`, `ImplementsSyncs` |
| `OnlyUpserts` | `OnlyUpsertsDeadlock` |
| `TaggedListed` | `TaggedPixelsWereListed` |
| `HubTypes` | `TypeOK` |
| `TablesImplemented` | the tables of the whole refine `TagRegistry` and `PixelTable` |

The argument is compositional: the module instantiates `ConversionTagsProofs` and `PixelSyncProofs` over `Hub`'s variables
and cites their lemmas. `StepsMatch` shows that under the invariant each step of `Hub` is a step or a stutter
of either component: a commit of a sync is `PixelSynced` there, a commit of a tag request `TokenRefreshed` here. For
this the committing side must be shown to hold the token row that it writes, while the other side holds none, and to
write to the pixels no owner but its own (`SyncCarries`, `TokensCarried`). `HubInv` is therefore the two components'
inductive invariants and two facts about what they share: `TokenRows`, a token row is held by one session of either
kind, and `PixelsListed`, a pixel belongs to an advertiser only after a committed sync of it has listed the
pixel. `HubInvariant` proves it. The theorems of the components carry over, since `Spec` implies their specifications.

`TaggedPixelsWereListed` is not `every tag's pixel is its advertiser's`, which is false: another advertiser's sync may take the
pixel over between the check and the commit, or after it. The lemmas `Bound` and `RowsCarried` in `ConversionTagsProofs` say what
survives: from `CheckTarget` on a request carries one pixel, which was its advertiser's at that moment, and
that a committed sync has listed it stays true.

For `OnlyUpsertsDeadlock`: a sync that waits for a token row holds nothing, so nobody waits for it
(`NobodyBehindRefresh`); a sync in a cycle therefore waits to upsert, which means for another sync. Then each tag request in
the cycle has a tag request waiting behind it, and that one waits for an earlier lock than it does itself (`RequestsInTurn`:
the name, the token row, the key), which cannot go on for ever.

### Not proved

Model-checked only: `EveryRequestFinishes`, `EverySyncEnds`, `EveryRequestEnds` and `EverySessionEnds`, since liveness under fairness is beyond
this prover. The violated properties are TLC counterexamples.

## Not modelled

- `store_initial_token` and a first store of a token: no code outside the tests calls it.
- What marks a token that Meta has refused: README.md and the docstring of `OAuthToken` promise that a 401 leads to a
  refresh, and no code does anything of the kind (`PROJECT.json`, hazard at `adapter.py:24`).
- The wait that Meta asks for with a 429: src/README.md:127 says that `Retry-After` is honoured as a hint. The exception carries it
  (`client.py:107`), no code reads it, and `wait_exponential` is all that the wait depends on. What its parsing does to a date is modelled.
- How late a probe is: `Workers` has no durations, only that a probe is answered in the end.
- Which of two syncs listed first: a sync that listed earlier and commits later overwrites the other's rows, which `PixelTable` allows.
- Expiry of idempotency records: `expires_at` is written and never read.
- The mock's fault counter: every n-th call fails, modelled as a call that may fail at any time.
- The reply's counts, timestamps, the cipher, settings parsing and logging: data without control.
- Alembic's own steps and the infrastructure; two containers that migrate at once are left to Postgres' transactional DDL.
- An anyio limiter or a pool that differs per container: all containers run one image with one configuration.

## Plan

`ConversionTags`, `MetaClient`, `PixelSync`, `Workers` and `Hub` with their proofs are done. What would add most from here:

1. Proved: that the fairness of `Hub` is the fairness of its components is beyond the prover, but the step it rests on is not:
   a session that is not waiting has a step of its own at every label, or waits for one that exists.
2. Proved: `MetaClient`'s waits are the only time that a tag request holds its name for; the bound on it follows from `EndsInTime`.
3. Modelled: tag creation under the limits of `Workers`, where calls to Meta hold threads and connections.
