# Verification of the Discord price tracker

TLA+ models of the price tracker in this repository: TLC checks them on small instances,
TLAPS proves their main invariants for every value of the constants. Paths are relative to
the root of the repository; `alert.py` and `scrape.py` without a directory are in
`app/workers/tasks/`. `PROJECT.json` maps every definition to the lines it stands for.

## 1. The system

Users give a Discord bot the URL of a product (`/track`). Beat publishes a tick every minute
or so; a Celery worker scrapes each due product, stores a snapshot of its price, compares it
with the one before and, where a watch asks for it, creates an alert that a second Celery task
posts to a Discord channel. A FastAPI service and a Next.js dashboard show the history. All
processes share PostgreSQL (rows) and Redis (broker, locks, cooldowns, circuit breakers).

```
 beat --tick--> scrape.tick --message per due product--> scrape.product
 bot  --/track, /refresh---------------------------------^   |
                                                             | lock scrape:product:<id>   (Redis)
                 TierRouter --- circuit:<domain>:* (Redis) <-+
                                                             | price_snapshots, products  (PostgreSQL)
                 AI extractor - ai:cache, ai:cooldown     <--+
                                                             | AlertService.evaluate:
                                                             |   alert_events (PostgreSQL), cooldown (Redis)
                                                             v   one message per event
 bot (settings, deleted channels) --channels--> alert.dispatch --POST--> Discord
```

### Inventory

| component | state | operations | interaction |
|---|---|---|---|
| Alert dispatch (`alert.py`, `discord_dispatcher.py`, `alert_repo.py`) | `alert_events.delivery_status`, `delivery_attempts`; the override of a watch | `dispatch_task`, `_dispatch`, `_bump_attempt`, `_mark_failed`, `mark_delivered` | consumes messages published by the evaluation, reads settings the bot writes, calls Discord |
| Alert evaluation (`alert_service.py`, `cooldown.py`, `queue.py`) | open transaction, cooldown keys | `evaluate`, `is_cooling`, `set_cooldown`, `enqueue_alert_dispatch` | called by the scrape run, publishes before the caller commits |
| Scrape run and lock (`scrape.py`, `locks.py`) | lock key with a lease, AI keys | `_tick`, `_scrape_product`, `_arbitrate`, `_evaluate`, `acquire`, `release` | calls router, extractor, recording, evaluation |
| Price recording (`price_service.py`, `price_repo.py`) | `price_snapshots`, `products.last_*` | `record_snapshot`, `latest_for_product` | inside the transaction of the run |
| Circuit breaker (`circuit.py`) | three keys per domain | `state`, `record_success`, `record_failure` | shared by all workers that scrape a domain |
| Tier router (`router.py`) | none | `scrape` | asks the breaker before, tells it after |
| Extraction (`structured.py`, `autoextract.py`, `normalize.py`, `adapters/`) | none | `extract_structured`, `auto_extract`, `Adapter.extract`, `parse_price` | called by the router |
| Extraction checks (`validate.py`, `scrape_validation.py`) | none | `assess_result`, `validate_snapshot` | called by router, recording and AI extractor |
| AI extractor (`ai_extract.py`) | none | `ai_extract` | a blocking call of up to two minutes |
| Watches, servers, users (`watch_service.py`, `server_service.py`, `user_service.py`, `product_service.py`) | `watches`, `servers`, `users`, `products` | `add_watch`, `pause`, `resume`, `remove`, `set_channel`, `upsert_from_discord`, `soft_remove`, `update_config`, `update_alert_rules`, `set_role_mention` | called by bot commands and gateway events |
| Bot (`app/bot/`) | none of its own | commands, guild and channel events | one short transaction each |
| Dashboard API (`app/api/`), access control | sessions in cookies | read-only handlers, login | reads the same tables |
| Maintenance (`maintenance.py`, `housekeeping.py`) | none | prune, purge, exchange rates | beat |
| Rate limiters (`app/bot/ratelimit.py`, `app/workers/rate_limit.py`) | counters in Redis | `try_acquire`, `_window` | used by tests only |
| Web dashboard (`dashboard/`) | React state | `useAsync` | reads the API |
| Helpers, models, observability, deployment | none | formatting, columns, logging | everywhere |

### What is hard, and what makes each part correct

* **Alert delivery.** At-least-once messages (`task_acks_late`), an HTTP call with an unknown
  outcome in the middle of a transaction, two retry mechanisms (Celery's `autoretry_for`
  and the retry after a 429) with one budget, a message published before the row it names is
  committed, a Redis key that survives a rollback, settings that change while a call runs.
  Correct means: nothing is posted that was not committed; *delivered* is true; no row is left
  pending without a task that will settle it; an alert is repeated only because of a fault; a
  cooldown suppresses repeats and nothing else; an admin's choice is not undone.
* **Scrape run.** A lock with a lease that is never renewed around work that may take longer; a
  release that may come late; crash, redelivery and retry; readings committed in one
  transaction and compared in a second. Correct means: runs exclude each other within their
  lease, nobody is robbed of the lock, the lock comes back, each comparison is with the reading
  before, and the paid extractor is not asked twice.
* **Circuit breaker.** Methods of several Redis commands run by many workers. Correct means:
  the threshold opens the circuit, timeouts stay within bounds, a site that recovers gets its
  circuit closed for good, and one worker alone sees the breaker the unit tests check.
* **Watches and guilds.** Count-then-insert caps under READ COMMITTED, two members reviving one
  watch, edits of rows that changed since they were loaded, a guild that leaves, comes back and is
  purged meanwhile. Correct means: a cap is passed by no more than the commands running at once,
  what was removed stays removed until somebody tracks it again, an active guild keeps its watches.
* **Settings.** Commands and gateway events load whole rows and write some columns a query or two
  later, side by side; an event is sent once. Correct means: a command changes what it names and
  nothing else, and a role or channel that was deleted is forgotten.
* **Reading a page.** Five sources in a cascade, price texts that mean different numbers in
  different countries, a region learned on the way, checks that can only doubt. Correct means: a wrong
  reading is doubted, two witnesses silence it, a clear page is not silenced, and a page that was
  read stays readable.
* **Reading after reading.** Each reading is judged by the readings before it, doubtful ones included,
  and may be replaced by the answer of the AI extractor, which is judged by both. Correct means: a
  glitch fires no alert, a drop is one of a single currency, a new price level is accepted in the end.

The file lists every hazard of the code at its line, under "hazards", with the properties that
watch it or the reason why none does.

## 2. Modules

| module | models | role |
|---|---|---|
| `AlertDispatch` | the task `alert.dispatch`, its messages, its row, channel settings, Discord, faults | actions only, no `Next` |
| `AlertPipeline` | `AlertService.evaluate` and its transaction, composed with `AlertDispatch` | the specification of alert delivery |
| `AlertLedger` | what `alert_events` promises its readers | abstract specification of `AlertPipeline` |
| `ScrapeRun` | `scrape.product`, the lock, the readings, the arbitration, the baseline | specification of one product |
| `RedisCircuit` | `RedisCircuitBreaker` as used by `TierRouter.scrape` | specification of one domain |
| `CircuitBreaker` | `InMemoryCircuitBreaker`, one step per method | abstract specification of `RedisCircuit` |
| `WatchRegistry` | `WatchService`, `ServerService` and `cleanup_servers` for one guild | specification of the watches of a guild |
| `GuildSettings` | `/config`, the settings of watches, deleted roles and channels, for one guild | specification of its settings |
| `Quotes` | `normalize.py` and the doubts a price text raises | operators |
| `Extraction` | structured data, heuristics, adapters, `assess_result`, `TierRouter.scrape` | operators over `Quotes` |
| `PageReading` | one page, scraped again and again with the region learned from it | specification over `Extraction` |
| `Validation` | `validate_snapshot`, `_rule_enabled`, `_rule_fires` | operators over `Quotes` |
| `PriceHistory` | `record_snapshot`, the arbitration and the evaluation, over the readings of a product | specification over `Validation` |
| `MCAlertPipeline`, `MCScrapeRun`, `MCRedisCircuit`, `MCWatchRegistry`, `MCGuildSettings`, `MCPageReading`, `MCPriceHistory` | finite sets for the `.cfg` files | model checking |
| `*_proofs` | theorems and proofs about the module they are named after | proofs |

### AlertDispatch and AlertPipeline

A task instance is a pair of an event and a copy number: copy 0 is the message the evaluation
publishes, the others are the same message given to a second worker. `_dispatch` is cut where
other processes can act: `Load` (reads of lines 31-61, the objects stay in the session),
`Send` (the POST), `FailMissing`, `WriteDelivered`, `WriteAttempt`, `WriteRefused` (each the
whole branch up to its commit), then `Acknowledge` or `RetryLater`. `Ignore` is the early
return for a row that is missing or no longer pending. What a session has read is a variable
(`seen`, `target`, `own`), because the code writes `delivery_attempts + 1` and clears the
override from those stale values. `attempts` and `status` are written by primary key, only
`MarkDelivered` has a condition, as in the repository. The redundant test of the watch and
server being there is left out: rows are only deleted by the purge.

`evaluate` goes through `Evaluate` (an arbitrary non-empty set of pairs fires), `Suppress` or
`Fire` (the answer of `is_cooling`), `CreateEvent` (insert and flush: status `open`,
invisible to workers), `SetCooldown`, `EnqueueAlertDispatch`, and `Commit` by the caller.
`Abort` is an exception or crash anywhere in between: rows go, ids are not given back, Redis
keys and messages stay.

Faults, each kind on its own switch (`FaultKinds`) and bounded together by `MaxFaults`:
`redeliver` (the worker dies, `task_acks_late`), `lose` (only the pool process dies;
`task_reject_on_worker_lost` is not set, so the message is acknowledged), `raise` (autoretry, of an
exception before the commit or while the runtime is closed after it), `duplicate` (visibility timeout),
`abort`. A retry is published and the old message acknowledged in one step (`RetryLater`, `Raise`): a
worker that dies between the two leaves two messages of one event, which is what `duplicate` leaves. The
cleanup after a deleted channel is one step here (`OnGuildChannelDelete`), and query by query in
`GuildSettings`. The answers of Discord are the `DispatchStatus` of
the code with two refinements the properties need: a 429 without `Retry-After`
(`rate_limited_blind`), and a network error whose request was executed (`response_lost`).

### ScrapeRun

A run is one message in a scrape queue for one product. `left[r]` is the time of its lease that
run `r` still has, `ttl` the time until Redis drops the key; `Tick` lets both pass and records
in `overrun` that some run was still working when its lease ended. `readings` is the table of
snapshots in the order of `observed_at`, with rows of open sessions marked `open` (seen by no
query) and rolled-back rows replaced by `Gone`. `Scrape` picks any price and any doubt,
`Arbitrate` tests the two Redis keys, `Answer` is the extractor's answer, remembered at once, and
`RecordAnswer` the second reading and the cooldown (both keys are set before the commit, as in the
code; the row written between them is seen by nobody before it), `Commit` ends the first session, `Evaluate` is the second:
it looks for its reading among the newest `Window` and takes the newer of the two newest others
for its baseline. `Raise` is an exception (autoretry while retries are left; the lock is given
back unless `browser.close` raises first), `Crash` the death of the worker with redelivery.
The token of the lock is the run itself: a run that starts again after a crash has a fresh token
in the code, and its old key would not be its own. In the model it waits for the old key all the
same, because `Acquire` needs a free lock.

### RedisCircuit and CircuitBreaker

Every Redis command of `state`, `record_success` and `record_failure` is an action of a client, a
scrape of the domain that repeats for ever. `opened_at` is kept as an age, capped at `Longest`;
the counter is capped at `Threshold`, since the code only compares it with that. `up` says
whether the site serves a price; it changes at any time. `maintenance.circuit_probe` only reads
and is left out. In the refinement a failure of the abstract breaker happens when `opened_at` is
written, or with the `INCR` while the threshold is not reached; until then the mapping hides the
new timeout and the last increment.

### WatchRegistry

A session of the bot is one command. Every SELECT of `add_watch` is an action (`ResolveActors`,
`CountServer`, `CountUser`, `FindProduct`, `FindWatch`); its inserts, updates and the commit are
`AddWatch`, since rows that are written but not committed are neither seen nor changed by others.
`Conflict` is a unique constraint that another commit made fail. An edit is `LoadWatch` (the lookup
by short id with the check of the owner) and `SaveWatch`. `loaded` is the row the session holds:
`expire_on_commit=False` and the identity map keep it, `session.get` after it issues no query, and
an UPDATE names the columns that differ from it (`Named`; a pause always writes a new timestamp).
`Begin` includes the upsert of `interaction_check`, committed before the command starts. `audited`
says whether a row of `audit_log` refers to the guild. `SelectStale` and `PurgeServers` are the two
halves of `cleanup_servers`, the second with its commit or its rollback; that thirty days must have
passed is left out, since time adds nothing to a purge that may select any removed guild.

### GuildSettings

A session is a command or a gateway event. `Check` is `has_tracker_role` in its own session, `Load`
the SELECT of the row, `Save` the commit: as in `WatchRegistry` it writes the columns that differ from
what was loaded (`Updated`). A command is the row it names and the attributes it assigns; of
`alert_rules`, one JSON column, the keys it names (`MergedRules`), and a threshold is on or off.
`Receive`, `LoadServer` and `ListWatches` are the handler of a deleted role or channel, one step for
each query; `Fail` is a crash or a database error, after which the event is not sent again. `live` is
whether the watch is not removed: `/track` revives it with the default rules and keeps its overrides.
`excused` is a history variable: it names the deleted ids the code may leave behind (section 5).
Caps, owners and the life of the guild stay in `WatchRegistry`. The dispatch that clears an override
(`alert.py:77`) stays in `AlertDispatch`.

### Quotes, Extraction and PageReading

Text is abstracted to what decides its reading: a price text is the amount it denotes, the separators
of thousands and decimals, the number of decimals, a symbol and whether it is an instalment.
`ParsePrice` is what `parse_price` makes of such a text (with dots alone, 1.299 is 1.30; 1,299,00 is nothing); `Found` is the
part of it that the regular expression of the heuristics cuts out. Amounts are cents. A page has named
texts and the parts that point at them: JSON-LD nodes, microdata, OpenGraph, elements that score as
prices, and the element the shop's adapter looks for. Each extractor is an operator from a page and a
region to a reading; `Scrape` is the cascade with its second witness. That JSON is malformed, or a
selector misses, is a part that is absent. `PageReading` puts the one piece of state around it: the
region of the product row, learned from the first reading that has one.

### Validation and PriceHistory

A snapshot keeps price, currency, stock and confidence, in quarters (every flag costs one). Medians
are doubled so that they are whole. `PriceHistory` is sequential, which the product lock gives
(`ScrapeRun`): `ScrapeProduct` is a whole run with `record_snapshot`, the arbitration
(`Conclude` or `Replace`) and the evaluation. The shop changes its offer, and a reading is the right one
or one of `Misreadings`; the extractor answers with the right one or one of `Answers`. `Settle` is the moment from which
the shop rests and is read right. One `number` stands for the three identifiers, kept from the first
reading that has it; the extractor is not asked for it (`RightAnswer`), and an answer without a price is
`Conclude`. `cooling` stands for both AI keys.

## 3. Runs

The constants are in the `.cfg` of the same name.

| run | question | result |
|---|---|---|
| `alert_ledger` | does the table implement `AlertLedger`, is every post but one paid for by a fault, do cooldowns suppress repeats only? two events, two attempts, every answer, one crash, loss or exception | holds |
| `alert_live` | is nothing posted that is not stored, and does every task end and every event with a live task settle? one event, two copies of its message, three attempts, one redelivery, duplicate or rollback, no server errors | holds |
| `alert_early_task` | does every committed alert settle, without any fault? | **no**: the task may be consumed before the commit |
| `alert_override` | does a dispatch clear only the override that is gone? | **no**: it clears the channel an admin chose meanwhile |
| `scrape_safe` | exclusion within the lease, no robbed lock, no skipped reading, no second question to the extractor; two runs, a crash or an exception, every timing | holds |
| `scrape_live` | does every message end and the lock come back, with two faults and a retry? | holds |
| `circuit_many` | two workers, command by command, one of which may die | holds |
| `circuit_one` | one worker: is the Redis breaker the in-memory one? | holds |
| `registry_caps` | two commands of two members, one an admin, on three products with a cap of 2 for the guild and 1 for a member, while the guild leaves, returns and is purged: how far is a cap passed, are watches lost or brought back? | holds: at most one too many, none lost |
| `guild_settings` | two sessions, one watch, one role, two rules, deletions and failures: does a deleted id survive, does a command undo another? | holds, with the exceptions the properties name |
| `page_reading` | every page built from the parts in `MCPageReading`, on five kinds of shops, with every region: is a wrong reading doubted, a clear one not silenced, a page that was read readable again? | holds |
| `price_history` | a shop at 100 or 2000, readings of a hundredth, in another currency or of another product, a wrong answer of the extractor: what is alerted, and what is accepted in the end? | holds |

Restrictions that matter when reading the results:

* `SettledIsFinal` and `ImplementsLedger` are claimed while the broker gives a message to one
  worker at a time. With a visibility-timeout duplicate two sessions overwrite each other
  (`failed` after `delivered`, an attempt count that goes back); `alert_live` has such duplicates and
  checks what survives even then.
* `LiveTaskSettles` is claimed without server errors and blind 429s, after which nothing sends the
  event again (section 5).
* `NoAlertWhileCooling` is claimed for one evaluation of a watch at a time, which is what the
  product lock gives within its lease (`scrape_safe`); test and set are separate steps.
* `CooldownHasAlert` is claimed without aborts: an abort after `SetCooldown` leaves a cooldown that
  stands for nothing (section 5).
* `ServerCapHolds` and `MemberCapHolds` allow one watch too many for every command that runs besides the
  one that adds. That is the best the code gives: it counts, then inserts. `ServerCapHolds` counts the commands
  that were let in as well, so that one insertion more than was let in would be seen.
* `ClearPageMayAlert` is about a page without a reason for doubt: prices that mean one number, symbols and
  region of one currency, one title, and not one sign that says *in stock* beside one that says *sold out*.
  A page outside of that may be silenced, and should be.
* `NoReadingSkipped` and `AskedOncePerAnswer` say nothing once a run has outlived its lease
  (`overrun`): the extractor alone may take longer than the lock lives.
* `DeletedIsForgotten` excuses ids that a command named while the handler was reading, ids held by a
  watch that was removed then, and events whose handler failed. `OnlyNamedSettingsChange` lets a rule be
  lost that another command changed meanwhile: `alert_rules` is one column.
* `MisreadIsFlagged` is about structured data and the amazon adapter; the heuristics cut a number
  without separators to its first digits, and the other adapters drop the text, so that nothing doubts it.
* `GlitchNeverAlerts` is about a product with more than `MinHistory` readings of one price and a reading
  more than ten times off. `PriceLevelAccepted` excludes a product whose first title or number is another's.
* `ThresholdOpens` excuses a worker that died between `INCR` and `SET`; the next failure opens
  the circuit then.

### Why the bounds are enough

Alerts of different events meet only in the channel settings and the cooldowns; one event with two
copies of its message has every race on its row, and two events of one pair every question
about cooldowns. All runs have one evaluator; the theorems hold for any number. Two attempts already separate "spent", "last" and "too many"; three are used
where retries must run out. Two runs
of a product, one of which may be retried or redelivered, give an old and a new holder of the
lock; a lease of one tick is enough for every step to fall before or after its end. `scrape_safe`
gives up the retry, since a redelivered run already starts a second time; `scrape_live` has it, and two faults, so that one may hit the recovery from another. `Window` is the code's 5.
For the circuit, a threshold of 2 separates counting and opening, a limit of 3 ticks lets 1 double
to 2 and then hit the limit; `circuit_one` has room for more: 2, 4, 7 and a threshold of 3.

The alert, scrape, page and price runs have `CHECK_DEADLOCK FALSE` because the modelled system may stop:
ids, messages and faults are used up and everything is settled (a page or a price can be read for ever). The circuit, registry and settings runs check deadlock.

For the registry, a cap of 2 for the guild and 1 for a member make bounds of 3 and 2 with two commands,
and three products are needed for either to fail. In `limits.py` the two are equal; a smaller one for the
member keeps `MemberCapHolds` from being a consequence of `ServerCapHolds`.

For the settings, one role and one watch suffice because columns of ids do not meet: each is read,
cleared and written alone; a command and a handler, or two commands, are all the pairs there are. The
channel column goes through the same operators as the role of a watch and is left to the proof.
For pages, two prices (one below a thousand, one above) written in seven ways, one of them with a symbol,
with every part present, absent or without currency give every path through the cascade; some
pages without microdata say that the product is sold out where another part says it is in stock. For histories, the checks look at the ten
newest readings and want three for a median (`limits.py`); three and two here keep every comparison, since
an even and an odd number of prices, one short of a history and one more than it, all occur. 100, 2000 and 1
lie on both sides of the band (3) and of the magnitude (10). The proofs have no such bounds.

Symmetry is used in `scrape_safe` (runs are interchangeable) and `registry_caps` (commands and
products are) and `guild_settings` (sessions are), never with liveness.

### Fairness

Weak fairness of what a worker has begun or a queue holds (`EvaluateStep(v)`,
`DispatchStep(t)`, `RunStep(r)`, `ClientStep(c)`): Celery workers take messages while they run,
and a coroutine that can go on is resumed; the calls that leave the system (Discord, pages, the
browser, the extractor) have timeouts, so they return. Weak fairness
of `Tick`: clocks run. Nothing obliges an evaluation to start, a setting to change, a fault or a
recovery to happen. Fairness of a step never forces one of its outcomes: Discord may answer 429
each time, the extractor may fail each time. `RecoversWithSite` assumes the site stays up
(`<>[]up`), as its name says. `PriceLevelAccepted` assumes that a shop which has settled is scraped
again and again (`WF(steady /\ ScrapeRight)`): the beat ticks, and each right reading is one run.

## 4. Proofs

Eight proof modules: `AlertPipeline_proofs`, `AlertLedger_proofs`, `ScrapeRun_proofs`,
`RedisCircuit_proofs`, `WatchRegistry_proofs`, `GuildSettings_proofs`, `PageReading_proofs` and
`PriceHistory_proofs`. Their theorems hold for all sets of watches, rules, channels, roles, evaluators,
runs, clients, members, products, commands, sessions, pages and readings, and all bounds. The only assumptions
are the named ones of the modules (`DispatchAssumption`, `EvaluatorAssumption`, `ScrapeAssumption`,
`CircuitAssumption`, `RegistryAssumption`, `SettingsAssumption`, `QuotesAssumption`,
`ValidationAssumption`, `PriceHistoryAssumption`, `PageAssumption`): bounds are natural numbers, markers such as
`NoChannel` are none of the values they are distinguished from, the lease and the threshold are positive, readings
have the fields of a `ScrapeResult`, the parts of a page those the extractors look at. TLC evaluates them in every
run. Four theorems have an
assumption of their own, which is the restriction of section 3 (no duplicated messages, no aborts, one
evaluator, one client), and a fifth, `GlitchIsSilent`, a history of at least two readings (the code has three).

**Alerts.** None of the invariants is inductive alone. `DeliveryInv` is their strengthening, kept in
`AlertPipeline` and checked by TLC before it was proved:

* `RowInv`: what is not stored has no posts and no attempts, a delivered row was posted, a pending
  one has attempts left, ids are used in order;
* `TaskInv`: a running task has read a stored row with attempts left, a task that is about to write
  *delivered* has posted, copies have an original;
* `TransactionInv`, `FreshInv`: rows of an open transaction are open, belong to one evaluation and
  have their task published, except the one being handled;
* `SendInv`: posts + instances that may still post + (1 if unpublished) <= 1 + faults.

The first four and the type invariant (`CoreInv`) are proved inductive action by action: one lemma
per action, one step per conjunct it can disturb. Most of it is that an action of one task leaves
the facts about the others alone. `SendInv` needs a count: `NoNewSender` and `OneNewSender` say how
the set of instances that may post changes, and every action either posts and leaves that set, or
makes a fault and adds one member. `OnlyStoredSent`, `DeliveredPosted`, `PendingAttempts`,
`PostsBounded` and `StoredEnqueued` follow.

**Ledger.** Without duplicates `SoleInv` says that one instance of a task exists and that what it read
of its row still holds when it writes: so a settled row is never written (`SettledFinal`), and every step is
one of `AlertLedger` or a stutter (`LedgerImplemented`, one lemma per kind of step). Without aborts
`CoolInv` says that an evaluation about to set a cooldown has inserted its event, and that the event of a cooldown is
stored or open (`CooldownAlerts`). With one evaluator the answer of `is_cooling` is still true when the
event is inserted, since nobody else sets keys (`NoCoolingAlert`).

**Scrape runs.** `LeaseInv` ties the two clocks together: a run with time left holds the key, which
lives as long as that; so at most one run has time left (`OneLease`), which gives
`ExclusiveWithinLease`, and a release compares the token, which gives the action property
`LeaseIsKept`. `AskInv` adds that nobody sets the keys of the extractor between the test and the
answer of a run within its lease. That a comparison refers to a reading that exists needs a greatest element of a
finite set of positions (`Greatest`, from `WFMin` of the library).
`NothingSkipped` needs the order of rows: `OrderInv` says that open rows are newer than all that was
compared, that their session is the one run that holds the lock, and that the row a run has chosen is the last or the
one before it; `Adjacent` then shows that between the two rows of a comparison no row was stored.

**Circuit.** `TypeCorrect` bounds the timeouts under every interleaving. `ThresholdOpens` is
inductive with it. `OneClientImplements` is the refinement: under `Clients = {k}` and
`MaxCrashes = 0` an invariant `Alone(k)` says what the position of the scrape tells of the keys,
`OneMapping` reduces the refinement mapping to that scrape, and `BreakerStep` maps each step to
a step of `CircuitBreaker` or a stutter.

**Registry.** A count of watches alone is not inductive; `ServerCapHolds` counts the commands that were let in with the
live watches. Letting one in needs room for a watch, so the sum stays below the cap plus the number of
commands; an insertion moves one from one side of the sum to the other; a revival that finds the
watch live already only takes it off. `TypeOK` says what a command has found by where it stands;
from it `AddedRow` and `SavedRow` tell which state a write leaves, and `RowStep` what any step does to a
row. `JoinedAudited` (a guild that exists has its `server.joined` row) is why no purge goes through.

For a member that sum does not work: an insertion for m may turn many commands of others on the same product
into ones that will revive m's watch without naming an owner, and none of them was counted for m. `MemberCapInv`
counts products: those m owns and those some command has a claim on for m (`Claims`). A watch comes to m only through
a command with a claim on it (`AddWatchClaims`), and the commands it turns claim the product it had claimed, so no
insertion adds a product. A check that lets m in adds one, but it saw room for a watch, and claims are no
more than commands (`CountUserClaims`). An edit keeps whatever owner the row has by then (`SaveWatchClaims`).

**Settings.** `DeletedIsForgotten` is about handled deletions; `DeletionInv` says what holds before: as
long as a deleted id stands in a column, the handler of its deletion either still has to read that row or
has read the id there and will clear it (`WillClear`), and no other command names the id unless it
is excused. `CommandsKeepOthers` follows from the type invariant: a column that a command does not assign is
what it loaded, so `Updated` leaves it alone.

**Price histories.** `HistoryInv` says that the currency of the product row is that of the newest
snapshot, because `record_snapshot` writes both; a reading without a flag was therefore checked
against the snapshot it is compared with (`DropsInOneCurrency`).

`GlitchIsSilent` is about medians, which the model defines by ranks: the k-th price has fewer than k below it and
at least k not above. If all but one of at least three prices are equal, so are the middle ones (`MedianOfEqual`);
hence one reading more, the first glitch, moves neither of them (`MedianStays`), and both that reading and the
answer of the extractor, validated after it, are more than ten times off the median and so out of its
band. That is two flags (`GlitchDoubted`), and two flags take a reading below the confidence of an alert
(`DoubtedIsSilent`). `RunIsSilent` goes through the ways a run can conclude. Of a history of one the glitch would be
half, so that the answer would be judged by a median between the two.

**Pages.** `PageReading_proofs` is about every page and every price, not about the seven writings of the run.
Most of it are facts about the extractors, each proved once: what they return comes from a text of the
page and carries its price (`From`, `Good`; `StructuredFacts`, `AutoFacts`, `AdapterFacts`), and which flags
`assess_result` raises for it (`Assessed`). `PageInv` says that the result is what one scrape makes of the page with
some region r, and that the row has since learned the region of that result. Then:

* `Misparsed`: when `parse_price` does not give the amount of a text, the text is one the locale check doubts, or the
  price is out of bounds and there is none. With an instalment, which the smell check finds, these are all the ways to
  be wrong on an honest page (`MisreadsAreFlagged`). Two readings more than a factor of two apart add a flag (`WitnessesDoubt`).
* `ClearPagesAlert`: on a clear page each check but the one of the candidates is shown to be silent, the second
  witness included (`PlainFrom`: what the heuristics cut from a clear text is clear).
* `PageStaysReadable`: with the region known before, an unchanged region gives the same reading. If it was learned, the
  extractor that succeeded knew a region by itself, which only an adapter does; adapters do not look at the
  region of the row, so this one succeeds again if nothing before it does (`AdapterReadsAlways`).

**Only model-checked:** liveness (`TasksFinish`, `LiveTaskSettles`, `RunsFinish`, `LockIsFreed`,
`RecoversWithSite`, `PriceLevelAccepted`), which these provers do not handle. Every invariant, action
property and refinement the passing runs check has its theorem.

## 5. What the models found

Two disagreements between the code and what the repository says of it, each a run that fails and an
entry under "findings": an alert whose task is consumed before its commit is never sent
(`alert_service.py:78`), and an override is cleared after it was changed (`alert.py:77`).

Also seen, where nothing in the repository says what should happen, or where what it says is too
general to be refuted.

Alerts:
* after a server error or a blind 429 an attempt is spent and nothing sends the event again: the row
  stays pending for ever (`alert.py:89`);
* a cooldown is set in Redis before the transaction of its alert commits (`alert_service.py:75`) and
  survives a rollback, so the retry is suppressed;
* an alert queued before `/untrack` or a pause is still posted (`alert.py:38`).

Runs and readings:
* readings are committed before the evaluation, so a crash in between loses the alert for that change:
  the retry compares with the lost run's reading (`scrape.py:106`);
* a fall in price is not seen when the run's own attempt failed and the extractor answered: the baseline is the
  failed attempt (`alert_service.py:85`);
* when the extractor finds another product on the page, the reading that raised the doubt is evaluated all
  the same (`scrape.py:138`; the extractor's own test calls the page the wrong product,
  `tests/unit/test_ai_extract.py:94`), and nobody asks again for a day;
* `browser.close` raising keeps the lock until it expires (`scrape.py:111`);
* a wrongly high reading followed by the right one fires a drop, unless a check doubts the second;
* a failed reading erases the currency of the product row, so that the next one is not checked for a flip;
* flags of an answer of the extractor count twice, since it is validated before it is recorded;
* a genuine change by more than a factor of ten is accepted in the end but never fires a drop;
* the title of the first reading stays, even if it is another product's: every right reading is then
  arbitrated.

Pages:
* "C$" is read as USD, because "$" comes first in the table (`normalize.py:11`);
* the number of an ebay item is kept as the maker's, and later differs from it;
* a bare JSON-LD node gives a partial result when a region is known, and hides microdata and OpenGraph,
  which may be complete;
* with a learned region the heuristics may succeed before the adapter of the shop;
* `region_default` of the server comes before the host of the shop;
* the heuristics cut numbers without separators, unflagged; all adapters but amazon's drop the price text.

Guilds:
* `cleanup_servers` never deletes a guild, because `audit_log.server_id` refers to it
  (`housekeeping.py:59`);
* two members may revive one removed watch at the same time, both are told they track it, and the UPDATE of
  the second names no owner if it loaded itself as the owner (`watch_service.py:67`);
* two overlapping edits of different alert rules of one watch lose one of them (`watch_service.py:102`);
* /untrack, deleting the channel or role, then /track gives a watch with the id of what is gone: the handlers list
  only watches that are not removed (`watch_repo.py:36`), and `add_watch` does not reset overrides;
* events that come while the bot is down or its database fails are not handled later.

## 6. Not modelled

* Text: the syntax of HTML, JSON and URLs, selectors and regular expressions, embeds, charts, logging. No
  state, and nothing a finite model tells apart beyond what `Quotes` and `Extraction` keep.
* The dashboard API, sessions and access control: handlers that read in one transaction; cookies are
  cryptography. The membership cache is never filled (`AccessControl` is always built with the refresher
  that does nothing), and the soft deletion of accounts has no caller, so there is no behaviour to check.
* The rate limiters (`app/bot/ratelimit.py`, `app/workers/rate_limit.py`): only unit tests use them.
* Maintenance other than `cleanup_servers`: deletes of old rows nobody else looks at, exchange rates.
* Page fetching: HTTP and browser I/O. Each scrape has a session of its own and shares nothing.
* Containers and configuration. The cadence of the beat is a tick that may come at any time.

`products` columns that are only displayed are left out. The component table of `PROJECT.json` gives the
status of every part.

## 7. Plan

In order of importance; what is marked done are the modules above.

1. Done: `AlertPipeline` with `AlertLedger` (delivery is what users notice and the most concurrent
   part), its invariants, their proofs and the proof of the refinement.
2. Done: `ScrapeRun`, which justifies the single evaluator of step 1 and the sequential runs of step 5.
3. Done: `RedisCircuit` with `CircuitBreaker`, and the proof of the refinement.
4. Done: `WatchRegistry` and `GuildSettings` with their proofs, the cap of a member included. Next for them:
   a composition with the tick, which looks at watches but not at their guild.
5. Done: `Quotes`, `Extraction` and `PageReading` with their proofs; `Validation` and `PriceHistory` with theirs.
   Next: an instance of `AlertPipeline` whose firing pairs are those of `Fires`.
6. `UseAsync`: the order of answers in the dashboard's hook.
