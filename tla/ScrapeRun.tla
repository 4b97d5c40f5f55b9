----------------------------- MODULE ScrapeRun -----------------------------
(***************************************************************************)
(* Scraping one product: the Celery task scrape.product                    *)
(* (app/workers/tasks/scrape.py) under the Redis lock of                   *)
(* app/workers/locks.py, the readings it appends to price_snapshots, the   *)
(* arbitration by the AI extractor, and the comparison of a reading with   *)
(* its predecessor that AlertService makes.  What the comparison leads to  *)
(* is the module AlertPipeline; the breaker of the router is RedisCircuit. *)
(*                                                                         *)
(* A run is one message in a scrape queue.  It takes steps where another   *)
(* run can see or change what it shares: the lock, the committed readings, *)
(* the two Redis keys of the arbitration.                                  *)
(***************************************************************************)
EXTENDS Integers, Sequences, FiniteSets

CONSTANTS
  Runs,        \* messages of the scrape queues for this product
  NoRun,       \* the lock key does not exist
  Prices,      \* prices a reading may show
  NoPrice,     \* a reading without a price: price is None
  Ttl,         \* SCRAPE_LOCK_TTL_SECONDS, in ticks
  Window,      \* limit=5 of _evaluate
  MaxRetries,  \* max_retries of the task
  MaxFaults    \* bound: exceptions and crashes in one behaviour

ASSUME ScrapeAssumption ==
  /\ NoRun \notin Runs
  /\ Prices \subseteq Nat
  /\ NoPrice \notin Nat
  /\ Ttl \in Nat \ {0}
  /\ Window \in Nat \ {0}
  /\ MaxRetries \in Nat
  /\ MaxFaults \in Nat

VARIABLES
  pc,        \* where each run stands
  retries,   \* request.retries of each run
  lock,      \* the token stored under scrape:product:<id>, or NoRun
  ttl,       \* ticks until Redis drops the key
  left,      \* ticks of the lease each run still has
  chosen,    \* evaluate_id of each run, 0 for None
  readings,  \* price_snapshots of the product, ordered by observed_at
  compared,  \* the latest comparison: a reading and its baseline, 0 for None
  cached,    \* the key ai:cache:<url> exists
  cooling,   \* the key ai:cooldown:<id> exists
  overrun,   \* some run was still working when its lease ran out
  faults     \* exceptions and crashes so far

lockVars    == <<lock, ttl, left, overrun>>
readingVars == <<chosen, readings, compared>>
aiVars      == <<cached, cooling>>
vars        == <<pc, retries, lockVars, readingVars, aiVars, faults>>

RunState == {"queued", "scrape", "arbitrate", "ask", "record", "commit",
             "evaluate", "release", "done"}
Working  == RunState \ {"queued", "done"}

Price   == Prices \cup {NoPrice}
Reading == [run : Runs, price : Price, open : BOOLEAN]
Gone    == [run |-> NoRun, price |-> NoPrice, open |-> FALSE]

Holds(r) == pc[r] \in Working

TypeOK ==
  /\ pc \in [Runs -> RunState]
  /\ retries \in [Runs -> 0..MaxRetries]
  /\ lock \in Runs \cup {NoRun}
  /\ ttl \in 0..Ttl
  /\ left \in [Runs -> 0..Ttl]
  /\ chosen \in [Runs -> Nat]
  /\ readings \in Seq(Reading \cup {Gone})
  /\ compared \in [new : Nat, base : Nat]
  /\ cached \in BOOLEAN /\ cooling \in BOOLEAN /\ overrun \in BOOLEAN
  /\ faults \in 0..MaxFaults

Init ==
  /\ pc = [r \in Runs |-> "queued"]
  /\ retries = [r \in Runs |-> 0]
  /\ lock = NoRun
  /\ ttl = 0
  /\ left = [r \in Runs |-> 0]
  /\ chosen = [r \in Runs |-> 0]
  /\ readings = <<>>
  /\ compared = [new |-> 0, base |-> 0]
  /\ cached = FALSE /\ cooling = FALSE /\ overrun = FALSE
  /\ faults = 0
----------------------------------------------------------------------------
(* Variant of Free: SET without NX. *)
FreeAlways == TRUE

(* SET key token NX EX ttl, with a fresh token. *)
Free == lock = NoRun

(* Variant of Acquire: SET without EX. *)
AcquireNoExpiry(r) ==
  /\ pc[r] = "queued"
  /\ Free
  /\ lock' = r
  /\ ttl' = 0
  /\ left' = [left EXCEPT ![r] = Ttl]
  /\ pc' = [pc EXCEPT ![r] = "scrape"]
  /\ UNCHANGED <<retries, overrun, readingVars, aiVars, faults>>

Acquire(r) ==
  /\ pc[r] = "queued"
  /\ Free
  /\ lock' = r
  /\ ttl' = Ttl
  /\ left' = [left EXCEPT ![r] = Ttl]
  /\ pc' = [pc EXCEPT ![r] = "scrape"]
  /\ UNCHANGED <<retries, overrun, readingVars, aiVars, faults>>

(* Locked: the run returns and its message is acknowledged. *)
Skip(r) ==
  /\ pc[r] = "queued"
  /\ ~Free
  /\ pc' = [pc EXCEPT ![r] = "done"]
  /\ UNCHANGED <<retries, lockVars, readingVars, aiVars, faults>>

(* Variant of Released: DEL without comparing the token. *)
ReleasedAny(r) == NoRun

(* The Lua script: delete the key only if it holds this token. *)
Released(r) == IF lock = r THEN NoRun ELSE lock

Unlock(r) ==
  /\ lock' = Released(r)
  /\ ttl' = IF Released(r) = NoRun THEN 0 ELSE ttl
  /\ UNCHANGED overrun

(* record_snapshot: INSERT and flush, not committed. *)
Appended(r, p) == Append(readings, [run |-> r, price |-> p, open |-> TRUE])

ShouldArbitrate(p, doubt) == doubt \/ p = NoPrice

(* The product row is gone: the run returns through its finally clause. *)
UnknownProduct(r) ==
  /\ pc[r] = "scrape"
  /\ pc' = [pc EXCEPT ![r] = "release"]
  /\ UNCHANGED <<retries, lockVars, readingVars, aiVars, faults>>

(* TierRouter.scrape returns a price that may be doubtful, or a failed     *)
(* result, and it is recorded.                                             *)
Scrape(r) ==
  /\ pc[r] = "scrape"
  /\ \E p \in Price, doubt \in BOOLEAN :
       /\ readings' = Appended(r, p)
       /\ chosen' = [chosen EXCEPT ![r] = IF p = NoPrice THEN 0 ELSE Len(readings')]
       /\ pc' = [pc EXCEPT ![r] =
                   IF ShouldArbitrate(p, doubt) THEN "arbitrate" ELSE "commit"]
  /\ UNCHANGED <<retries, lockVars, compared, aiVars, faults>>

(* Variant of MayAsk: only the key of the last good answer counts. *)
MayAskUncached == ~cooling

(* Neither key exists: the extractor may be asked. *)
MayAsk == ~cooling /\ ~cached

(* Variant of Arbitrate: wait for the keys instead of falling back. *)
ArbitrateLater(r) ==
  /\ pc[r] = "arbitrate"
  /\ MayAsk
  /\ pc' = [pc EXCEPT ![r] = "ask"]
  /\ UNCHANGED <<retries, lockVars, readingVars, aiVars, faults>>

Arbitrate(r) ==
  /\ pc[r] = "arbitrate"
  /\ pc' = [pc EXCEPT ![r] = IF MayAsk THEN "ask" ELSE "commit"]
  /\ UNCHANGED <<retries, lockVars, readingVars, aiVars, faults>>

(* ai_extract answers, with one of Prices or with none; that it has been   *)
(* asked is remembered.                                                    *)
Answer(r) ==
  /\ pc[r] = "ask"
  /\ cached' = TRUE
  /\ \E next \in {"commit"} \cup {"record" : p \in Prices} : pc' = [pc EXCEPT ![r] = next]
  /\ UNCHANGED <<retries, lockVars, readingVars, cooling, faults>>

(* The price of the answer is recorded as a second reading, which is       *)
(* chosen unless it is doubtful itself, and the cooldown is set.           *)
RecordAnswer(r) ==
  /\ pc[r] = "record"
  /\ \E p \in Prices, doubt \in BOOLEAN :
       /\ readings' = Appended(r, p)
       /\ chosen' = IF doubt THEN chosen ELSE [chosen EXCEPT ![r] = Len(readings')]
  /\ cooling' = TRUE
  /\ pc' = [pc EXCEPT ![r] = "commit"]
  /\ UNCHANGED <<retries, lockVars, compared, cached, faults>>

(* The session of r ends: its rows are committed or rolled back. *)
Close(r, kept) ==
  readings' = [i \in DOMAIN readings |->
                 IF readings[i].run = r /\ readings[i].open
                   THEN IF kept THEN [readings[i] EXCEPT !.open = FALSE] ELSE Gone
                   ELSE readings[i]]

Commit(r) ==
  /\ pc[r] = "commit"
  /\ Close(r, TRUE)
  /\ pc' = [pc EXCEPT ![r] = IF chosen[r] = 0 THEN "release" ELSE "evaluate"]
  /\ UNCHANGED <<retries, lockVars, chosen, compared, aiVars, faults>>

(* latest_for_product(limit): the newest committed readings. *)
StoredIds == {i \in DOMAIN readings : readings[i] # Gone /\ ~readings[i].open}
Newest(n) == {i \in StoredIds : Cardinality({j \in StoredIds : j > i}) < n}

(* Variant of BaselineOf: the oldest reading. *)
BaselineFirst(i) ==
  LET others == StoredIds \ {i}
  IN  IF others = {} THEN 0 ELSE CHOOSE j \in others : \A k \in others : j <= k

(* _previous_snapshot: the newer of the two newest that is not i. *)
BaselineOf(i) ==
  LET others == Newest(2) \ {i}
  IN  IF others = {} THEN 0 ELSE CHOOSE j \in others : \A k \in others : k <= j

(* A second session: find the reading again, compare it, commit the alerts. *)
Evaluate(r) ==
  /\ pc[r] = "evaluate"
  /\ compared' = IF chosen[r] \in Newest(Window)
                   THEN [new |-> chosen[r], base |-> BaselineOf(chosen[r])]
                   ELSE compared
  /\ pc' = [pc EXCEPT ![r] = "release"]
  /\ UNCHANGED <<retries, lockVars, chosen, readings, aiVars, faults>>

(* The finally clause. *)
Release(r) ==
  /\ pc[r] = "release"
  /\ Unlock(r)
  /\ left' = [left EXCEPT ![r] = 0]
  /\ chosen' = [chosen EXCEPT ![r] = 0]
  /\ pc' = [pc EXCEPT ![r] = "done"]
  /\ UNCHANGED <<retries, readings, compared, aiVars, faults>>

RunStep(r) ==
  \/ Acquire(r) \/ Skip(r) \/ UnknownProduct(r) \/ Scrape(r)
  \/ Arbitrate(r) \/ Answer(r) \/ RecordAnswer(r)
  \/ Commit(r) \/ Evaluate(r) \/ Release(r)
----------------------------------------------------------------------------
(* The session of r ends without a commit. *)
RollBack(r) ==
  /\ faults < MaxFaults
  /\ faults' = faults + 1
  /\ Holds(r)
  /\ Close(r, FALSE)
  /\ chosen' = [chosen EXCEPT ![r] = 0]
  /\ left' = [left EXCEPT ![r] = 0]

(* Variant of MayRetry: one retry too many. *)
MayRetryLate(r) == retries[r] <= MaxRetries

MayRetry(r) == retries[r] < MaxRetries

(* An exception: autoretry while retries are left.  The finally clause     *)
(* releases the lock, unless closing the browser raises first.             *)
Raise(r) ==
  /\ RollBack(r)
  /\ \/ Unlock(r)
     \/ UNCHANGED <<lock, ttl, overrun>>
  /\ \/ /\ MayRetry(r)
        /\ retries' = [retries EXCEPT ![r] = @ + 1]
        /\ pc' = [pc EXCEPT ![r] = "queued"]
     \/ /\ ~MayRetry(r)
        /\ pc' = [pc EXCEPT ![r] = "done"]
        /\ UNCHANGED retries
  /\ UNCHANGED <<compared, aiVars>>

(* The worker dies: the lock stays, and the unacknowledged message is      *)
(* delivered again.                                                        *)
Crash(r) ==
  /\ RollBack(r)
  /\ pc' = [pc EXCEPT ![r] = "queued"]
  /\ UNCHANGED <<retries, lock, ttl, overrun, compared, aiVars>>

(* Time passes: Redis drops the key when its time is up. *)
Less(n) == IF n = 0 THEN 0 ELSE n - 1

Tick ==
  /\ ttl > 0 \/ \E r \in Runs : left[r] > 0
  /\ ttl' = Less(ttl)
  /\ lock' = IF ttl = 1 THEN NoRun ELSE lock
  /\ left' = [r \in Runs |-> Less(left[r])]
  /\ overrun' = (overrun \/ \E r \in Runs : Holds(r) /\ left[r] = 1)
  /\ UNCHANGED <<pc, retries, readingVars, aiVars, faults>>

(* The keys of the arbitration live for hours. *)
AiKeyExpires ==
  /\ cached \/ cooling
  /\ \/ cached' = FALSE /\ UNCHANGED cooling
     \/ cooling' = FALSE /\ UNCHANGED cached
  /\ UNCHANGED <<pc, retries, lockVars, readingVars, faults>>

Next ==
  \/ \E r \in Runs : RunStep(r) \/ Raise(r) \/ Crash(r)
  \/ Tick
  \/ AiKeyExpires

Spec == Init /\ [][Next]_vars

(* Workers take messages and finish what they do; clocks run. *)
Fairness == (\A r \in Runs : WF_vars(RunStep(r))) /\ WF_vars(Tick)

FairSpec == Spec /\ Fairness
----------------------------------------------------------------------------
(* Two runs work on the product at a time only if one of them has outlived *)
(* its lease: the lock excludes as long as SCRAPE_LOCK_TTL_SECONDS is      *)
(* longer than a run, also after crashes and redeliveries.                 *)
ExclusiveWithinLease ==
  \A r, s \in Runs :
    r # s /\ Holds(r) /\ Holds(s) => left[r] = 0 \/ left[s] = 0

(* A run that still has its lease is never robbed of the lock: a step of   *)
(* another run, a late release included, leaves the key alone.             *)
LeaseIsKept ==
  [][\A r \in Runs :
       lock = r /\ Holds(r) /\ pc'[r] = pc[r] /\ left'[r] > 0 => lock' = r]_vars

(* An evaluation never skips a reading: no committed reading lies between  *)
(* the one it evaluates and the one it takes for its predecessor, unless   *)
(* some run has outlived its lease.                                        *)
NoReadingSkipped ==
  overrun \/ \A i \in StoredIds :
               /\ ~(compared.base < i /\ i < compared.new)
               /\ ~(compared.new < i /\ i < compared.base)

(* The paid extractor is not asked while its last answer is remembered,    *)
(* although the two keys are tested long before they are set.              *)
AskedOncePerAnswer ==
  overrun \/ \A r \in Runs : pc[r] = "ask" => ~cached /\ ~cooling

(* Every message ends, through crashes, retries and expiring locks.        *)
RunsFinish == \A r \in Runs : pc[r] = "queued" ~> pc[r] = "done"

(* The lock of a product does not stay taken, even if its holder died.     *)
LockIsFreed == lock # NoRun ~> lock = NoRun
============================================================================
