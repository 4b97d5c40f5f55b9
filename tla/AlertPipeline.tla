--------------------------- MODULE AlertPipeline ---------------------------
(***************************************************************************)
(* Alerts from the evaluation of a price to the message in Discord.  The   *)
(* producer is AlertService.evaluate (app/services/alert_service.py) as    *)
(* _evaluate of app/workers/tasks/scrape.py runs it: in one database       *)
(* transaction it inserts the events, sets the Redis cooldowns and         *)
(* publishes the dispatch tasks, and only then commits.  The consumer is   *)
(* the module AlertDispatch.                                               *)
(*                                                                         *)
(* Which rules fire is a function of two snapshots; here an evaluation     *)
(* starts with an arbitrary non-empty set of (watch, rule) pairs that fire.*)
(***************************************************************************)
EXTENDS AlertDispatch

CONSTANT Evaluators   \* scrape runs that may be evaluating at a time

ASSUME EvaluatorAssumption == Evaluators # {}

VARIABLES
  epc,      \* where each evaluation stands
  todo,     \* the pairs that fire and are not settled yet
  firing,   \* the pair being handled
  inserted, \* the id of its event, 0 before the insert
  mine,     \* ids inserted by the open transaction
  cooling,  \* pairs with a key alert:cooldown:<watch>:<rule> in Redis
  nextId    \* the sequence behind alert_events.id (never rolled back)

evalVars     == <<epc, todo, firing, inserted, mine, cooling, nextId>>
dispatchVars == <<rowVars, taskVars, channelVars, faults>>
vars         == <<dispatchVars, evalVars>>

EvalState == {"idle", "loop", "create", "cool", "send"}

TypeOK ==
  /\ DispatchTypeOK
  /\ epc \in [Evaluators -> EvalState]
  /\ todo \in [Evaluators -> SUBSET Pairs]
  /\ firing \in [Evaluators -> Pairs]
  /\ inserted \in [Evaluators -> 0..MaxEvents]
  /\ mine \in [Evaluators -> SUBSET EventIds]
  /\ cooling \in SUBSET Pairs
  /\ nextId \in 1..(MaxEvents + 1)

Init ==
  /\ DispatchInit
  /\ epc = [v \in Evaluators |-> "idle"]
  /\ todo = [v \in Evaluators |-> {}]
  /\ firing = [v \in Evaluators |-> SomePair]
  /\ inserted = [v \in Evaluators |-> 0]
  /\ mine = [v \in Evaluators |-> {}]
  /\ cooling = {}
  /\ nextId = 1
----------------------------------------------------------------------------
(* Bound: an evaluation starts only if ids are left for all that may fire. *)
Wanted == {x \in Evaluators \X Pairs : x[2] \in todo[x[1]]}

Evaluate(v) ==
  /\ epc[v] = "idle"
  /\ \E S \in SUBSET Pairs \ {{}} :
       /\ nextId + Cardinality(Wanted) + Cardinality(S) <= MaxEvents + 1
       /\ todo' = [todo EXCEPT ![v] = S]
  /\ epc' = [epc EXCEPT ![v] = "loop"]
  /\ UNCHANGED <<dispatchVars, firing, inserted, mine, cooling, nextId>>

(* is_cooling: the pair is skipped. *)
Suppress(v) ==
  /\ epc[v] = "loop"
  /\ \E p \in todo[v] \cap cooling : todo' = [todo EXCEPT ![v] = @ \ {p}]
  /\ UNCHANGED <<dispatchVars, epc, firing, inserted, mine, cooling, nextId>>

(* Variants of Fire: is_cooling is not asked; the cooldown is set first. *)
FireUnchecked(v) ==
  /\ epc[v] = "loop"
  /\ \E p \in todo[v] : firing' = [firing EXCEPT ![v] = p]
  /\ epc' = [epc EXCEPT ![v] = "create"]
  /\ UNCHANGED <<dispatchVars, todo, inserted, mine, cooling, nextId>>

FireCoolFirst(v) ==
  /\ epc[v] = "loop"
  /\ \E p \in todo[v] \ cooling :
       firing' = [firing EXCEPT ![v] = p] /\ cooling' = cooling \cup {p}
  /\ epc' = [epc EXCEPT ![v] = "create"]
  /\ UNCHANGED <<dispatchVars, todo, inserted, mine, nextId>>

(* is_cooling answered no; the answer may be stale when it is acted upon. *)
Fire(v) ==
  /\ epc[v] = "loop"
  /\ \E p \in todo[v] \ cooling : firing' = [firing EXCEPT ![v] = p]
  /\ epc' = [epc EXCEPT ![v] = "create"]
  /\ UNCHANGED <<dispatchVars, todo, inserted, mine, cooling, nextId>>

(* alerts.create: INSERT and flush; the row is invisible to others. *)
CreateEvent(v) ==
  /\ epc[v] = "create"
  /\ nextId \in EventIds
  /\ status' = [status EXCEPT ![nextId] = "open"]
  /\ pairOf' = [pairOf EXCEPT ![nextId] = firing[v]]
  /\ todo' = [todo EXCEPT ![v] = @ \ {firing[v]}]
  /\ inserted' = [inserted EXCEPT ![v] = nextId]
  /\ mine' = [mine EXCEPT ![v] = @ \cup {nextId}]
  /\ nextId' = nextId + 1
  /\ epc' = [epc EXCEPT ![v] = "cool"]
  /\ UNCHANGED <<attempts, sent, taskVars, channelVars, faults, firing, cooling>>

(* Variant of SetCooldown: the task of the event is not published. *)
SetCooldownLast(v) ==
  /\ epc[v] = "cool"
  /\ cooling' = cooling \cup {firing[v]}
  /\ epc' = [epc EXCEPT ![v] = "loop"]
  /\ UNCHANGED <<dispatchVars, todo, firing, inserted, mine, nextId>>

SetCooldown(v) ==
  /\ epc[v] = "cool"
  /\ cooling' = cooling \cup {firing[v]}
  /\ epc' = [epc EXCEPT ![v] = "send"]
  /\ UNCHANGED <<dispatchVars, todo, firing, inserted, mine, nextId>>

(* enqueue_alert_dispatch, while the transaction is still open. *)
EnqueueAlertDispatch(v) ==
  /\ epc[v] = "send"
  /\ pc' = [pc EXCEPT ![Original(inserted[v])] = "queued"]
  /\ firing' = [firing EXCEPT ![v] = SomePair]
  /\ inserted' = [inserted EXCEPT ![v] = 0]
  /\ epc' = [epc EXCEPT ![v] = "loop"]
  /\ UNCHANGED <<rowVars, retries, seen, target, own, answer, channelVars, faults,
                 todo, mine, cooling, nextId>>

(* The transaction of v ends and its rows become s. *)
EndTransaction(v, s) ==
  /\ status' = [e \in EventIds |-> IF e \in mine[v] THEN s ELSE status[e]]
  /\ mine' = [mine EXCEPT ![v] = {}]
  /\ todo' = [todo EXCEPT ![v] = {}]
  /\ firing' = [firing EXCEPT ![v] = SomePair]
  /\ inserted' = [inserted EXCEPT ![v] = 0]
  /\ epc' = [epc EXCEPT ![v] = "idle"]
  /\ UNCHANGED <<pairOf, attempts, sent, taskVars, channelVars, cooling, nextId>>

(* session.commit() of _evaluate, after evaluate has returned. *)
Commit(v) ==
  /\ epc[v] = "loop"
  /\ todo[v] = {}
  /\ EndTransaction(v, "pending")
  /\ UNCHANGED faults

(* An exception in evaluate or in the commit, or a crash: PostgreSQL rolls *)
(* the rows back; the Redis keys and the published tasks stay.             *)
Abort(v) ==
  /\ Fault("abort")
  /\ epc[v] # "idle"
  /\ EndTransaction(v, "gone")

(* The Redis key of a cooldown expires. *)
CooldownExpires(p) ==
  /\ p \in cooling
  /\ cooling' = cooling \ {p}
  /\ UNCHANGED <<dispatchVars, epc, todo, firing, inserted, mine, nextId>>

EvaluateStep(v) ==
  \/ Suppress(v) \/ Fire(v) \/ CreateEvent(v) \/ SetCooldown(v)
  \/ EnqueueAlertDispatch(v) \/ Commit(v)
----------------------------------------------------------------------------
Next ==
  \/ \E v \in Evaluators : Evaluate(v) \/ EvaluateStep(v) \/ Abort(v)
  \/ \E p \in Pairs : CooldownExpires(p)
  \/ \E t \in Tasks : (DispatchStep(t) \/ FaultStep(t)) /\ UNCHANGED evalVars
  \/ SettingsStep /\ UNCHANGED evalVars

Spec == Init /\ [][Next]_vars

(* Workers keep running what they have started and what is queued.  Nobody *)
(* has to start an evaluation, change a setting, or fail.                  *)
Fairness ==
  /\ \A v \in Evaluators : WF_vars(EvaluateStep(v))
  /\ \A t \in Tasks : WF_vars(DispatchStep(t) /\ UNCHANGED evalVars)

FairSpec == Spec /\ Fairness
----------------------------------------------------------------------------
(* Discord only ever shows an alert whose row is committed: although the   *)
(* task is published inside the evaluator's open transaction, an event     *)
(* that is rolled back afterwards was never posted.                        *)
OnlyStoredEventsAreSent ==
  \A e \in EventIds : sent[e] > 0 => Stored(e)

(* A row says delivered only if Discord posted the message.                *)
DeliveredWasPosted ==
  \A e \in EventIds : status[e] = "delivered" => sent[e] > 0

(* A row still pending has attempts left, also when two instances of the   *)
(* task overwrite each other's attempt count: no alert stays pending with  *)
(* its attempts used up.                                                   *)
PendingHasAttemptsLeft ==
  \A e \in EventIds : status[e] = "pending" => attempts[e] < MaxAttempts

(* At-least-once delivery repeats a message only because of a fault, and   *)
(* once per fault at most: retries after a 429, attempts after an error    *)
(* and answers that were lost never post an alert twice.                   *)
SendsBoundedByFaults ==
  \A e \in EventIds : sent[e] <= 1 + faults

(* Publishing before the commit at least never leaves a committed event    *)
(* without a task, wherever the evaluation is interrupted.                 *)
StoredEventWasEnqueued ==
  \A e \in EventIds : Stored(e) => pc[Original(e)] # "none"

(* While only one run evaluates a watch, no event is created for a rule    *)
(* whose cooldown is running (check, insert and set are three steps).      *)
NoAlertWhileCooling ==
  [][\A e \in EventIds :
       status[e] = "free" /\ status'[e] = "open" => pairOf'[e] \notin cooling]_vars

(* A cooldown suppresses repeats only: as long as no evaluation fails, a   *)
(* cooling pair has an event that is stored or about to be.                *)
CooldownHasAlert ==
  \A p \in cooling :
    \E e \in EventIds : pairOf[e] = p /\ (Stored(e) \/ status[e] = "open")

(* While the broker hands a message to one worker at a time, delivered and *)
(* failed are final and the attempt count never goes back, across worker   *)
(* crashes, retries and exceptions.                                        *)
SettledIsFinal ==
  [][\A e \in EventIds : /\ Settled(e) => status'[e] = status[e]
                         /\ attempts'[e] >= attempts[e]]_vars

(* What alert_events promises its readers, stated by AlertLedger.          *)
Ledger == INSTANCE AlertLedger WITH MaxPosts <- 1 + MaxFaults
ImplementsLedger == Ledger!Spec

(* An override is cleared by a dispatch only if it names the channel that  *)
(* Discord reported gone: a channel chosen meanwhile is kept.              *)
ChosenChannelSurvives ==
  [][\A t \in Tasks :
       pc[t] = "answered" /\ pc'[t] = "committed" /\ override' # override
         => override[WatchOf(EventOf(t))] = target[t]]_vars

(* Every task instance that is queued ends: the retries of Celery and of   *)
(* the rate limiter do not feed each other forever.                        *)
TasksFinish ==
  \A t \in Tasks : pc[t] = "queued" ~> pc[t] = "done"

(* A committed event whose task has not been consumed yet ends delivered   *)
(* or failed.                                                              *)
LiveTaskSettles ==
  \A e \in EventIds :
    (status[e] = "pending" /\ \E t \in Tasks : EventOf(t) = e /\ Active(t)) ~> Settled(e)

(* Every committed event ends delivered or failed.                         *)
CommittedAlertSettles ==
  \A e \in EventIds : status[e] = "pending" ~> Settled(e)
----------------------------------------------------------------------------
(* The inductive invariant behind the theorems of AlertPipeline_proofs.    *)

(* Rows: what is not stored is untouched, and ids are handed out in order. *)
RowInv ==
  \A e \in EventIds :
    /\ ~Stored(e) => sent[e] = 0 /\ attempts[e] = 0
    /\ status[e] = "delivered" => sent[e] > 0
    /\ status[e] = "pending" => attempts[e] < MaxAttempts
    /\ e >= nextId => status[e] = "free"

(* Task instances: what they read is a stored row with attempts left, and  *)
(* the copies of a message start with the original.                        *)
TaskInv ==
  \A t \in Tasks :
    /\ Running(t) => Stored(EventOf(t))
    /\ pc[t] \in {"loaded", "answered"} => seen[t] < MaxAttempts
    /\ pc[t] = "answered" /\ IsDelivered(answer[t]) => sent[EventOf(t)] > 0
    /\ pc[t] # "none" => pc[Original(EventOf(t))] # "none"

(* Transactions: the rows of an open transaction are open and its own, and *)
(* all but the one being handled have their task.                          *)
TransactionInv ==
  \A v \in Evaluators :
    /\ \A e \in mine[v] : status[e] = "open"
    /\ \A u \in Evaluators \ {v} : mine[u] \cap mine[v] = {}
    /\ epc[v] \in {"cool", "send"} =>
         /\ inserted[v] \in mine[v]
         /\ pc[Original(inserted[v])] = "none"
    /\ \A e \in mine[v] :
         \/ pc[Original(e)] # "none"
         \/ epc[v] \in {"cool", "send"} /\ inserted[v] = e
    /\ epc[v] = "idle" => mine[v] = {}

(* Only a stored or open row, or one rolled back, can have a task. *)
FreshInv == \A e \in EventIds : status[e] = "free" => pc[Original(e)] = "none"

(* A task instance that may still post its event. *)
MaySend(t) ==
  \/ pc[t] \in {"queued", "loaded"}
  \/ pc[t] \in {"answered", "committed"} /\ Retried(answer[t])

Senders(e) == {t \in Tasks : EventOf(t) = e /\ MaySend(t)}

Unpublished(e) == IF pc[Original(e)] = "none" THEN 1 ELSE 0

(* Every post of an event was paid for: by its one message, or by a fault. *)
SendInv ==
  \A e \in EventIds :
    sent[e] + Cardinality(Senders(e)) + Unpublished(e) <= 1 + faults

DeliveryInv ==
  /\ RowInv /\ TaskInv /\ TransactionInv /\ FreshInv /\ SendInv
  /\ StoredEventWasEnqueued
============================================================================
