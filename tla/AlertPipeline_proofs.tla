------------------------ MODULE AlertPipeline_proofs ------------------------
(***************************************************************************)
(* Proofs about AlertPipeline, for every value of its constants.  The      *)
(* argument: CoreInv is inductive, one lemma per action; SendInv, which    *)
(* counts the task instances that may still post, is inductive relative to *)
(* it; the safety properties follow from the two.                          *)
(***************************************************************************)
EXTENDS AlertPipeline, FiniteSetTheorems, TLAPS

(* The invariant without the counting part, which has proofs of its own. *)
CoreInv ==
  /\ TypeOK
  /\ RowInv /\ TaskInv /\ TransactionInv /\ FreshInv /\ StoredEventWasEnqueued

(* What the proofs need of the pairs that tasks and watch rules are. *)
LEMMA PairFacts ==
  /\ \A t \in Tasks : EventOf(t) \in EventIds
  /\ \A e \in EventIds : Original(e) \in Tasks /\ EventOf(Original(e)) = e
  /\ SomePair \in Pairs
  /\ \A p \in Pairs : p[1] \in Watches
  <1>1. \A t \in Tasks : EventOf(t) \in EventIds
    BY DEF Tasks, EventOf
  <1>2. \A e \in EventIds : Original(e) \in Tasks /\ EventOf(Original(e)) = e
    BY DispatchAssumption DEF Tasks, Copies, EventOf, Original
  <1>3. SomePair \in Pairs
    <2>1. PICK w \in Watches, r \in Rules : TRUE
      BY DispatchAssumption
    <2>2. <<w, r>> \in Pairs
      BY DEF Pairs
    <2> QED BY <2>2, Zenon DEF SomePair
  <1>4. \A p \in Pairs : p[1] \in Watches
    BY DEF Pairs
  <1> QED BY <1>1, <1>2, <1>3, <1>4

TaskTyped ==
  /\ pc \in [Tasks -> TaskState]
  /\ retries \in [Tasks -> 0..MaxAttempts]
  /\ seen \in [Tasks -> 0..MaxAttempts]
  /\ target \in [Tasks -> MaybeChannel]
  /\ own \in [Tasks -> MaybeChannel]
  /\ answer \in [Tasks -> DispatchStatus \cup {NoAnswer, "channel_missing"}]

LEMMA FinishType ==
  ASSUME TaskTyped, NEW t \in Tasks, Finish(t)
  PROVE  TaskTyped'
  BY DispatchAssumption DEF TaskTyped, Finish, Forget, TaskState, MaybeChannel

LEMMA RequeueType ==
  ASSUME TaskTyped, NEW t \in Tasks, NEW r \in 0..MaxAttempts, Requeue(t, r)
  PROVE  TaskTyped'
  BY DispatchAssumption DEF TaskTyped, Requeue, Forget, TaskState, MaybeChannel

LEMMA RetryType ==
  ASSUME TaskTyped, NEW t \in Tasks, Retry(t)
  PROVE  TaskTyped'
  <1>1. CASE retries[t] < MaxAttempts /\ Requeue(t, retries[t] + 1)
    <2>1. retries[t] + 1 \in 0..MaxAttempts
      BY <1>1, DispatchAssumption DEF TaskTyped
    <2> QED BY <1>1, <2>1, RequeueType
  <1>2. CASE retries[t] >= MaxAttempts /\ Finish(t)
    BY <1>2, FinishType
  <1> QED BY <1>1, <1>2 DEF Retry

(* A step of a task instance that neither creates nor ends rows, nor       *)
(* publishes an original message, is of no concern to the evaluators.      *)
LEMMA TransactionFrame ==
  ASSUME CoreInv, UNCHANGED evalVars,
         \A e \in EventIds : status'[e] = status[e] \/ (Stored(e) /\ Stored(e)'),
         \A e \in EventIds : pc'[Original(e)] = "none" <=> pc[Original(e)] = "none"
  PROVE  TransactionInv' /\ FreshInv' /\ StoredEventWasEnqueued'
  <1> USE DEF CoreInv, evalVars
  <1>1. TransactionInv'
    <2> SUFFICES ASSUME NEW v \in Evaluators
        PROVE  /\ \A e \in mine[v] : status'[e] = "open"
               /\ \A u \in Evaluators \ {v} : mine[u] \cap mine[v] = {}
               /\ epc[v] \in {"cool", "send"} =>
                     inserted[v] \in mine[v] /\ pc'[Original(inserted[v])] = "none"
               /\ \A e \in mine[v] :
                    \/ pc'[Original(e)] # "none"
                    \/ epc[v] \in {"cool", "send"} /\ inserted[v] = e
               /\ epc[v] = "idle" => mine[v] = {}
      BY DEF TransactionInv
    <2>1. mine[v] \subseteq EventIds
      BY DEF TypeOK
    <2> QED BY <2>1 DEF TransactionInv, Stored
  <1>2. FreshInv' /\ StoredEventWasEnqueued'
    BY DEF FreshInv, StoredEventWasEnqueued, Stored
  <1> QED BY <1>1, <1>2
----------------------------------------------------------------------------
LEMMA IgnoreCore ==
  ASSUME CoreInv, NEW t \in Tasks, Ignore(t), UNCHANGED evalVars
  PROVE  CoreInv'
  <1> USE DispatchAssumption, PairFacts
      DEF CoreInv, TypeOK, DispatchTypeOK, Ignore, Dispatchable, Finish, Forget, rowVars,
          taskVars, channelVars, evalVars
  <1>1. TypeOK'
    BY DEF TaskInv, RowInv, MaybeChannel, NoAnswer, TaskState, RowStatus, DispatchStatus
  <1>2. RowInv'
    BY DEF RowInv, TaskInv, Running, Stored
  <1>3. TaskInv'
    BY DEF RowInv, TaskInv, Running, Active, Stored
  <1>4. /\ \A e \in EventIds : status'[e] = status[e] \/ (Stored(e) /\ Stored(e)')
        /\ \A e \in EventIds : pc'[Original(e)] = "none" <=> pc[Original(e)] = "none"
    BY DEF TaskInv, Running, Active, Stored
  <1> QED BY <1>1, <1>2, <1>3, <1>4, TransactionFrame DEF CoreInv

LEMMA LoadCore ==
  ASSUME CoreInv, NEW t \in Tasks, Load(t), UNCHANGED evalVars
  PROVE  CoreInv'
  <1> USE DispatchAssumption, PairFacts
      DEF CoreInv, TypeOK, DispatchTypeOK, Load, Dispatchable, WatchOf, ChannelFor,
          rowVars,
          taskVars, channelVars, evalVars
  <1>1. TypeOK'
    BY DEF TaskInv, RowInv, MaybeChannel, NoAnswer, TaskState, RowStatus, DispatchStatus
  <1>2. RowInv'
    BY DEF RowInv, TaskInv, Running, Stored
  <1>3. TaskInv'
    BY DEF RowInv, TaskInv, Running, Active, Stored
  <1>4. /\ \A e \in EventIds : status'[e] = status[e] \/ (Stored(e) /\ Stored(e)')
        /\ \A e \in EventIds : pc'[Original(e)] = "none" <=> pc[Original(e)] = "none"
    BY DEF TaskInv, Running, Active, Stored
  <1> QED BY <1>1, <1>2, <1>3, <1>4, TransactionFrame DEF CoreInv

LEMMA SendCore ==
  ASSUME CoreInv, NEW t \in Tasks, Send(t), UNCHANGED evalVars
  PROVE  CoreInv'
  <1> USE DispatchAssumption, PairFacts
      DEF CoreInv, TypeOK, DispatchTypeOK, Send, Posts, Answerable, IsDelivered, rowVars,
          taskVars, channelVars, evalVars
  <1>1. TypeOK'
    BY DEF TaskInv, RowInv, MaybeChannel, NoAnswer, TaskState, RowStatus, DispatchStatus
  <1>2. RowInv'
    BY DEF RowInv, TaskInv, Running, Stored
  <1>3. TaskInv'
    BY DEF RowInv, TaskInv, Running, Active, Stored
  <1>4. /\ \A e \in EventIds : status'[e] = status[e] \/ (Stored(e) /\ Stored(e)')
        /\ \A e \in EventIds : pc'[Original(e)] = "none" <=> pc[Original(e)] = "none"
    BY DEF TaskInv, Running, Active, Stored
  <1> QED BY <1>1, <1>2, <1>3, <1>4, TransactionFrame DEF CoreInv

LEMMA FailMissingCore ==
  ASSUME CoreInv, NEW t \in Tasks, FailMissing(t), UNCHANGED evalVars
  PROVE  CoreInv'
  <1> USE DispatchAssumption, PairFacts
      DEF CoreInv, TypeOK, DispatchTypeOK, FailMissing, MarkFailed, Committed,
          Forget, rowVars, taskVars, channelVars, evalVars
  <1>1. TypeOK'
    BY DEF TaskInv, RowInv, MaybeChannel, NoAnswer, TaskState, RowStatus, DispatchStatus
  <1>2. RowInv'
    BY DEF RowInv, TaskInv, Running, Stored
  <1>3. TaskInv'
    BY DEF RowInv, TaskInv, Running, Active, Stored
  <1>4. /\ \A e \in EventIds : status'[e] = status[e] \/ (Stored(e) /\ Stored(e)')
        /\ \A e \in EventIds : pc'[Original(e)] = "none" <=> pc[Original(e)] = "none"
    BY DEF TaskInv, Running, Active, Stored
  <1> QED BY <1>1, <1>2, <1>3, <1>4, TransactionFrame DEF CoreInv

LEMMA WriteDeliveredCore ==
  ASSUME CoreInv, NEW t \in Tasks, WriteDelivered(t), UNCHANGED evalVars
  PROVE  CoreInv'
  <1> USE DispatchAssumption, PairFacts
      DEF CoreInv, TypeOK, DispatchTypeOK, WriteDelivered, MarkDelivered, IsDelivered,
          Committed, Forget, rowVars, taskVars, channelVars, evalVars
  <1>1. TypeOK'
    BY DEF TaskInv, RowInv, MaybeChannel, NoAnswer, TaskState, RowStatus, DispatchStatus
  <1>2. RowInv'
    BY DEF RowInv, TaskInv, Running, Stored
  <1>3. TaskInv'
    BY DEF RowInv, TaskInv, Running, Active, Stored
  <1>4. /\ \A e \in EventIds : status'[e] = status[e] \/ (Stored(e) /\ Stored(e)')
        /\ \A e \in EventIds : pc'[Original(e)] = "none" <=> pc[Original(e)] = "none"
    BY DEF TaskInv, Running, Active, Stored
  <1> QED BY <1>1, <1>2, <1>3, <1>4, TransactionFrame DEF CoreInv

LEMMA WriteAttemptCore ==
  ASSUME CoreInv, NEW t \in Tasks, WriteAttempt(t), UNCHANGED evalVars
  PROVE  CoreInv'
  <1> USE DispatchAssumption, PairFacts
      DEF CoreInv, TypeOK, DispatchTypeOK, WriteAttempt, BumpAttempt, OutOfAttempts,
          Committed, Forget, rowVars, taskVars, channelVars, evalVars
  <1>1. TypeOK'
    BY DEF TaskInv, RowInv, MaybeChannel, NoAnswer, TaskState, RowStatus, DispatchStatus
  <1>2. RowInv'
    BY DEF RowInv, TaskInv, Running, Stored
  <1>3. TaskInv'
    BY DEF RowInv, TaskInv, Running, Active, Stored
  <1>4. /\ \A e \in EventIds : status'[e] = status[e] \/ (Stored(e) /\ Stored(e)')
        /\ \A e \in EventIds : pc'[Original(e)] = "none" <=> pc[Original(e)] = "none"
    BY DEF TaskInv, Running, Active, Stored
  <1> QED BY <1>1, <1>2, <1>3, <1>4, TransactionFrame DEF CoreInv

LEMMA WriteRefusedCore ==
  ASSUME CoreInv, NEW t \in Tasks, WriteRefused(t), UNCHANGED evalVars
  PROVE  CoreInv'
  <1> USE DispatchAssumption, PairFacts
      DEF CoreInv, TypeOK, DispatchTypeOK, WriteRefused, MarkFailed,
          Committed, Forget, rowVars, taskVars, channelVars, evalVars
  <1>1. TypeOK'
    <2>1. attempts' \in [EventIds -> 0..MaxAttempts]
      BY DEF TaskInv
    <2>2. status' \in [EventIds -> RowStatus]
      BY DEF RowStatus
    <2>3. override' \in [Watches -> MaybeChannel]
      BY DEF MaybeChannel
    <2> QED BY <2>1, <2>2, <2>3 DEF MaybeChannel, TaskState
  <1>2. RowInv'
    BY DEF RowInv, TaskInv, Running, Stored
  <1>3. TaskInv'
    BY DEF RowInv, TaskInv, Running, Active, Stored
  <1>4. /\ \A e \in EventIds : status'[e] = status[e] \/ (Stored(e) /\ Stored(e)')
        /\ \A e \in EventIds : pc'[Original(e)] = "none" <=> pc[Original(e)] = "none"
    BY DEF TaskInv, Running, Active, Stored
  <1> QED BY <1>1, <1>2, <1>3, <1>4, TransactionFrame DEF CoreInv

LEMMA AcknowledgeCore ==
  ASSUME CoreInv, NEW t \in Tasks, Acknowledge(t), UNCHANGED evalVars
  PROVE  CoreInv'
  <1> USE DispatchAssumption, PairFacts
      DEF CoreInv, TypeOK, DispatchTypeOK, Acknowledge, Finish, Forget,
          rowVars, taskVars, channelVars, evalVars
  <1>1. TypeOK'
    BY DEF TaskInv, RowInv, MaybeChannel, NoAnswer, TaskState, RowStatus, DispatchStatus
  <1>2. RowInv'
    BY DEF RowInv, TaskInv, Running, Stored
  <1>3. TaskInv'
    BY DEF RowInv, TaskInv, Running, Active, Stored
  <1>4. /\ \A e \in EventIds : status'[e] = status[e] \/ (Stored(e) /\ Stored(e)')
        /\ \A e \in EventIds : pc'[Original(e)] = "none" <=> pc[Original(e)] = "none"
    BY DEF TaskInv, Running, Active, Stored
  <1> QED BY <1>1, <1>2, <1>3, <1>4, TransactionFrame DEF CoreInv

LEMMA RetryLaterCore ==
  ASSUME CoreInv, NEW t \in Tasks, RetryLater(t), UNCHANGED evalVars
  PROVE  CoreInv'
  <1> USE DispatchAssumption, PairFacts DEF CoreInv, TypeOK, DispatchTypeOK, rowVars, taskVars,
          channelVars, evalVars
  <1>1. TypeOK'
    <2>1. TaskTyped'
      BY RetryType DEF TaskTyped, RetryLater
    <2>2. faults' \in 0..MaxFaults
      BY DEF RetryLater, Fault
    <2>3. UNCHANGED <<rowVars, channelVars, evalVars>>
      BY DEF RetryLater
    <2> QED BY <2>1, <2>2, <2>3 DEF TaskTyped
  <1> USE DEF RetryLater, Retry, Requeue, Finish, Forget
  <1>2. RowInv'
    BY DEF RowInv, TaskInv, Running, Stored
  <1>3. TaskInv'
    BY DEF RowInv, TaskInv, Running, Active, Stored
  <1>4. /\ \A e \in EventIds : status'[e] = status[e] \/ (Stored(e) /\ Stored(e)')
        /\ \A e \in EventIds : pc'[Original(e)] = "none" <=> pc[Original(e)] = "none"
    BY DEF TaskInv, Running, Active, Stored
  <1> QED BY <1>1, <1>2, <1>3, <1>4, TransactionFrame DEF CoreInv

LEMMA RedeliverCore ==
  ASSUME CoreInv, NEW t \in Tasks, Redeliver(t), UNCHANGED evalVars
  PROVE  CoreInv'
  <1> USE DispatchAssumption, PairFacts
      DEF CoreInv, TypeOK, DispatchTypeOK, Redeliver, Fault, Requeue, Forget,
          rowVars, taskVars, channelVars, evalVars
  <1>1. TypeOK'
    BY DEF TaskInv, RowInv, MaybeChannel, NoAnswer, TaskState, RowStatus, DispatchStatus
  <1>2. RowInv'
    BY DEF RowInv, TaskInv, Running, Stored
  <1>3. TaskInv'
    BY DEF RowInv, TaskInv, Running, Active, Stored
  <1>4. /\ \A e \in EventIds : status'[e] = status[e] \/ (Stored(e) /\ Stored(e)')
        /\ \A e \in EventIds : pc'[Original(e)] = "none" <=> pc[Original(e)] = "none"
    BY DEF TaskInv, Running, Active, Stored
  <1> QED BY <1>1, <1>2, <1>3, <1>4, TransactionFrame DEF CoreInv

LEMMA LoseTaskCore ==
  ASSUME CoreInv, NEW t \in Tasks, LoseTask(t), UNCHANGED evalVars
  PROVE  CoreInv'
  <1> USE DispatchAssumption, PairFacts
      DEF CoreInv, TypeOK, DispatchTypeOK, LoseTask, Fault, Finish, Forget,
          rowVars, taskVars, channelVars, evalVars
  <1>1. TypeOK'
    BY DEF TaskInv, RowInv, MaybeChannel, NoAnswer, TaskState, RowStatus, DispatchStatus
  <1>2. RowInv'
    BY DEF RowInv, TaskInv, Running, Stored
  <1>3. TaskInv'
    BY DEF RowInv, TaskInv, Running, Active, Stored
  <1>4. /\ \A e \in EventIds : status'[e] = status[e] \/ (Stored(e) /\ Stored(e)')
        /\ \A e \in EventIds : pc'[Original(e)] = "none" <=> pc[Original(e)] = "none"
    BY DEF TaskInv, Running, Active, Stored
  <1> QED BY <1>1, <1>2, <1>3, <1>4, TransactionFrame DEF CoreInv

LEMMA RaiseCore ==
  ASSUME CoreInv, NEW t \in Tasks, Raise(t), UNCHANGED evalVars
  PROVE  CoreInv'
  <1> USE DispatchAssumption, PairFacts DEF CoreInv, TypeOK, DispatchTypeOK, rowVars, taskVars,
          channelVars, evalVars
  <1>1. TypeOK'
    <2>1. TaskTyped'
      BY RetryType DEF TaskTyped, Raise
    <2>2. faults' \in 0..MaxFaults
      BY DEF Raise, Fault
    <2>3. UNCHANGED <<rowVars, channelVars, evalVars>>
      BY DEF Raise
    <2> QED BY <2>1, <2>2, <2>3 DEF TaskTyped
  <1> USE DEF Raise, Fault, Retry, Requeue, Finish, Forget
  <1>2. RowInv'
    BY DEF RowInv, TaskInv, Running, Stored
  <1>3. TaskInv'
    BY DEF RowInv, TaskInv, Running, Active, Stored
  <1>4. /\ \A e \in EventIds : status'[e] = status[e] \/ (Stored(e) /\ Stored(e)')
        /\ \A e \in EventIds : pc'[Original(e)] = "none" <=> pc[Original(e)] = "none"
    BY DEF TaskInv, Running, Active, Stored
  <1> QED BY <1>1, <1>2, <1>3, <1>4, TransactionFrame DEF CoreInv

LEMMA DuplicateCore ==
  ASSUME CoreInv, NEW t \in Tasks, Duplicate(t), UNCHANGED evalVars
  PROVE  CoreInv'
  <1> USE DispatchAssumption, PairFacts
      DEF CoreInv, TypeOK, DispatchTypeOK, Duplicate, Fault, rowVars,
          taskVars, channelVars, evalVars
  <1>1. TypeOK'
    BY DEF TaskInv, RowInv, MaybeChannel, NoAnswer, TaskState, RowStatus, DispatchStatus
  <1>2. RowInv'
    BY DEF RowInv, TaskInv, Running, Stored
  <1>3. TaskInv'
    BY DEF RowInv, TaskInv, Running, Active, Stored
  <1>4. /\ \A e \in EventIds : status'[e] = status[e] \/ (Stored(e) /\ Stored(e)')
        /\ \A e \in EventIds : pc'[Original(e)] = "none" <=> pc[Original(e)] = "none"
    BY DEF TaskInv, Running, Active, Stored
  <1> QED BY <1>1, <1>2, <1>3, <1>4, TransactionFrame DEF CoreInv
----------------------------------------------------------------------------
(* The evaluator's steps. *)
LEMMA EvalControlCore ==
  ASSUME CoreInv, NEW v \in Evaluators, Evaluate(v) \/ Suppress(v) \/ Fire(v) \/ SetCooldown(v)
  PROVE  CoreInv'
  <1> USE DispatchAssumption, PairFacts
      DEF CoreInv, TypeOK, DispatchTypeOK, Evaluate, Suppress, Fire, SetCooldown,
          dispatchVars, rowVars, taskVars, channelVars
  <1>1. TypeOK'
    <2>1. epc' \in [Evaluators -> EvalState]
      BY DEF EvalState
    <2>2. todo' \in [Evaluators -> SUBSET Pairs]
      <3>1. \/ todo' = todo
            \/ \E S \in SUBSET Pairs : todo' = [todo EXCEPT ![v] = S]
        <4>1. \A p : todo[v] \ {p} \in SUBSET Pairs
          OBVIOUS
        <4> QED BY <4>1
      <3> HIDE DEF Evaluate, Suppress, Fire, SetCooldown
      <3> QED BY <3>1
    <2>3. firing' \in [Evaluators -> Pairs] /\ cooling' \in SUBSET Pairs
      OBVIOUS
    <2>4. UNCHANGED <<dispatchVars, inserted, mine, nextId>>
      OBVIOUS
    <2> HIDE DEF Evaluate, Suppress, Fire, SetCooldown
    <2> QED BY <2>1, <2>2, <2>3, <2>4
  <1>2. RowInv' /\ TaskInv' /\ FreshInv' /\ StoredEventWasEnqueued'
    BY DEF RowInv, TaskInv, FreshInv, StoredEventWasEnqueued, Running, Stored
  <1>3. /\ UNCHANGED <<status, pc, mine, inserted>>
        /\ epc[v] = "idle" => mine[v] = {}
        /\ \A u \in Evaluators :
             /\ u # v => epc'[u] = epc[u]
             /\ epc'[u] \in {"cool", "send"} <=> epc[u] \in {"cool", "send"}
             /\ epc'[u] = "idle" => epc[u] = "idle"
    BY DEF TransactionInv
  <1>4. TransactionInv'
    <2> HIDE DEF Evaluate, Suppress, Fire, SetCooldown
    <2> QED BY <1>3 DEF TransactionInv
  <1> QED BY <1>1, <1>2, <1>4 DEF CoreInv

LEMMA CreateEventCore ==
  ASSUME CoreInv, NEW v \in Evaluators, CreateEvent(v)
  PROVE  CoreInv'
  <1> USE DispatchAssumption, PairFacts
      DEF CoreInv, TypeOK, DispatchTypeOK, CreateEvent, taskVars, channelVars
  <1>1. TypeOK'
    <2>1. inserted' \in [Evaluators -> 0..MaxEvents] /\ nextId' \in 1..(MaxEvents + 1)
      BY DEF EventIds
    <2>2. mine' \in [Evaluators -> SUBSET EventIds]
      OBVIOUS
    <2>3. todo' \in [Evaluators -> SUBSET Pairs]
      OBVIOUS
    <2>4. status' \in [EventIds -> RowStatus] /\ pairOf' \in [EventIds -> Pairs]
      BY DEF RowStatus
    <2>5. epc' \in [Evaluators -> EvalState]
      BY DEF EvalState
    <2>6. UNCHANGED <<attempts, sent, taskVars, channelVars, faults, firing, cooling>>
      OBVIOUS
    <2> HIDE DEF CreateEvent
    <2> QED BY <2>1, <2>2, <2>3, <2>4, <2>5, <2>6
  <1>2. status[nextId] = "free" /\ pc[Original(nextId)] = "none"
    <2>1. nextId >= nextId
      OBVIOUS
    <2> QED BY <2>1 DEF RowInv, FreshInv
  <1>3. RowInv'
    <2>1. \A e \in EventIds : e >= nextId' => e >= nextId /\ e # nextId
      BY DEF EventIds
    <2>2. status' = [status EXCEPT ![nextId] = "open"]
      OBVIOUS
    <2> QED BY <1>2, <2>1, <2>2 DEF RowInv, Stored
  <1>4. TaskInv'
    BY <1>2 DEF TaskInv, Running, Stored
  <1>5. \A u \in Evaluators : nextId \notin mine[u]
    BY <1>2 DEF TransactionInv
  <1>6. TransactionInv'
    BY <1>2, <1>5 DEF TransactionInv
  <1>7. FreshInv' /\ StoredEventWasEnqueued'
    BY <1>2 DEF FreshInv, StoredEventWasEnqueued, Stored
  <1> QED BY <1>1, <1>3, <1>4, <1>6, <1>7 DEF CoreInv

LEMMA EnqueueCore ==
  ASSUME CoreInv, NEW v \in Evaluators, EnqueueAlertDispatch(v)
  PROVE  CoreInv'
  <1> USE DispatchAssumption, PairFacts
      DEF CoreInv, TypeOK, DispatchTypeOK, EnqueueAlertDispatch, rowVars, channelVars
  <1>1. inserted[v] \in mine[v] /\ inserted[v] \in EventIds /\ status[inserted[v]] = "open"
    BY DEF TransactionInv
  <1>2. TypeOK'
    BY <1>1 DEF EvalState, TaskState
  <1>3. RowInv' /\ FreshInv' /\ StoredEventWasEnqueued'
    BY <1>1 DEF RowInv, FreshInv, StoredEventWasEnqueued, Stored
  <1>4. TaskInv'
    BY <1>1 DEF TaskInv, Running, Stored
  <1>5. TransactionInv'
    BY <1>1 DEF TransactionInv
  <1> QED BY <1>2, <1>3, <1>4, <1>5 DEF CoreInv

(* The end of a transaction, with s the state its rows take. *)
LEMMA EndTransactionCore ==
  ASSUME CoreInv, NEW v \in Evaluators, NEW s \in {"pending", "gone"},
         EndTransaction(v, s), faults' \in 0..MaxFaults,
         s = "pending" => epc[v] = "loop"
  PROVE  CoreInv'
  <1> USE DispatchAssumption, PairFacts
      DEF CoreInv, TypeOK, DispatchTypeOK, EndTransaction, taskVars, channelVars
  <1>1. TypeOK'
    BY DEF EvalState, RowStatus
  <1>2. \A e \in mine[v] : status[e] = "open" /\ ~Stored(e)
    BY DEF TransactionInv, Stored
  <1>3. RowInv'
    BY <1>2 DEF RowInv, Stored
  <1>4. TaskInv'
    BY <1>2 DEF TaskInv, Running, Stored
  <1>5. TransactionInv'
    BY <1>2 DEF TransactionInv
  <1>6. s = "pending" => \A e \in mine[v] : pc[Original(e)] # "none"
    BY DEF TransactionInv
  <1>7. FreshInv' /\ StoredEventWasEnqueued'
    BY <1>2, <1>6 DEF FreshInv, StoredEventWasEnqueued, Stored
  <1> QED BY <1>1, <1>3, <1>4, <1>5, <1>7 DEF CoreInv

(* Settings, Discord and expiring cooldowns touch none of it. *)
LEMMA EnvironmentCore ==
  ASSUME CoreInv,
         \/ SettingsStep /\ UNCHANGED evalVars
         \/ \E p \in Pairs : CooldownExpires(p)
  PROVE  CoreInv'
  <1>1. UNCHANGED <<rowVars, taskVars, faults, epc, todo, firing, inserted, mine, nextId>>
    BY DEF SettingsStep, SetChannel, UpdateConfig, DeleteChannel, OnGuildChannelDelete,
       CooldownExpires, evalVars, dispatchVars
  <1>2. /\ override' \in [Watches -> MaybeChannel] /\ default' \in MaybeChannel
        /\ live' \in SUBSET Channels /\ cooling' \in SUBSET Pairs
    BY DEF CoreInv, TypeOK, DispatchTypeOK, SettingsStep, SetChannel, UpdateConfig,
       DeleteChannel, OnGuildChannelDelete, CooldownExpires, evalVars, dispatchVars,
       channelVars, MaybeChannel
  <1>3. TypeOK'
    BY <1>1, <1>2 DEF CoreInv, TypeOK, DispatchTypeOK, rowVars, taskVars
  <1>4. RowInv' /\ TaskInv' /\ TransactionInv' /\ FreshInv' /\ StoredEventWasEnqueued'
    BY <1>1 DEF CoreInv, RowInv, TaskInv, TransactionInv, FreshInv,
       StoredEventWasEnqueued, Running, Stored, rowVars, taskVars
  <1> QED BY <1>3, <1>4 DEF CoreInv
----------------------------------------------------------------------------
LEMMA InitCore == Init => CoreInv
  <1> SUFFICES ASSUME Init PROVE CoreInv
    OBVIOUS
  <1> USE DispatchAssumption, PairFacts DEF Init, DispatchInit
  <1>1. TypeOK
    BY DEF TypeOK, DispatchTypeOK, RowStatus, TaskState, MaybeChannel, EvalState
  <1>2. RowInv /\ FreshInv /\ StoredEventWasEnqueued
    BY DEF RowInv, FreshInv, StoredEventWasEnqueued, Stored, EventIds
  <1>3. TaskInv /\ TransactionInv
    BY DEF TaskInv, TransactionInv, Running
  <1> QED BY <1>1, <1>2, <1>3 DEF CoreInv

LEMMA NextCore == CoreInv /\ [Next]_vars => CoreInv'
  <1> SUFFICES ASSUME CoreInv, [Next]_vars PROVE CoreInv'
    OBVIOUS
  <1>1. ASSUME NEW v \in Evaluators, Evaluate(v) \/ EvaluateStep(v) \/ Abort(v)
        PROVE  CoreInv'
    <2>1. CASE Evaluate(v) \/ Suppress(v) \/ Fire(v) \/ SetCooldown(v)
      BY <2>1, EvalControlCore
    <2>2. CASE CreateEvent(v)
      BY <2>2, CreateEventCore
    <2>3. CASE EnqueueAlertDispatch(v)
      BY <2>3, EnqueueCore
    <2>4. CASE Commit(v)
      BY <2>4, EndTransactionCore DEF Commit, CoreInv, TypeOK, DispatchTypeOK
    <2>5. CASE Abort(v)
      BY <2>5, EndTransactionCore, DispatchAssumption
         DEF Abort, Fault, CoreInv, TypeOK, DispatchTypeOK
    <2> QED BY <1>1, <2>1, <2>2, <2>3, <2>4, <2>5 DEF EvaluateStep
  <1>2. ASSUME NEW t \in Tasks, DispatchStep(t) \/ FaultStep(t), UNCHANGED evalVars
        PROVE  CoreInv'
    BY <1>2, IgnoreCore, LoadCore, SendCore, FailMissingCore, WriteDeliveredCore,
       WriteAttemptCore, WriteRefusedCore, AcknowledgeCore, RetryLaterCore,
       RedeliverCore, LoseTaskCore, RaiseCore, DuplicateCore
       DEF DispatchStep, FaultStep
  <1>3. CASE UNCHANGED vars
    BY <1>3 DEF CoreInv, TypeOK, DispatchTypeOK, RowInv, TaskInv, TransactionInv, FreshInv,
       StoredEventWasEnqueued, Running, Stored, vars, dispatchVars, evalVars, rowVars,
       taskVars, channelVars
  <1> QED BY <1>1, <1>2, <1>3, EnvironmentCore DEF Next

(* Every variable keeps its type; in particular no attempt count and no    *)
(* retry count ever passes _MAX_ATTEMPTS, whatever tasks overwrite.        *)
THEOREM TypeCorrect == Spec => []TypeOK
  <1>1. Spec => []CoreInv
    BY InitCore, NextCore, PTL DEF Spec
  <1> QED BY <1>1, PTL DEF CoreInv
----------------------------------------------------------------------------
(* The counting part.  Taking from, or adding to, a finite set of senders. *)
LEMMA SendersFinite ==
  ASSUME NEW e \in EventIds
  PROVE  IsFiniteSet(Senders(e)) /\ Cardinality(Senders(e)) \in Nat
  <1>1. IsFiniteSet(EventIds) /\ IsFiniteSet(Copies)
    BY DispatchAssumption, FS_Interval DEF EventIds, Copies
  <1>2. IsFiniteSet(Tasks)
    BY <1>1, FS_Product DEF Tasks
  <1>3. Senders(e) \in SUBSET Tasks
    BY DEF Senders
  <1> QED BY <1>2, <1>3, FS_Subset, FS_CardinalityType

LEMMA CountBounds ==
  ASSUME NEW S, IsFiniteSet(S), NEW T, NEW x
  PROVE  /\ T \subseteq S => Cardinality(T) <= Cardinality(S)
         /\ T \subseteq S \cup {x} => Cardinality(T) <= Cardinality(S) + 1
         /\ x \in S /\ T \subseteq S \ {x} => Cardinality(T) + 1 <= Cardinality(S)
  <1>1. ASSUME T \subseteq S PROVE Cardinality(T) <= Cardinality(S)
    BY <1>1, FS_Subset
  <1>2. ASSUME T \subseteq S \cup {x} PROVE Cardinality(T) <= Cardinality(S) + 1
    <2>1. IsFiniteSet(S \cup {x}) /\ Cardinality(S \cup {x}) <= Cardinality(S) + 1
      <3>1. Cardinality(S) \in Nat
        BY FS_CardinalityType
      <3>2. /\ IsFiniteSet(S \cup {x})
            /\ Cardinality(S \cup {x}) = IF x \in S THEN Cardinality(S) ELSE Cardinality(S) + 1
        BY FS_AddElement
      <3> QED BY <3>1, <3>2
    <2>2. IsFiniteSet(T) /\ Cardinality(T) <= Cardinality(S \cup {x})
      BY <1>2, <2>1, FS_Subset
    <2>3. Cardinality(T) \in Nat /\ Cardinality(S) \in Nat /\ Cardinality(S \cup {x}) \in Nat
      BY <2>1, <2>2, FS_CardinalityType
    <2> QED BY <2>1, <2>2, <2>3
  <1>3. ASSUME x \in S, T \subseteq S \ {x} PROVE Cardinality(T) + 1 <= Cardinality(S)
    <2>1. IsFiniteSet(S \ {x}) /\ Cardinality(S \ {x}) = Cardinality(S) - 1
      BY <1>3, FS_RemoveElement
    <2>2. IsFiniteSet(T) /\ Cardinality(T) <= Cardinality(S \ {x})
      BY <1>3, <2>1, FS_Subset
    <2>3. Cardinality(T) \in Nat /\ Cardinality(S) \in Nat
      BY <2>2, FS_CardinalityType
    <2> QED BY <2>1, <2>2, <2>3
  <1> QED BY <1>1, <1>2, <1>3

(* A step that makes nobody a sender and posts nothing. *)
LEMMA NoNewSender ==
  ASSUME CoreInv, SendInv, faults' \in Nat, faults <= faults', UNCHANGED sent,
         \A e \in EventIds : Senders(e)' \subseteq Senders(e),
         \A e \in EventIds : Unpublished(e)' = Unpublished(e)
  PROVE  SendInv'
  <1> SUFFICES ASSUME NEW e \in EventIds
               PROVE  sent[e] + Cardinality(Senders(e)') + Unpublished(e) <= 1 + faults'
    BY DEF SendInv
  <1>1. /\ sent[e] \in Nat /\ Unpublished(e) \in Nat /\ faults \in Nat
        /\ sent[e] + Cardinality(Senders(e)) + Unpublished(e) <= 1 + faults
    BY DispatchAssumption DEF CoreInv, TypeOK, DispatchTypeOK, SendInv, Unpublished
  <1>2. /\ Cardinality(Senders(e)) \in Nat
        /\ Cardinality(Senders(e)') <= Cardinality(Senders(e))
    BY SendersFinite, CountBounds
  <1>3. Cardinality(Senders(e)') \in Nat
    BY SendersFinite, FS_Subset, FS_CardinalityType
  <1> QED BY <1>1, <1>2, <1>3

(* A fault that makes task instance u a sender. *)
LEMMA OneNewSender ==
  ASSUME CoreInv, SendInv, NEW u \in Tasks, faults' = faults + 1, UNCHANGED sent,
         \A e \in EventIds : Senders(e)' \subseteq Senders(e) \cup {u},
         \A e \in EventIds : Unpublished(e)' = Unpublished(e)
  PROVE  SendInv'
  <1> SUFFICES ASSUME NEW e \in EventIds
               PROVE  sent[e] + Cardinality(Senders(e)') + Unpublished(e) <= 1 + faults'
    BY DEF SendInv
  <1>1. /\ sent[e] \in Nat /\ Unpublished(e) \in Nat /\ faults \in Nat
        /\ sent[e] + Cardinality(Senders(e)) + Unpublished(e) <= 1 + faults
    BY DispatchAssumption DEF CoreInv, TypeOK, DispatchTypeOK, SendInv, Unpublished
  <1>2. /\ Cardinality(Senders(e)) \in Nat
        /\ Cardinality(Senders(e)') <= Cardinality(Senders(e)) + 1
    BY SendersFinite, CountBounds
  <1>3. Cardinality(Senders(e)') \in Nat
    BY SendersFinite, FS_AddElement, FS_Subset, FS_CardinalityType
  <1> QED BY <1>1, <1>2, <1>3

LEMMA DispatchSend ==
  ASSUME CoreInv, SendInv, NEW t \in Tasks, DispatchStep(t), UNCHANGED evalVars
  PROVE  SendInv'
  <1> USE DispatchAssumption, PairFacts DEF CoreInv, TypeOK, DispatchTypeOK
  <1>1. CASE Send(t)
    <2> SUFFICES ASSUME NEW e \in EventIds
                 PROVE  sent'[e] + Cardinality(Senders(e)') + Unpublished(e)' <= 1 + faults'
      BY DEF SendInv
    <2>1. /\ sent[e] \in Nat /\ Unpublished(e) \in Nat /\ faults \in Nat
          /\ sent[e] + Cardinality(Senders(e)) + Unpublished(e) <= 1 + faults
      BY DEF SendInv, Unpublished
    <2>2. /\ Cardinality(Senders(e)) \in Nat /\ IsFiniteSet(Senders(e))
      BY SendersFinite
    <2>3. Unpublished(e)' = Unpublished(e) /\ faults' = faults
      BY <1>1 DEF Send, Unpublished
    <2>4. Senders(e)' \subseteq Senders(e)
      BY <1>1 DEF Send, Senders, MaySend
    <2>5. Cardinality(Senders(e)') \in Nat
      BY <2>2, <2>4, FS_Subset, FS_CardinalityType
    <2>6. CASE sent'[e] = sent[e]
      <3>1. Cardinality(Senders(e)') <= Cardinality(Senders(e))
        BY <2>2, <2>4, CountBounds
      <3> QED BY <2>1, <2>2, <2>3, <2>5, <2>6, <3>1
    <2>7. CASE sent'[e] # sent[e]
      <3>1. e = EventOf(t) /\ sent'[e] = sent[e] + 1 /\ Posts(answer'[t])
        BY <1>1, <2>7 DEF Send, rowVars
      <3>2. t \in Senders(e) /\ t \notin Senders(e)'
        BY <1>1, <3>1 DEF Send, Senders, MaySend, Posts, Retried
      <3>3. Cardinality(Senders(e)') + 1 <= Cardinality(Senders(e))
        BY <2>2, <2>4, <3>2, CountBounds
      <3> QED BY <2>1, <2>2, <2>3, <2>5, <3>1, <3>3
    <2> QED BY <2>6, <2>7
  <1>2. CASE ~Send(t)
    <2>1. UNCHANGED <<sent, faults>>
      BY <1>2 DEF DispatchStep, Ignore, Load, FailMissing, WriteDelivered, WriteAttempt,
         WriteRefused, Acknowledge, RetryLater, Committed, rowVars
    <2>2. /\ \A u \in Tasks : u # t => pc'[u] = pc[u] /\ answer'[u] = answer[u]
          /\ pc[t] # "none" /\ pc'[t] # "none"
          /\ MaySend(t)' => MaySend(t)
      BY <1>2 DEF DispatchStep, Ignore, Load, FailMissing, WriteDelivered, WriteAttempt,
         WriteRefused, Acknowledge, RetryLater, Retry, Requeue, Finish, Committed, MaySend,
         NoAnswer
    <2>3. \A e \in EventIds : Senders(e)' \subseteq Senders(e)
      BY <2>2 DEF Senders, MaySend
    <2>4. \A e \in EventIds : Unpublished(e)' = Unpublished(e)
      BY <2>2 DEF Unpublished
    <2> QED BY <2>1, <2>3, <2>4, NoNewSender
  <1> QED BY <1>1, <1>2

LEMMA FaultSend ==
  ASSUME CoreInv, SendInv, NEW t \in Tasks, FaultStep(t), UNCHANGED evalVars
  PROVE  SendInv'
  <1> USE DispatchAssumption, PairFacts DEF CoreInv, TypeOK, DispatchTypeOK
  <1>1. UNCHANGED sent /\ faults' = faults + 1
    BY DEF FaultStep, Redeliver, LoseTask, Raise, Duplicate, Fault, rowVars
  <1>2. PICK u \in Tasks :
          /\ \A x \in Tasks : x # u => pc'[x] = pc[x] /\ answer'[x] = answer[x]
          /\ pc'[u] # "none"
          /\ pc[u] = "none" => u # Original(EventOf(u))
    <2>1. CASE Duplicate(t)
      BY <2>1 DEF Duplicate, Active, Running, TaskInv
    <2>2. CASE ~Duplicate(t)
      BY <2>2 DEF FaultStep, Redeliver, LoseTask, Raise, Retry, Requeue, Finish, Active,
         Running
    <2> QED BY <2>1, <2>2
  <1>3. \A e \in EventIds : Senders(e)' \subseteq Senders(e) \cup {u}
    BY <1>2 DEF Senders, MaySend
  <1>4. \A e \in EventIds : Unpublished(e)' = Unpublished(e)
    BY <1>2 DEF Unpublished
  <1> QED BY <1>1, <1>3, <1>4, OneNewSender

LEMMA EvaluatorSend ==
  ASSUME CoreInv, SendInv, NEW v \in Evaluators, Evaluate(v) \/ EvaluateStep(v) \/ Abort(v)
  PROVE  SendInv'
  <1> USE DispatchAssumption, PairFacts DEF CoreInv, TypeOK, DispatchTypeOK
  <1>1. CASE EnqueueAlertDispatch(v)
    <2> DEFINE id == inserted[v]
    <2>1. id \in EventIds /\ pc[Original(id)] = "none"
      BY <1>1 DEF EnqueueAlertDispatch, TransactionInv
    <2> SUFFICES ASSUME NEW e \in EventIds
                 PROVE  sent'[e] + Cardinality(Senders(e)') + Unpublished(e)' <= 1 + faults'
      BY DEF SendInv
    <2>2. /\ sent[e] \in Nat /\ faults \in Nat /\ sent' = sent /\ faults' = faults
          /\ sent[e] + Cardinality(Senders(e)) + Unpublished(e) <= 1 + faults
      BY <1>1 DEF SendInv, EnqueueAlertDispatch, rowVars
    <2>3. Cardinality(Senders(e)) \in Nat /\ IsFiniteSet(Senders(e))
      BY SendersFinite
    <2>4. Senders(e)' \subseteq Senders(e) \cup {Original(id)}
      BY <1>1 DEF EnqueueAlertDispatch, Senders, MaySend
    <2>5. Cardinality(Senders(e)') \in Nat
      BY <2>3, <2>4, FS_AddElement, FS_Subset, FS_CardinalityType
    <2>6. CASE e = id
      <3>1. Unpublished(e) = 1 /\ Unpublished(e)' = 0
        BY <1>1, <2>1, <2>6 DEF EnqueueAlertDispatch, Unpublished
      <3>2. Cardinality(Senders(e)') <= Cardinality(Senders(e)) + 1
        BY <2>3, <2>4, CountBounds
      <3> QED BY <2>2, <2>3, <2>5, <3>1, <3>2
    <2>7. CASE e # id
      <3>1. Unpublished(e)' = Unpublished(e) /\ Unpublished(e) \in Nat
        BY <1>1, <2>1, <2>7 DEF EnqueueAlertDispatch, Unpublished
      <3>2. Senders(e)' \subseteq Senders(e)
        BY <1>1, <2>1, <2>7 DEF EnqueueAlertDispatch, Senders, MaySend
      <3>3. Cardinality(Senders(e)') <= Cardinality(Senders(e))
        BY <2>3, <3>2, CountBounds
      <3> QED BY <2>2, <2>3, <2>5, <3>1, <3>3
    <2> QED BY <2>6, <2>7
  <1>2. CASE ~EnqueueAlertDispatch(v)
    <2>1. UNCHANGED <<sent, pc, answer>> /\ faults' \in Nat /\ faults <= faults'
      BY <1>2 DEF Evaluate, EvaluateStep, Suppress, Fire, CreateEvent, SetCooldown, Commit,
         Abort, Fault, EndTransaction, dispatchVars, rowVars, taskVars
    <2>2. \A e \in EventIds : Senders(e)' \subseteq Senders(e)
      BY <2>1 DEF Senders, MaySend
    <2>3. \A e \in EventIds : Unpublished(e)' = Unpublished(e)
      BY <2>1 DEF Unpublished
    <2> QED BY <2>1, <2>2, <2>3, NoNewSender
  <1> QED BY <1>1, <1>2

LEMMA QuietSend ==
  ASSUME CoreInv, SendInv, UNCHANGED <<sent, pc, answer, faults>>
  PROVE  SendInv'
  BY DEF SendInv, Senders, MaySend, Unpublished

LEMMA InitSend == Init => SendInv
  <1> SUFFICES ASSUME Init, NEW e \in EventIds
               PROVE  sent[e] + Cardinality(Senders(e)) + Unpublished(e) <= 1 + faults
    BY DEF SendInv
  <1> USE PairFacts DEF Init, DispatchInit
  <1>1. Senders(e) = {}
    BY DEF Senders, MaySend
  <1>2. Cardinality(Senders(e)) = 0
    BY <1>1, FS_EmptySet
  <1>3. sent[e] = 0 /\ faults = 0 /\ Unpublished(e) = 1
    BY DEF Unpublished
  <1> QED BY <1>2, <1>3

LEMMA NextSend == CoreInv /\ SendInv /\ [Next]_vars => SendInv'
  <1> SUFFICES ASSUME CoreInv, SendInv, [Next]_vars PROVE SendInv'
    OBVIOUS
  <1>1. ASSUME NEW v \in Evaluators, Evaluate(v) \/ EvaluateStep(v) \/ Abort(v)
        PROVE  SendInv'
    BY <1>1, EvaluatorSend
  <1>2. ASSUME NEW t \in Tasks, DispatchStep(t) \/ FaultStep(t), UNCHANGED evalVars
        PROVE  SendInv'
    BY <1>2, DispatchSend, FaultSend
  <1>3. CASE SettingsStep /\ UNCHANGED evalVars
    BY <1>3, QuietSend DEF SettingsStep, SetChannel, UpdateConfig, DeleteChannel,
       OnGuildChannelDelete, rowVars, taskVars
  <1>4. CASE (\E p \in Pairs : CooldownExpires(p)) \/ UNCHANGED vars
    BY <1>4, QuietSend DEF CooldownExpires, vars, dispatchVars, rowVars, taskVars
  <1> QED BY <1>1, <1>2, <1>3, <1>4 DEF Next
----------------------------------------------------------------------------
(* The inductive invariant: rows, task instances and transactions agree,   *)
(* and every post of an event is accounted for.                            *)
THEOREM DeliveryInvariant == Spec => []DeliveryInv
  <1>1. Init => CoreInv /\ SendInv
    BY InitCore, InitSend
  <1>2. CoreInv /\ SendInv /\ [Next]_vars => (CoreInv /\ SendInv)'
    BY NextCore, NextSend
  <1>3. CoreInv /\ SendInv => DeliveryInv
    BY DEF CoreInv, DeliveryInv
  <1> QED BY <1>1, <1>2, <1>3, PTL DEF Spec

(* Whatever crashes, is redelivered, raises or is answered: only committed *)
(* events are ever posted.                                                 *)
THEOREM OnlyStoredSent == Spec => []OnlyStoredEventsAreSent
  <1>1. TypeOK /\ DeliveryInv => OnlyStoredEventsAreSent
    BY DEF TypeOK, DispatchTypeOK, DeliveryInv, RowInv, OnlyStoredEventsAreSent
  <1> QED BY <1>1, TypeCorrect, DeliveryInvariant, PTL

(* A row says delivered only after a post. *)
THEOREM DeliveredPosted == Spec => []DeliveredWasPosted
  <1>1. DeliveryInv => DeliveredWasPosted
    BY DEF DeliveryInv, RowInv, DeliveredWasPosted
  <1> QED BY <1>1, DeliveryInvariant, PTL

(* No pending row has its attempts used up, with any number of workers on  *)
(* the same event.                                                         *)
THEOREM PendingAttempts == Spec => []PendingHasAttemptsLeft
  <1>1. DeliveryInv => PendingHasAttemptsLeft
    BY DEF DeliveryInv, RowInv, PendingHasAttemptsLeft
  <1> QED BY <1>1, DeliveryInvariant, PTL

(* An event is posted at most once more than there were faults. *)
THEOREM PostsBounded == Spec => []SendsBoundedByFaults
  <1>1. TypeOK /\ DeliveryInv => SendsBoundedByFaults
    <2> SUFFICES ASSUME TypeOK, DeliveryInv, NEW e \in EventIds
                 PROVE  sent[e] <= 1 + faults
      BY DEF SendsBoundedByFaults
    <2>1. sent[e] + Cardinality(Senders(e)) + Unpublished(e) <= 1 + faults
      BY DEF DeliveryInv, SendInv
    <2>2. sent[e] \in Nat /\ faults \in Nat /\ Unpublished(e) \in Nat
      BY DispatchAssumption DEF TypeOK, DispatchTypeOK, Unpublished
    <2> QED BY <2>1, <2>2, SendersFinite
  <1> QED BY <1>1, TypeCorrect, DeliveryInvariant, PTL

(* A committed event always had its task published. *)
THEOREM StoredEnqueued == Spec => []StoredEventWasEnqueued
  <1>1. DeliveryInv => StoredEventWasEnqueued
    BY DEF DeliveryInv
  <1> QED BY <1>1, DeliveryInvariant, PTL
============================================================================
