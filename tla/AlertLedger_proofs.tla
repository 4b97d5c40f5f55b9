------------------------- MODULE AlertLedger_proofs -------------------------
(***************************************************************************)
(* What AlertPipeline promises while some kind of fault is absent: without *)
(* duplicated messages the table of events implements AlertLedger, without *)
(* aborted evaluations a cooldown stands for an alert, and with one        *)
(* evaluation at a time no alert is created while its rule cools down.     *)
(***************************************************************************)
EXTENDS AlertPipeline_proofs

(* One instance of a task runs: it is the original message, and what it    *)
(* read of its event still holds when it writes.                           *)
SoleInv ==
  \A t \in Tasks :
    /\ t # Original(EventOf(t)) => pc[t] = "none"
    /\ pc[t] \in {"loaded", "answered"} =>
         status[EventOf(t)] = "pending" /\ seen[t] = attempts[EventOf(t)]

LEMMA TaskIdentity ==
  \A t, u \in Tasks : t = Original(EventOf(t)) /\ u = Original(EventOf(u)) /\ t # u
                        => EventOf(t) # EventOf(u)
  BY DEF Original, EventOf

LEMMA InitSole == Init => SoleInv
  BY DEF Init, DispatchInit, SoleInv

(* The steps of the one instance of a task. *)
LEMMA TaskSole ==
  ASSUME CoreInv, SoleInv, "duplicate" \notin FaultKinds,
         NEW t \in Tasks, DispatchStep(t) \/ FaultStep(t)
  PROVE  SoleInv'
  <1> USE DispatchAssumption, PairFacts DEF CoreInv, TypeOK, DispatchTypeOK
  <1>1. t = Original(EventOf(t)) /\ pc[t] # "none"
    BY DEF SoleInv, DispatchStep, FaultStep, Ignore, Load, Send, FailMissing, WriteDelivered,
       WriteAttempt, WriteRefused, Acknowledge, RetryLater, Redeliver, LoseTask, Raise,
       Duplicate, Fault, Active, Running
  <1>2. \A u \in Tasks : u # t => pc'[u] = pc[u] /\ seen'[u] = seen[u]
    BY DEF DispatchStep, FaultStep, Ignore, Load, Send, FailMissing, WriteDelivered,
       WriteAttempt, WriteRefused, Acknowledge, RetryLater, Redeliver, LoseTask, Raise,
       Duplicate, Fault, Finish, Requeue, Retry, Committed, Forget
  <1>3. \A e \in EventIds : e # EventOf(t) =>
          status'[e] = status[e] /\ attempts'[e] = attempts[e]
    BY DEF DispatchStep, FaultStep, Ignore, Load, Send, FailMissing, WriteDelivered,
       WriteAttempt, WriteRefused, Acknowledge, RetryLater, Redeliver, LoseTask, Raise,
       Duplicate, Fault, MarkFailed, MarkDelivered, BumpAttempt, rowVars
  <1>4. pc'[t] \in {"loaded", "answered"} =>
          status'[EventOf(t)] = "pending" /\ seen'[t] = attempts'[EventOf(t)]
    BY DEF SoleInv, DispatchStep, FaultStep, Ignore, Load, Send, FailMissing, WriteDelivered,
       WriteAttempt, WriteRefused, Acknowledge, RetryLater, Redeliver, LoseTask, Raise,
       Duplicate, Fault, Finish, Requeue, Retry, Committed, Dispatchable, rowVars
  <1>5. SUFFICES ASSUME NEW u \in Tasks
                 PROVE  /\ u # Original(EventOf(u)) => pc'[u] = "none"
                        /\ pc'[u] \in {"loaded", "answered"} =>
                             /\ status'[EventOf(u)] = "pending"
                             /\ seen'[u] = attempts'[EventOf(u)]
    BY DEF SoleInv
  <1>6. CASE u = t
    BY <1>1, <1>4, <1>6
  <1>7. CASE u # t
    <2>1. pc[u] # "none" => EventOf(u) # EventOf(t)
      BY <1>1, <1>7, TaskIdentity DEF SoleInv
    <2> QED BY <1>2, <1>3, <1>7, <2>1 DEF SoleInv
  <1> QED BY <1>6, <1>7

LEMMA NextSole ==
  ASSUME CoreInv, SoleInv, "duplicate" \notin FaultKinds, [Next]_vars
  PROVE  SoleInv'
  <1> USE DispatchAssumption, PairFacts DEF CoreInv, TypeOK, DispatchTypeOK
  <1>1. ASSUME NEW v \in Evaluators, Evaluate(v) \/ EvaluateStep(v) \/ Abort(v)
        PROVE  SoleInv'
    <2>1. CASE CreateEvent(v)
      <3>1. status[nextId] = "free" /\ pc' = pc /\ seen' = seen /\ attempts' = attempts
        BY <2>1 DEF CreateEvent, RowInv, taskVars
      <3>2. \A e \in EventIds : status[e] = "pending" => status'[e] = "pending"
        BY <2>1, <3>1 DEF CreateEvent
      <3> QED BY <3>1, <3>2 DEF SoleInv
    <2>2. CASE EnqueueAlertDispatch(v)
      <3>1. /\ inserted[v] \in EventIds /\ pc[Original(inserted[v])] = "none"
            /\ UNCHANGED <<status, attempts, seen>>
            /\ pc' = [pc EXCEPT ![Original(inserted[v])] = "queued"]
        BY <2>2 DEF EnqueueAlertDispatch, TransactionInv, rowVars
      <3> QED BY <3>1 DEF SoleInv
    <2>3. CASE Commit(v) \/ Abort(v)
      <3>1. /\ UNCHANGED <<pc, seen, attempts>>
            /\ \A e \in EventIds : e \notin mine[v] => status'[e] = status[e]
        BY <2>3 DEF Commit, Abort, EndTransaction, taskVars
      <3>2. \A e \in mine[v] : status[e] = "open"
        BY DEF TransactionInv
      <3> QED BY <3>1, <3>2 DEF SoleInv
    <2>4. CASE Evaluate(v) \/ Suppress(v) \/ Fire(v) \/ SetCooldown(v)
      BY <2>4 DEF Evaluate, Suppress, Fire, SetCooldown, dispatchVars, rowVars, taskVars,
         SoleInv
    <2> QED BY <1>1, <2>1, <2>2, <2>3, <2>4 DEF EvaluateStep
  <1>2. ASSUME NEW t \in Tasks, DispatchStep(t) \/ FaultStep(t) PROVE SoleInv'
    BY <1>2, TaskSole
  <1>3. CASE SettingsStep
    BY <1>3 DEF SettingsStep, SetChannel, UpdateConfig, DeleteChannel,
       OnGuildChannelDelete, rowVars, taskVars, SoleInv
  <1>4. CASE (\E p \in Pairs : CooldownExpires(p)) \/ UNCHANGED vars
    BY <1>4 DEF CooldownExpires, vars, dispatchVars, rowVars, taskVars, SoleInv
  <1> QED BY <1>1, <1>2, <1>3, <1>4 DEF Next
----------------------------------------------------------------------------
(* The refinement: what each step does to the ledger. *)
LEMMA Quiet ==
  UNCHANGED <<status, attempts, sent>> => [Ledger!Next]_(Ledger!ledger)
  BY DEF Ledger!ledger

LEMMA SendLedger ==
  ASSUME CoreInv, SendInv, SoleInv, NEW t \in Tasks, Send(t)
  PROVE  [Ledger!Next]_(Ledger!ledger)
  <1> USE DispatchAssumption, PairFacts DEF CoreInv, TypeOK, DispatchTypeOK
  <1> DEFINE e == EventOf(t)
  <1>1. CASE UNCHANGED sent
    BY <1>1, Quiet DEF Send
  <1>2. CASE ~ UNCHANGED sent
    <2>1. UNCHANGED <<status, attempts>> /\ sent' = [sent EXCEPT ![e] = @ + 1]
      BY <1>2 DEF Send
    <2>2. status[e] = "pending"
      BY DEF Send, SoleInv
    <2>3. sent[e] < 1 + MaxFaults
      <3>1. t \in Senders(e)
        BY DEF Send, Senders, MaySend
      <3>2. Cardinality(Senders(e)) >= 1
        <4>1. {} \subseteq Senders(e) \ {t} /\ Cardinality({}) = 0
          BY FS_EmptySet
        <4> QED BY <3>1, <4>1, SendersFinite, CountBounds
      <3>3. sent[e] + Cardinality(Senders(e)) + Unpublished(e) <= 1 + faults
        BY DEF SendInv
      <3>4. sent[e] \in Nat /\ Unpublished(e) \in Nat /\ faults <= MaxFaults
        BY DEF Unpublished
      <3> QED BY <3>2, <3>3, <3>4, SendersFinite
    <2>4. Ledger!Post(e)
      BY <2>1, <2>2, <2>3 DEF Ledger!Post
    <2> QED BY <2>4 DEF Ledger!Next, Ledger!EventIds, EventIds
  <1> QED BY <1>1, <1>2

LEMMA WriteLedger ==
  ASSUME CoreInv, SoleInv, NEW t \in Tasks,
         FailMissing(t) \/ WriteDelivered(t) \/ WriteAttempt(t) \/ WriteRefused(t)
  PROVE  [Ledger!Next]_(Ledger!ledger)
  <1> USE DispatchAssumption, PairFacts DEF CoreInv, TypeOK, DispatchTypeOK
  <1> DEFINE e == EventOf(t)
  <1>1. status[e] = "pending" /\ seen[t] = attempts[e] /\ UNCHANGED sent
    BY DEF SoleInv, FailMissing, WriteDelivered, WriteAttempt, WriteRefused, Committed
  <1>2. CASE WriteDelivered(t)
    <2>1. sent[e] > 0
      BY <1>2 DEF WriteDelivered, TaskInv
    <2>2. Ledger!Deliver(e)
      BY <1>1, <1>2, <2>1 DEF WriteDelivered, MarkDelivered, Ledger!Deliver
    <2> QED BY <2>2 DEF Ledger!Next, Ledger!EventIds, EventIds
  <1>3. CASE ~WriteDelivered(t)
    <2>1. Ledger!Attempt(e)
      BY <1>1, <1>3 DEF FailMissing, WriteAttempt, WriteRefused, MarkFailed, BumpAttempt,
         OutOfAttempts, Ledger!Attempt
    <2> QED BY <2>1 DEF Ledger!Next, Ledger!EventIds, EventIds
  <1> QED BY <1>2, <1>3

LEMMA TaskLedger ==
  ASSUME CoreInv, SendInv, SoleInv, NEW t \in Tasks, DispatchStep(t) \/ FaultStep(t)
  PROVE  [Ledger!Next]_(Ledger!ledger)
  <1>1. CASE Send(t)
    BY <1>1, SendLedger
  <1>2. CASE FailMissing(t) \/ WriteDelivered(t) \/ WriteAttempt(t) \/ WriteRefused(t)
    BY <1>2, WriteLedger
  <1>3. CASE Ignore(t) \/ Load(t) \/ Acknowledge(t) \/ RetryLater(t) \/ FaultStep(t)
    BY <1>3, Quiet DEF Ignore, Load, Acknowledge, RetryLater, FaultStep, Redeliver, LoseTask,
       Raise, Duplicate, rowVars
  <1> QED BY <1>1, <1>2, <1>3 DEF DispatchStep

LEMMA EvaluatorLedger ==
  ASSUME CoreInv, NEW v \in Evaluators, Evaluate(v) \/ EvaluateStep(v) \/ Abort(v)
  PROVE  [Ledger!Next]_(Ledger!ledger)
  <1> USE DispatchAssumption, PairFacts DEF CoreInv, TypeOK, DispatchTypeOK
  <1>1. CASE CreateEvent(v)
    <2>1. nextId \in EventIds /\ status[nextId] = "free"
      BY <1>1 DEF CreateEvent, RowInv
    <2>2. Ledger!Insert(nextId)
      BY <1>1, <2>1 DEF CreateEvent, Ledger!Insert
    <2> QED BY <2>1, <2>2 DEF Ledger!Next, Ledger!EventIds, EventIds
  <1>2. ASSUME NEW s \in {"pending", "gone"}, EndTransaction(v, s)
        PROVE  [Ledger!Next]_(Ledger!ledger)
    <2>1. mine[v] \subseteq EventIds /\ \A e \in mine[v] : status[e] = "open"
      BY DEF TransactionInv
    <2>2. Ledger!End(mine[v], s)
      BY <1>2, <2>1 DEF EndTransaction, Ledger!End, Ledger!EventIds, EventIds
    <2> QED BY <2>1, <2>2 DEF Ledger!Next, Ledger!EventIds, EventIds
  <1>3. CASE Commit(v) \/ Abort(v)
    BY <1>2, <1>3 DEF Commit, Abort
  <1>4. CASE Evaluate(v) \/ Suppress(v) \/ Fire(v) \/ SetCooldown(v)
             \/ EnqueueAlertDispatch(v)
    BY <1>4, Quiet DEF Evaluate, Suppress, Fire, SetCooldown, EnqueueAlertDispatch,
       dispatchVars, rowVars
  <1> QED BY <1>1, <1>3, <1>4 DEF EvaluateStep

LEMMA LedgerStep ==
  ASSUME CoreInv, SendInv, SoleInv, [Next]_vars
  PROVE  [Ledger!Next]_(Ledger!ledger)
  <1>1. CASE SettingsStep \/ (\E p \in Pairs : CooldownExpires(p)) \/ UNCHANGED vars
    BY <1>1, Quiet DEF SettingsStep, SetChannel, UpdateConfig, DeleteChannel,
       OnGuildChannelDelete, CooldownExpires, vars, dispatchVars, rowVars
  <1> QED BY <1>1, TaskLedger, EvaluatorLedger DEF Next

(* While the broker hands every message to one worker at a time, the table *)
(* of events behaves like AlertLedger, through crashes, lost messages,     *)
(* exceptions, retries and aborted evaluations.                            *)
THEOREM LedgerImplemented ==
  ASSUME "duplicate" \notin FaultKinds PROVE Spec => ImplementsLedger
  <1>1. Init => CoreInv /\ SendInv /\ SoleInv
    BY InitCore, InitSend, InitSole
  <1>2. CoreInv /\ SendInv /\ SoleInv /\ [Next]_vars => (CoreInv /\ SendInv /\ SoleInv)'
    BY NextCore, NextSend, NextSole
  <1>3. Init => Ledger!Init
    BY DEF Init, DispatchInit, Ledger!Init, Ledger!EventIds, EventIds
  <1>4. CoreInv /\ SendInv /\ SoleInv /\ [Next]_vars => [Ledger!Next]_(Ledger!ledger)
    BY LedgerStep
  <1> QED BY <1>1, <1>2, <1>3, <1>4, PTL DEF Spec, ImplementsLedger, Ledger!Spec
(* Both ends of an event are final, and attempts are never taken back.     *)
THEOREM SettledFinal ==
  ASSUME "duplicate" \notin FaultKinds PROVE Spec => SettledIsFinal
  <1> DEFINE Kept == \A e \in EventIds : /\ Settled(e) => status'[e] = status[e]
                                         /\ attempts'[e] >= attempts[e]
  <1>1. Init => CoreInv /\ SendInv /\ SoleInv
    BY InitCore, InitSend, InitSole
  <1>2. CoreInv /\ SendInv /\ SoleInv /\ [Next]_vars => (CoreInv /\ SendInv /\ SoleInv)'
    BY NextCore, NextSend, NextSole
  <1>3. CoreInv /\ SendInv /\ SoleInv /\ [Next]_vars => Kept
    <2> SUFFICES ASSUME CoreInv, SendInv, SoleInv, [Next]_vars, NEW e \in EventIds
                 PROVE  /\ Settled(e) => status'[e] = status[e]
                        /\ attempts'[e] >= attempts[e]
      OBVIOUS
    <2>1. [Ledger!Next]_(Ledger!ledger)
      BY LedgerStep
    <2>2. attempts[e] \in Nat
      BY DispatchAssumption DEF CoreInv, TypeOK, DispatchTypeOK
    <2>3. status \in [EventIds -> RowStatus] /\ attempts \in [EventIds -> Nat]
      BY DispatchAssumption DEF CoreInv, TypeOK, DispatchTypeOK
    <2>4. ASSUME NEW f \in EventIds,
                 Ledger!Insert(f) \/ Ledger!Post(f) \/ Ledger!Deliver(f) \/ Ledger!Attempt(f)
          PROVE  (Settled(e) => status'[e] = status[e]) /\ attempts'[e] >= attempts[e]
      BY <2>2, <2>3, <2>4 DEF Ledger!Insert, Ledger!Post, Ledger!Deliver, Ledger!Attempt,
         Settled
    <2>5. ASSUME NEW S \in SUBSET EventIds, NEW s, Ledger!End(S, s)
          PROVE  (Settled(e) => status'[e] = status[e]) /\ attempts'[e] >= attempts[e]
      BY <2>2, <2>3, <2>5 DEF Ledger!End, Ledger!EventIds, EventIds, Settled
    <2>6. CASE UNCHANGED Ledger!ledger
      BY <2>2, <2>6 DEF Ledger!ledger
    <2> QED BY <2>1, <2>4, <2>5, <2>6 DEF Ledger!Next, Ledger!EventIds, EventIds
  <1>4. CoreInv /\ SendInv /\ SoleInv /\ [Next]_vars => [Kept]_vars
    BY <1>3
  <1>5. Spec => [][Kept]_vars
    BY <1>1, <1>2, <1>4, PTL DEF Spec
  <1> QED BY <1>5 DEF SettledIsFinal
----------------------------------------------------------------------------
(* Cooldowns.  An evaluation about to set one has inserted the event.      *)
CoolInv ==
  /\ CooldownHasAlert
  /\ \A v \in Evaluators : epc[v] = "cool" => pairOf[inserted[v]] = firing[v]

Shown(e) == Stored(e) \/ status[e] = "open"

(* As long as nothing is rolled back, an event that is shown stays shown,  *)
(* and of the same pair.                                                   *)
LEMMA ShownStays ==
  ASSUME CoreInv, [Next]_vars, "abort" \notin FaultKinds, NEW e \in EventIds, Shown(e)
  PROVE  Shown(e)' /\ pairOf'[e] = pairOf[e]
  <1> USE DispatchAssumption, PairFacts DEF CoreInv, TypeOK, DispatchTypeOK
  <1>1. ASSUME NEW v \in Evaluators, Evaluate(v) \/ EvaluateStep(v) \/ Abort(v)
        PROVE  Shown(e)' /\ pairOf'[e] = pairOf[e]
    <2>1. CASE CreateEvent(v)
      BY <2>1 DEF CreateEvent, RowInv, Shown, Stored
    <2>2. CASE ~CreateEvent(v)
      BY <1>1, <2>2 DEF Evaluate, EvaluateStep, Suppress, Fire, SetCooldown, Commit, Abort,
         Fault, EndTransaction, EnqueueAlertDispatch, dispatchVars, rowVars, Shown, Stored
    <2> QED BY <2>1, <2>2
  <1>2. ASSUME NEW t \in Tasks, DispatchStep(t) \/ FaultStep(t)
        PROVE  Shown(e)' /\ pairOf'[e] = pairOf[e]
    BY <1>2 DEF DispatchStep, FaultStep, Ignore, Load, Send, FailMissing, WriteDelivered,
       WriteAttempt, WriteRefused, Acknowledge, RetryLater, Redeliver, LoseTask, Raise,
       Duplicate, MarkFailed, MarkDelivered, BumpAttempt, Committed, rowVars, Shown, Stored
  <1>3. CASE SettingsStep \/ (\E p \in Pairs : CooldownExpires(p)) \/ UNCHANGED vars
    BY <1>3 DEF SettingsStep, SetChannel, UpdateConfig, DeleteChannel,
       OnGuildChannelDelete, CooldownExpires, vars, dispatchVars, rowVars, Shown, Stored
  <1> QED BY <1>1, <1>2, <1>3 DEF Next

LEMMA NextCool ==
  ASSUME CoreInv, CoolInv, [Next]_vars, "abort" \notin FaultKinds
  PROVE  CoolInv'
  <1> USE DispatchAssumption, PairFacts DEF CoreInv, TypeOK, DispatchTypeOK
  <1>1. \A v \in Evaluators : epc[v] = "cool" =>
          inserted[v] \in EventIds /\ Shown(inserted[v])
    BY DEF TransactionInv, Shown
  <1>2. ASSUME NEW p \in cooling'
        PROVE  \E e \in EventIds : pairOf'[e] = p /\ Shown(e)'
    <2>1. CASE p \in cooling
      <3>1. PICK e \in EventIds : pairOf[e] = p /\ Shown(e)
        BY <2>1 DEF CoolInv, CooldownHasAlert, Shown
      <3> QED BY <3>1, ShownStays
    <2>2. CASE p \notin cooling
      <3>1. PICK v \in Evaluators : SetCooldown(v)
        BY <1>2, <2>2 DEF Next, Evaluate, EvaluateStep, Suppress, Fire, CreateEvent, Commit,
           Abort, EndTransaction, EnqueueAlertDispatch, SettingsStep, SetChannel,
           UpdateConfig, DeleteChannel, OnGuildChannelDelete, CooldownExpires, vars,
           evalVars
      <3>2. epc[v] = "cool" /\ p = firing[v]
        BY <1>2, <2>2, <3>1 DEF SetCooldown
      <3>3. pairOf[inserted[v]] = p
        BY <3>2 DEF CoolInv
      <3> QED BY <1>1, <3>2, <3>3, ShownStays
    <2> QED BY <2>1, <2>2
  <1>3. ASSUME NEW v \in Evaluators, epc'[v] = "cool"
        PROVE  pairOf'[inserted'[v]] = firing'[v]
    <2>1. CASE CreateEvent(v)
      BY <2>1 DEF CreateEvent
    <2>2. CASE ~CreateEvent(v)
      <3>1. epc[v] = "cool" /\ inserted'[v] = inserted[v] /\ firing'[v] = firing[v]
        BY <1>3, <2>2 DEF Next, Evaluate, EvaluateStep, Suppress, Fire, CreateEvent,
           SetCooldown, Commit, Abort, EndTransaction, EnqueueAlertDispatch,
           CooldownExpires, vars, evalVars
      <3> QED BY <1>1, <3>1, ShownStays DEF CoolInv
    <2> QED BY <2>1, <2>2
  <1> QED BY <1>2, <1>3 DEF CoolInv, CooldownHasAlert, Shown, Stored

(* While no evaluation fails, a cooldown suppresses repeats only.          *)
THEOREM CooldownAlerts ==
  ASSUME "abort" \notin FaultKinds PROVE Spec => []CooldownHasAlert
  <1>1. Init => CoreInv /\ CoolInv
    BY InitCore DEF Init, CoolInv, CooldownHasAlert
  <1>2. CoreInv /\ CoolInv /\ [Next]_vars => (CoreInv /\ CoolInv)'
    BY NextCore, NextCool
  <1> QED BY <1>1, <1>2, PTL DEF Spec, CoolInv

(* With one evaluation at a time, what is_cooling answered is still true   *)
(* when the event is inserted.                                             *)
THEOREM NoCoolingAlert ==
  ASSUME NEW v, Evaluators = {v} PROVE Spec => NoAlertWhileCooling
  <1> DEFINE Fresh == epc[v] = "create" => firing[v] \notin cooling
             Warm  == \A e \in EventIds :
                        status[e] = "free" /\ status'[e] = "open" => pairOf'[e] \notin cooling
  <1> USE DispatchAssumption, PairFacts DEF CoreInv, TypeOK, DispatchTypeOK
  <1>1. Init => CoreInv /\ Fresh
    BY InitCore DEF Init
  <1>2. CoreInv /\ Fresh /\ [Next]_vars => Fresh'
    BY DEF Next, Evaluate, EvaluateStep, Suppress, Fire, CreateEvent, SetCooldown, Commit,
       Abort, EndTransaction, EnqueueAlertDispatch, CooldownExpires, vars, evalVars
  <1>3. CoreInv /\ Fresh /\ [Next]_vars => Warm
    <2> SUFFICES ASSUME CoreInv, Fresh, [Next]_vars, NEW e \in EventIds,
                        status[e] = "free", status'[e] = "open"
                 PROVE  pairOf'[e] \notin cooling
      OBVIOUS
    <2>1. CASE CreateEvent(v)
      BY <2>1 DEF CreateEvent
    <2>2. CASE ~CreateEvent(v)
      <3>1. \A t \in Tasks : ~DispatchStep(t) /\ ~FaultStep(t)
        BY DEF DispatchStep, FaultStep, Ignore, Load, Send, FailMissing, WriteDelivered,
           WriteAttempt, WriteRefused, Acknowledge, RetryLater, Redeliver, LoseTask, Raise,
           Duplicate, MarkFailed, MarkDelivered, BumpAttempt, Committed, rowVars
      <3> QED BY <2>2, <3>1 DEF Next, Evaluate, EvaluateStep, Suppress, Fire, SetCooldown,
                 Commit, Abort, EndTransaction, EnqueueAlertDispatch, SettingsStep,
                 SetChannel, UpdateConfig, DeleteChannel, OnGuildChannelDelete,
                 CooldownExpires, vars, dispatchVars, rowVars
    <2> QED BY <2>1, <2>2
  <1>4. CoreInv /\ Fresh /\ [Next]_vars => [Warm]_vars
    BY <1>3
  <1>5. CoreInv /\ Fresh /\ [Next]_vars => (CoreInv /\ Fresh)'
    BY <1>2, NextCore
  <1>6. Spec => [][Warm]_vars
    BY <1>1, <1>4, <1>5, PTL DEF Spec
  <1> QED BY <1>6 DEF NoAlertWhileCooling
=============================================================================
