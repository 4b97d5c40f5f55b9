--------------------------- MODULE AlertDispatch ---------------------------
(***************************************************************************)
(* The consumer half of alert delivery: the Celery task alert.dispatch     *)
(* (app/workers/tasks/alert.py), the rows of alert_events it reads and     *)
(* writes, the channel settings it resolves, the Discord REST endpoint it  *)
(* posts to and the at-least-once broker that runs it.                     *)
(*                                                                         *)
(* A task instance is a pair <<e, c>>: copy c of the message that asks for *)
(* event e.  Copy 0 is the message the evaluator publishes; the others are *)
(* redeliveries of a message that is still being worked on.  _dispatch is  *)
(* split where it gives up control to another process: the read of the     *)
(* row, the HTTP call, the committed write, the acknowledgement.           *)
(*                                                                         *)
(* This module has no Init and Next: AlertPipeline composes its actions    *)
(* with the evaluator that creates the rows.                               *)
(***************************************************************************)
EXTENDS Integers, FiniteSets

CONSTANTS
  Watches,      \* rows of the table watches
  Rules,        \* the rule types: drop, threshold, restock
  Channels,     \* Discord channels of the guild
  NoChannel,    \* NULL in alert_channel_id and default_alert_channel_id
  MaxEvents,    \* bound: ids the sequence of alert_events hands out
  MaxCopies,    \* bound: redeliveries of one message beside the original
  MaxAttempts,  \* _MAX_ATTEMPTS: delivery attempts, and retries of a task
  Answers,      \* the outcomes of send_message that may happen
  FaultKinds,   \* the faults that may happen
  MaxFaults     \* bound: faults in one behaviour

EventIds == 1..MaxEvents
Copies   == 0..MaxCopies
Tasks    == EventIds \X Copies
Pairs    == Watches \X Rules

EventOf(t)  == t[1]
Original(e) == <<e, 0>>

MaybeChannel == Channels \cup {NoChannel}

(* DispatchStatus of the source, with two refinements: a 429 that names no *)
(* retry_after, and a network error whose request Discord did execute.     *)
DispatchStatus ==
  { "delivered", "rate_limited", "rate_limited_blind", "permission_denied",
    "channel_gone", "server_error", "network_error", "response_lost" }

ASSUME DispatchAssumption ==
  /\ Watches # {} /\ Rules # {}
  /\ MaxEvents \in Nat \ {0}
  /\ MaxCopies \in Nat
  /\ MaxAttempts \in Nat \ {0}
  /\ MaxFaults \in Nat
  /\ NoChannel \notin Channels
  /\ Answers \subseteq DispatchStatus

VARIABLES
  status,    \* delivery_status of each event, and what precedes the row
  pairOf,    \* <<watch, rule>> of each event
  attempts,  \* delivery_attempts of each event
  sent,      \* messages Discord has posted for each event
  pc,        \* where each task instance stands
  retries,   \* request.retries of each task instance
  seen,      \* delivery_attempts as _dispatch read it before it called Discord
  target,    \* the channel _dispatch resolved
  own,       \* watch.alert_channel_id as _dispatch read it
  answer,    \* the DispatchOutcome _dispatch got
  override,  \* watches.alert_channel_id
  default,   \* servers.default_alert_channel_id
  live,      \* channels that exist in Discord
  faults     \* faults so far

rowVars     == <<status, pairOf, attempts, sent>>
taskVars    == <<pc, retries, seen, target, own, answer>>
channelVars == <<override, default, live>>

(* "free": id not used; "open": flushed, not committed; "gone": rolled back *)
RowStatus == {"free", "open", "gone", "pending", "delivered", "failed"}
TaskState == {"none", "queued", "loaded", "answered", "committed", "done"}

Stored(e)  == status[e] \in {"pending", "delivered", "failed"}
Settled(e) == status[e] \in {"delivered", "failed"}
Running(t) == pc[t] \in {"loaded", "answered", "committed"}
Active(t)  == pc[t] = "queued" \/ Running(t)

SomePair   == CHOOSE p \in Pairs : TRUE
WatchOf(e) == pairOf[e][1]
NoAnswer   == "none"

DispatchTypeOK ==
  /\ status \in [EventIds -> RowStatus]
  /\ pairOf \in [EventIds -> Pairs]
  /\ attempts \in [EventIds -> 0..MaxAttempts]
  /\ sent \in [EventIds -> Nat]
  /\ pc \in [Tasks -> TaskState]
  /\ retries \in [Tasks -> 0..MaxAttempts]
  /\ seen \in [Tasks -> 0..MaxAttempts]
  /\ target \in [Tasks -> MaybeChannel]
  /\ own \in [Tasks -> MaybeChannel]
  /\ answer \in [Tasks -> DispatchStatus \cup {NoAnswer, "channel_missing"}]
  /\ override \in [Watches -> MaybeChannel]
  /\ default \in MaybeChannel
  /\ live \in SUBSET Channels
  /\ faults \in 0..MaxFaults

DispatchInit ==
  /\ status = [e \in EventIds |-> "free"]
  /\ pairOf = [e \in EventIds |-> SomePair]
  /\ attempts = [e \in EventIds |-> 0]
  /\ sent = [e \in EventIds |-> 0]
  /\ pc = [t \in Tasks |-> "none"]
  /\ retries = [t \in Tasks |-> 0]
  /\ seen = [t \in Tasks |-> 0]
  /\ target = [t \in Tasks |-> NoChannel]
  /\ own = [t \in Tasks |-> NoChannel]
  /\ answer = [t \in Tasks |-> NoAnswer]
  /\ override \in [Watches -> MaybeChannel]
  /\ default \in MaybeChannel
  /\ live = Channels
  /\ faults = 0
----------------------------------------------------------------------------
(* The session of t is closed: what it had read is forgotten. *)
Forget(t) ==
  /\ seen' = [seen EXCEPT ![t] = 0]
  /\ target' = [target EXCEPT ![t] = NoChannel]
  /\ own' = [own EXCEPT ![t] = NoChannel]

(* Variant of Finish: the message is handed back instead of acknowledged. *)
FinishByReject(t) ==
  /\ pc' = [pc EXCEPT ![t] = "queued"]
  /\ Forget(t)
  /\ answer' = [answer EXCEPT ![t] = NoAnswer]
  /\ retries' = [retries EXCEPT ![t] = 0]

(* The task instance stops: its message is acknowledged. *)
Finish(t) ==
  /\ pc' = [pc EXCEPT ![t] = "done"]
  /\ Forget(t)
  /\ answer' = [answer EXCEPT ![t] = NoAnswer]
  /\ retries' = [retries EXCEPT ![t] = 0]

(* The task instance goes back to the queue with r retries used. *)
Requeue(t, r) ==
  /\ pc' = [pc EXCEPT ![t] = "queued"]
  /\ retries' = [retries EXCEPT ![t] = r]
  /\ Forget(t)
  /\ answer' = [answer EXCEPT ![t] = NoAnswer]

(* Variant of Retry: no max_retries. *)
RetryForever(t) == Requeue(t, retries[t] + 1)

(* Celery's retry(): one more run unless max_retries are used up. *)
Retry(t) ==
  \/ retries[t] < MaxAttempts /\ Requeue(t, retries[t] + 1)
  \/ retries[t] >= MaxAttempts /\ Finish(t)

(* Variants of Dispatchable: uncommitted rows are visible; the status of   *)
(* the row is not looked at.                                               *)
DispatchableDirty(e)  == status[e] \in {"open", "pending"}
DispatchableAlways(e) == Stored(e)

(* The early returns of _dispatch let only committed, pending events pass. *)
Dispatchable(e) == status[e] = "pending"

(* The event is unknown to this session (its transaction has not committed *)
(* or was rolled back) or is not pending: return None, never retried.      *)
Ignore(t) ==
  /\ pc[t] = "queued"
  /\ ~Dispatchable(EventOf(t))
  /\ Finish(t)
  /\ UNCHANGED <<rowVars, channelVars, faults>>

(* watch.alert_channel_id or server.default_alert_channel_id *)
ChannelFor(w) == IF override[w] # NoChannel THEN override[w] ELSE default

(* Event, watch and server are read; the objects stay in the session. *)
Load(t) ==
  LET e == EventOf(t)
      w == WatchOf(e)
  IN  /\ pc[t] = "queued"
      /\ Dispatchable(e)
      /\ pc' = [pc EXCEPT ![t] = "loaded"]
      /\ seen' = [seen EXCEPT ![t] = attempts[e]]
      /\ target' = [target EXCEPT ![t] = ChannelFor(w)]
      /\ own' = [own EXCEPT ![t] = override[w]]
      /\ UNCHANGED <<rowVars, retries, answer, channelVars, faults>>

(* What Discord may answer for channel c.  A 404 says the channel is gone. *)
Answerable(a, c) ==
  /\ a \in {"delivered", "permission_denied", "response_lost"} => c \in live
  /\ a = "channel_gone" => c \notin live

Posts(a) == a \in {"delivered", "response_lost"}

(* send_message: one POST, mapped to a DispatchOutcome. *)
Send(t) ==
  /\ pc[t] = "loaded"
  /\ target[t] # NoChannel
  /\ \E a \in Answers :
       /\ Answerable(a, target[t])
       /\ answer' = [answer EXCEPT ![t] = a]
       /\ sent' = IF Posts(a) THEN [sent EXCEPT ![EventOf(t)] = @ + 1] ELSE sent
  /\ pc' = [pc EXCEPT ![t] = "answered"]
  /\ UNCHANGED <<status, pairOf, attempts, retries, seen, target, own, channelVars, faults>>
----------------------------------------------------------------------------
(* The committed write of each branch.  The attributes of the loaded event *)
(* are written by primary key, whatever the row holds by now.              *)
Committed(t) ==
  /\ pc' = [pc EXCEPT ![t] = "committed"]
  /\ Forget(t)
  /\ UNCHANGED <<pairOf, sent, retries, default, live, faults>>

(* Variant of OutOfAttempts: off by one. *)
OutOfAttemptsLate(n) == n > MaxAttempts

OutOfAttempts(n) == n >= MaxAttempts

BumpAttempt(t) ==
  LET e == EventOf(t)
      n == seen[t] + 1
  IN  /\ attempts' = [attempts EXCEPT ![e] = n]
      /\ status' = IF OutOfAttempts(n)
                     THEN [status EXCEPT ![e] = "failed"] ELSE status

MarkFailed(t) ==
  /\ status' = [status EXCEPT ![EventOf(t)] = "failed"]
  /\ attempts' = [attempts EXCEPT ![EventOf(t)] = seen[t] + 1]

(* UPDATE ... WHERE id = :id AND delivery_status = 'pending' *)
MarkDelivered(e) ==
  IF status[e] = "pending" THEN [status EXCEPT ![e] = "delivered"] ELSE status

FailMissing(t) ==
  /\ pc[t] = "loaded"
  /\ target[t] = NoChannel
  /\ MarkFailed(t)
  /\ answer' = [answer EXCEPT ![t] = "channel_missing"]
  /\ Committed(t)
  /\ UNCHANGED override

(* Variant of IsDelivered: any answer below 500 counts. *)
IsDeliveredBelow500(a) == a \in {"delivered", "rate_limited"}

(* 200 <= status < 300 *)
IsDelivered(a) == a = "delivered"

WriteDelivered(t) ==
  /\ pc[t] = "answered"
  /\ IsDelivered(answer[t])
  /\ status' = MarkDelivered(EventOf(t))
  /\ Committed(t)
  /\ UNCHANGED <<attempts, answer, override>>

(* rate_limited, server_error and network_error spend an attempt. *)
WriteAttempt(t) ==
  /\ pc[t] = "answered"
  /\ answer[t] \in {"rate_limited", "rate_limited_blind", "server_error",
                    "network_error", "response_lost"}
  /\ BumpAttempt(t)
  /\ Committed(t)
  /\ UNCHANGED <<answer, override>>

(* permission_denied and channel_gone are final; an override that was read *)
(* is cleared when its channel is gone.                                    *)
WriteRefused(t) ==
  LET w == WatchOf(EventOf(t))
  IN  /\ pc[t] = "answered"
      /\ answer[t] \in {"permission_denied", "channel_gone"}
      /\ MarkFailed(t)
      /\ override' =
           IF answer[t] = "channel_gone" /\ own[t] # NoChannel
             THEN [override EXCEPT ![w] = NoChannel] ELSE override
      /\ Committed(t)
      /\ UNCHANGED answer

(* Variants of Retried: a 429 is not retried; network errors are retried.  *)
RetriedNever(a)   == FALSE
RetriedOnError(a) == a \in {"rate_limited", "network_error", "response_lost"}

(* dispatch_task returns (acknowledged) or asks Celery for a retry.  The   *)
(* only outcome that is retried is a 429 that says how long to wait.       *)
Retried(a) == a = "rate_limited"

Acknowledge(t) ==
  /\ pc[t] = "committed"
  /\ ~Retried(answer[t])
  /\ Finish(t)
  /\ UNCHANGED <<rowVars, channelVars, faults>>

RetryLater(t) ==
  /\ pc[t] = "committed"
  /\ Retried(answer[t])
  /\ Retry(t)
  /\ UNCHANGED <<rowVars, channelVars, faults>>

DispatchStep(t) ==
  \/ Ignore(t) \/ Load(t) \/ Send(t)
  \/ FailMissing(t) \/ WriteDelivered(t) \/ WriteAttempt(t) \/ WriteRefused(t)
  \/ Acknowledge(t) \/ RetryLater(t)
----------------------------------------------------------------------------
(* Faults, at most MaxFaults of the kinds in FaultKinds. *)
Fault(kind) ==
  /\ kind \in FaultKinds
  /\ faults < MaxFaults
  /\ faults' = faults + 1

(* The worker dies with the message unacknowledged (task_acks_late); the   *)
(* broker delivers it again.                                               *)
Redeliver(t) ==
  /\ Fault("redeliver")
  /\ Running(t)
  /\ Requeue(t, retries[t])
  /\ UNCHANGED <<rowVars, channelVars>>

(* Only the pool process dies: the worker acknowledges for it and the      *)
(* message is lost (task_reject_on_worker_lost is not set).                *)
LoseTask(t) ==
  /\ Fault("lose")
  /\ Running(t)
  /\ Finish(t)
  /\ UNCHANGED <<rowVars, channelVars>>

(* An exception: the database or an unexpected reply raises before the     *)
(* commit and the session rolls back, or closing the runtime raises after  *)
(* it; autoretry_for=(Exception,) retries the task.                        *)
Raise(t) ==
  /\ Fault("raise")
  /\ Active(t)
  /\ Retry(t)
  /\ UNCHANGED <<rowVars, channelVars>>

(* The broker's visibility timeout passes while the worker is still busy:  *)
(* a second worker gets the same message.                                  *)
Duplicate(t) ==
  /\ Fault("duplicate")
  /\ Active(t)
  /\ \E u \in Tasks :
       /\ EventOf(u) = EventOf(t)
       /\ pc[u] = "none"
       /\ pc' = [pc EXCEPT ![u] = "queued"]
       /\ retries' = [retries EXCEPT ![u] = retries[t]]
  /\ UNCHANGED <<rowVars, seen, target, own, answer, channelVars>>

FaultStep(t) == Redeliver(t) \/ LoseTask(t) \/ Raise(t) \/ Duplicate(t)
----------------------------------------------------------------------------
(* The settings _dispatch resolves, and Discord itself. *)
SetChannel(w, c) ==
  /\ c \in live \cup {NoChannel}
  /\ override' = [override EXCEPT ![w] = c]
  /\ UNCHANGED <<rowVars, taskVars, default, live, faults>>

UpdateConfig(c) ==
  /\ c \in live \cup {NoChannel}
  /\ default' = c
  /\ UNCHANGED <<rowVars, taskVars, override, live, faults>>

DeleteChannel(c) ==
  /\ c \in live
  /\ live' = live \ {c}
  /\ UNCHANGED <<rowVars, taskVars, override, default, faults>>

(* The gateway event may come late, or never if the bot is offline. *)
OnGuildChannelDelete(c) ==
  /\ c \in Channels \ live
  /\ default' = IF default = c THEN NoChannel ELSE default
  /\ override' = [w \in Watches |->
                    IF override[w] = c THEN NoChannel ELSE override[w]]
  /\ UNCHANGED <<rowVars, taskVars, live, faults>>

SettingsStep ==
  \/ \E w \in Watches, c \in MaybeChannel : SetChannel(w, c)
  \/ \E c \in MaybeChannel : UpdateConfig(c)
  \/ \E c \in Channels : DeleteChannel(c)
  \/ \E c \in Channels : OnGuildChannelDelete(c)
============================================================================
