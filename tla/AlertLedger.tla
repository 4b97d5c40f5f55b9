---------------------------- MODULE AlertLedger ----------------------------
(***************************************************************************)
(* What the table alert_events promises whoever reads it, without workers, *)
(* queues and channels: an event appears with its transaction, collects    *)
(* attempts while it is pending, and ends delivered (after a post) or      *)
(* failed (refused, or out of attempts); both ends are final.              *)
(***************************************************************************)
EXTENDS Integers

CONSTANTS MaxEvents, MaxAttempts, MaxPosts

EventIds == 1..MaxEvents

VARIABLES status, attempts, sent

ledger == <<status, attempts, sent>>

Init ==
  /\ status = [e \in EventIds |-> "free"]
  /\ attempts = [e \in EventIds |-> 0]
  /\ sent = [e \in EventIds |-> 0]

Insert(e) ==
  /\ status[e] = "free"
  /\ status' = [status EXCEPT ![e] = "open"]
  /\ UNCHANGED <<attempts, sent>>

(* A transaction ends: its events appear together, or none ever does. *)
End(S, s) ==
  /\ \A e \in S : status[e] = "open"
  /\ status' = [e \in EventIds |-> IF e \in S THEN s ELSE status[e]]
  /\ UNCHANGED <<attempts, sent>>

Post(e) ==
  /\ status[e] = "pending"
  /\ sent[e] < MaxPosts
  /\ sent' = [sent EXCEPT ![e] = @ + 1]
  /\ UNCHANGED <<status, attempts>>

Deliver(e) ==
  /\ status[e] = "pending"
  /\ sent[e] > 0
  /\ status' = [status EXCEPT ![e] = "delivered"]
  /\ UNCHANGED <<attempts, sent>>

(* A failed attempt; the last one fails the event, a refusal does at once. *)
Attempt(e) ==
  /\ status[e] = "pending"
  /\ attempts' = [attempts EXCEPT ![e] = @ + 1]
  /\ \/ attempts[e] + 1 < MaxAttempts /\ UNCHANGED status
     \/ status' = [status EXCEPT ![e] = "failed"]
  /\ UNCHANGED sent

Next ==
  \/ \E e \in EventIds : Insert(e) \/ Post(e) \/ Deliver(e) \/ Attempt(e)
  \/ \E S \in SUBSET EventIds, s \in {"pending", "gone"} : End(S, s)

Spec == Init /\ [][Next]_ledger
============================================================================
