---------------------------- MODULE RedisCircuit ----------------------------
(***************************************************************************)
(* The circuit breaker of one domain as the scrape workers use it:         *)
(* RedisCircuitBreaker of app/scraper/circuit.py, called by                *)
(* TierRouter.scrape (app/scraper/router.py) before and after the request. *)
(* Its state is three Redis keys; every Redis command is a step, so the    *)
(* workers that scrape products of the same domain interleave inside the   *)
(* methods.  CircuitBreaker is what one of them alone should see.          *)
(***************************************************************************)
EXTENDS Integers

CONSTANTS
  Clients,     \* scrapes of this domain that may run at a time
  Threshold,   \* CIRCUIT_FAIL_THRESHOLD
  Initial,     \* CIRCUIT_OPEN_INITIAL_SECONDS, in ticks
  Longest,     \* CIRCUIT_OPEN_MAX_SECONDS, in ticks
  MaxCrashes   \* bound: scrapes that die halfway

ASSUME CircuitAssumption ==
  /\ Threshold \in Nat \ {0}
  /\ Initial \in Nat \ {0}
  /\ Longest \in Nat
  /\ Initial <= Longest
  /\ MaxCrashes \in Nat

VARIABLES
  fails,    \* circuit:<domain>:fails, 0 if it does not exist
  age,      \* ticks since circuit:<domain>:opened_at, or NotOpen
  timeout,  \* circuit:<domain>:timeout, or NoTimeout
  pc,       \* where each scrape stands
  since,    \* age of the opened_at that state() has read
  current,  \* the timeout that record_failure has read
  up,       \* the site serves pages a price can be extracted from
  crashes   \* scrapes that died so far

keys == <<fails, age, timeout>>
vars == <<fails, age, timeout, pc, since, current, up, crashes>>

NotOpen   == -1
NoTimeout == 0

ClientState ==
  {"idle", "opened", "fetch", "succeeded", "failed", "timed", "prolong",
   "reopen", "count", "open", "initial"}

TypeOK ==
  /\ fails \in 0..Threshold
  /\ age \in {NotOpen} \cup 0..Longest
  /\ timeout \in {NoTimeout} \cup Initial..Longest
  /\ pc \in [Clients -> ClientState]
  /\ since \in [Clients -> {NotOpen} \cup 0..Longest]
  /\ current \in [Clients -> Initial..Longest]
  /\ up \in BOOLEAN
  /\ crashes \in 0..MaxCrashes

Init ==
  /\ fails = 0 /\ age = NotOpen /\ timeout = NoTimeout
  /\ pc = [c \in Clients |-> "idle"]
  /\ since = [c \in Clients |-> NotOpen]
  /\ current = [c \in Clients |-> Initial]
  /\ up \in BOOLEAN
  /\ crashes = 0

(* Ages that no timeout can reach need no telling apart. *)
Older(a)   == IF a = NotOpen \/ a >= Longest THEN a ELSE a + 1

(* Variant of Doubled: no upper limit. *)
DoubledForever(t) == 2 * t

Doubled(t) == IF 2 * t < Longest THEN 2 * t ELSE Longest

(* GET timeout, or the default. *)
Timeout == IF timeout = NoTimeout THEN Initial ELSE timeout

Goto(c, s) == pc' = [pc EXCEPT ![c] = s]
----------------------------------------------------------------------------
(* state(): GET opened_at.  Without it the circuit is closed. *)
GetOpened(c) ==
  /\ pc[c] = "idle"
  /\ since' = [since EXCEPT ![c] = age]
  /\ Goto(c, IF age = NotOpen THEN "fetch" ELSE "opened")
  /\ UNCHANGED <<keys, current, up, crashes>>

(* state(): GET timeout.  half_open lets the scrape through, open does not *)
(* and the scrape returns circuit_open.                                    *)
GetTimeout(c) ==
  /\ pc[c] = "opened"
  /\ Goto(c, IF since[c] >= Timeout THEN "fetch" ELSE "idle")
  /\ since' = [since EXCEPT ![c] = NotOpen]
  /\ UNCHANGED <<keys, current, up, crashes>>

(* The request and the extraction, through all tiers. *)
Fetch(c) ==
  /\ pc[c] = "fetch"
  /\ Goto(c, IF up THEN "succeeded" ELSE "failed")
  /\ UNCHANGED <<keys, since, current, up, crashes>>

(* Variant of RecordSuccess: the key opened_at is kept. *)
RecordSuccessKeepsOpen(c) ==
  /\ pc[c] = "succeeded"
  /\ fails' = 0 /\ timeout' = NoTimeout
  /\ Goto(c, "idle")
  /\ UNCHANGED <<age, since, current, up, crashes>>

(* Variant of RecordSuccess: the key timeout is kept. *)
RecordSuccessKeepsTimeout(c) ==
  /\ pc[c] = "succeeded"
  /\ fails' = 0 /\ age' = NotOpen
  /\ Goto(c, "idle")
  /\ UNCHANGED <<timeout, since, current, up, crashes>>

(* record_success: one DEL of the three keys. *)
RecordSuccess(c) ==
  /\ pc[c] = "succeeded"
  /\ fails' = 0 /\ age' = NotOpen /\ timeout' = NoTimeout
  /\ Goto(c, "idle")
  /\ UNCHANGED <<since, current, up, crashes>>

(* record_failure: GET opened_at. *)
FailureGetOpened(c) ==
  /\ pc[c] = "failed"
  /\ Goto(c, IF age = NotOpen THEN "count" ELSE "timed")
  /\ UNCHANGED <<keys, since, current, up, crashes>>

(* An open circuit: GET timeout, SET timeout, SET opened_at. *)
FailureGetTimeout(c) ==
  /\ pc[c] = "timed"
  /\ current' = [current EXCEPT ![c] = Timeout]
  /\ Goto(c, "prolong")
  /\ UNCHANGED <<keys, since, up, crashes>>

SetTimeout(c) ==
  /\ pc[c] = "prolong"
  /\ timeout' = Doubled(current[c])
  /\ Goto(c, "reopen")
  /\ UNCHANGED <<fails, age, since, current, up, crashes>>

SetReopened(c) ==
  /\ pc[c] = "reopen"
  /\ age' = 0
  /\ Goto(c, "idle")
  /\ UNCHANGED <<fails, timeout, since, current, up, crashes>>

(* Variant of Reaches: one failure more than the threshold. *)
ReachesLate(n) == n > Threshold

Reaches(n) == n >= Threshold

(* A closed circuit: INCR fails, and at the threshold SET opened_at, SET   *)
(* timeout.  What exceeds the threshold needs no telling apart.            *)
Increment(c) ==
  /\ pc[c] = "count"
  /\ fails' = IF fails < Threshold THEN fails + 1 ELSE fails
  /\ Goto(c, IF Reaches(fails + 1) THEN "open" ELSE "idle")
  /\ UNCHANGED <<age, timeout, since, current, up, crashes>>

SetOpened(c) ==
  /\ pc[c] = "open"
  /\ age' = 0
  /\ Goto(c, "initial")
  /\ UNCHANGED <<fails, timeout, since, current, up, crashes>>

SetInitial(c) ==
  /\ pc[c] = "initial"
  /\ timeout' = Initial
  /\ Goto(c, "idle")
  /\ UNCHANGED <<fails, age, since, current, up, crashes>>

ClientStep(c) ==
  \/ GetOpened(c) \/ GetTimeout(c) \/ Fetch(c) \/ RecordSuccess(c)
  \/ FailureGetOpened(c) \/ FailureGetTimeout(c) \/ SetTimeout(c) \/ SetReopened(c)
  \/ Increment(c) \/ SetOpened(c) \/ SetInitial(c)

(* The worker dies, or Redis raises: the rest of the method is not done. *)
Crash(c) ==
  /\ pc[c] # "idle"
  /\ crashes < MaxCrashes
  /\ crashes' = crashes + 1
  /\ since' = [since EXCEPT ![c] = NotOpen]
  /\ Goto(c, "idle")
  /\ UNCHANGED <<keys, current, up>>

Tick ==
  /\ age' = Older(age)
  /\ since' = [c \in Clients |-> Older(since[c])]
  /\ UNCHANGED <<fails, timeout, pc, current, up, crashes>>

(* The site goes down, or comes back. *)
SiteChanges ==
  /\ up' = ~up
  /\ UNCHANGED <<keys, pc, since, current, crashes>>

Next ==
  \/ \E c \in Clients : ClientStep(c) \/ Crash(c)
  \/ Tick
  \/ SiteChanges

Spec == Init /\ [][Next]_vars

(* Products of the domain are scraped again and again; clocks run. *)
Fairness == (\A c \in Clients : WF_vars(ClientStep(c))) /\ WF_vars(Tick)

FairSpec == Spec /\ Fairness
----------------------------------------------------------------------------
(* Threshold failures always open the circuit, however the INCRs and SETs  *)
(* of the workers interleave: one of them is about to set opened_at, has   *)
(* done so, or has died.                                                   *)
ThresholdOpens ==
  fails = Threshold /\ age = NotOpen => crashes > 0 \/ \E c \in Clients : pc[c] = "open"

(* A site that is back for good gets its circuit closed for good, whatever *)
(* failures were still being recorded when it came back.                   *)
RecoversWithSite == <>[]up => <>[](age = NotOpen)

(* A scrape that was let through and has not reported yet. *)
Reporting(c) == pc[c] \in {"fetch", "succeeded", "failed", "timed", "prolong", "reopen",
                           "count", "open"}

(* One scrape at a time sees the breaker of the unit tests: a failure      *)
(* happens when opened_at is written, or with INCR below the threshold.    *)
Breaker == INSTANCE CircuitBreaker WITH
  busy    <- \E c \in Clients : Reporting(c),
  fails   <- IF \E c \in Clients : pc[c] = "open" THEN Threshold - 1 ELSE fails,
  timeout <- IF \E c \in Clients : pc[c] = "reopen"
               THEN current[CHOOSE c \in Clients : pc[c] = "reopen"] ELSE Timeout

(* While one scrape at a time uses the domain and none dies, the Redis     *)
(* breaker does what the unit tests check of the in-memory one: it lets a  *)
(* scrape through only when closed or half open, opens at the threshold,   *)
(* doubles up to the limit and closes on success.                          *)
ImplementsBreaker == Breaker!Spec
============================================================================
