--------------------------- MODULE CircuitBreaker ---------------------------
(***************************************************************************)
(* The circuit breaker of one domain as the unit tests know it:            *)
(* InMemoryCircuitBreaker of app/scraper/circuit.py, each method one step, *)
(* used by one scrape after the other (app/scraper/router.py).  It is the  *)
(* specification that RedisCircuit, the breaker of the workers, is held    *)
(* against.                                                                *)
(***************************************************************************)
EXTENDS Integers

(* As in RedisCircuit: natural numbers, 0 < Initial <= Longest. *)
CONSTANTS
  Threshold,  \* CIRCUIT_FAIL_THRESHOLD
  Initial,    \* CIRCUIT_OPEN_INITIAL_SECONDS, in ticks
  Longest     \* CIRCUIT_OPEN_MAX_SECONDS, in ticks

VARIABLES
  busy,     \* a scrape was let through and has not reported yet
  fails,    \* _fail_counts
  age,      \* ticks since _opened_at, or NotOpen
  timeout   \* _timeouts, Initial if there is none

breaker == <<busy, fails, age, timeout>>

NotOpen == -1

(* No timeout is longer than Longest: older ages need no telling apart. *)
Older(a) == IF a = NotOpen \/ a >= Longest THEN a ELSE a + 1

Doubled(t) == IF 2 * t < Longest THEN 2 * t ELSE Longest

(* state(): closed and half_open let every scrape through. *)
Lets(a, t) == a = NotOpen \/ a >= t

Init ==
  /\ busy = FALSE
  /\ fails = 0
  /\ age = NotOpen
  /\ timeout = Initial

Admit ==
  /\ ~busy
  /\ Lets(age, timeout)
  /\ busy' = TRUE
  /\ UNCHANGED <<fails, age, timeout>>

RecordSuccess ==
  /\ busy
  /\ busy' = FALSE
  /\ fails' = 0
  /\ age' = NotOpen
  /\ timeout' = Initial

(* A failed probe: wait twice as long, from now. *)
Prolong ==
  /\ busy
  /\ age # NotOpen
  /\ busy' = FALSE
  /\ timeout' = Doubled(timeout)
  /\ age' = 0
  /\ UNCHANGED fails

(* A failure of a closed circuit: the last of Threshold opens it. *)
Count ==
  /\ busy
  /\ age = NotOpen
  /\ busy' = FALSE
  /\ fails' = fails + 1
  /\ IF fails + 1 >= Threshold
       THEN age' = 0 /\ timeout' = Initial
       ELSE UNCHANGED <<age, timeout>>

Elapse ==
  /\ age' = Older(age)
  /\ UNCHANGED <<busy, fails, timeout>>

Next == Admit \/ RecordSuccess \/ Prolong \/ Count \/ Elapse

Spec == Init /\ [][Next]_breaker
============================================================================
