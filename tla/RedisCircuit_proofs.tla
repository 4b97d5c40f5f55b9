------------------------ MODULE RedisCircuit_proofs ------------------------
(***************************************************************************)
(* What holds of RedisCircuit for any number of workers, thresholds and    *)
(* timeouts; and that one scrape at a time sees exactly CircuitBreaker.    *)
(***************************************************************************)
EXTENDS RedisCircuit, TLAPS

(* A doubled timeout stays within its bounds. *)
LEMMA DoubledType ==
  ASSUME NEW t \in Initial..Longest
  PROVE  Doubled(t) \in Initial..Longest
  BY CircuitAssumption DEF Doubled

(* Ages stay ages, and time neither opens nor closes a circuit. *)
LEMMA OlderType ==
  ASSUME NEW a \in {NotOpen} \cup 0..Longest
  PROVE  /\ Older(a) \in {NotOpen} \cup 0..Longest
         /\ Older(a) = NotOpen <=> a = NotOpen
         /\ a # NotOpen => Older(a) >= a
  BY CircuitAssumption DEF Older, NotOpen

(* Timeouts and locals stay within bounds under every step. *)
LEMMA TypeStep == TypeOK /\ [Next]_vars => TypeOK'
<1> SUFFICES ASSUME TypeOK, [Next]_vars PROVE TypeOK'
  OBVIOUS
<1> USE CircuitAssumption DEF TypeOK, ClientState, keys
<1>1. ASSUME NEW c \in Clients, ClientStep(c) PROVE TypeOK'
  <2> USE DEF Goto
  <2>1. CASE GetOpened(c)
    BY <2>1 DEF GetOpened
  <2>2. CASE GetTimeout(c)
    BY <2>2 DEF GetTimeout
  <2>3. CASE Fetch(c)
    BY <2>3 DEF Fetch
  <2>4. CASE RecordSuccess(c)
    BY <2>4 DEF RecordSuccess
  <2>5. CASE FailureGetOpened(c)
    BY <2>5 DEF FailureGetOpened
  <2>6. CASE FailureGetTimeout(c)
    <3>1. Timeout \in Initial..Longest
      BY DEF Timeout
    <3> QED
      BY <2>6, <3>1 DEF FailureGetTimeout
  <2>7. CASE SetTimeout(c)
    <3>1. Doubled(current[c]) \in Initial..Longest
      BY DoubledType
    <3> QED
      BY <2>7, <3>1 DEF SetTimeout
  <2>8. CASE SetReopened(c)
    BY <2>8 DEF SetReopened
  <2>9. CASE Increment(c)
    BY <2>9 DEF Increment
  <2>10. CASE SetOpened(c)
    BY <2>10 DEF SetOpened
  <2>11. CASE SetInitial(c)
    BY <2>11 DEF SetInitial
  <2> QED
    BY <1>1, <2>1, <2>2, <2>3, <2>4, <2>5, <2>6, <2>7, <2>8, <2>9, <2>10, <2>11 DEF ClientStep
<1>2. ASSUME NEW c \in Clients, Crash(c) PROVE TypeOK'
  BY <1>2 DEF Crash, Goto
<1>3. CASE Tick
  <2>1. age' \in {NotOpen} \cup 0..Longest
    BY <1>3, OlderType DEF Tick
  <2>2. since' \in [Clients -> {NotOpen} \cup 0..Longest]
    BY <1>3, OlderType DEF Tick
  <2> QED
    BY <1>3, <2>1, <2>2 DEF Tick
<1>4. CASE SiteChanges
  BY <1>4 DEF SiteChanges
<1>5. CASE UNCHANGED vars
  BY <1>5 DEF vars
<1> QED
  BY <1>1, <1>2, <1>3, <1>4, <1>5 DEF Next

(* Every key and every local value of a scrape keeps its type: no sequence *)
(* of interleaved writes takes a timeout out of its bounds.                *)
THEOREM TypeCorrect == Spec => []TypeOK
<1>1. Init => TypeOK
  BY CircuitAssumption DEF Init, TypeOK, ClientState
<1> QED
  BY <1>1, TypeStep, PTL DEF Spec

(* One step keeps ThresholdOpens. *)
LEMMA ThresholdStep == TypeOK /\ ThresholdOpens /\ [Next]_vars => ThresholdOpens'
<1> SUFFICES ASSUME TypeOK, ThresholdOpens, [Next]_vars, fails' = Threshold, age' = NotOpen,
                    ~(crashes' > 0)
             PROVE  \E c \in Clients : pc'[c] = "open"
  BY DEF ThresholdOpens
<1> USE CircuitAssumption DEF TypeOK, keys, NotOpen
<1>1. ASSUME NEW c \in Clients, ClientStep(c) PROVE \E d \in Clients : pc'[d] = "open"
  <2>1. ~RecordSuccess(c) /\ ~SetReopened(c) /\ ~SetOpened(c)
    BY DEF RecordSuccess, SetReopened, SetOpened
  <2>2. CASE Increment(c)
    <3>1. Reaches(fails + 1)
      BY <2>2 DEF Increment, Reaches
    <3> QED
      BY <2>2, <3>1 DEF Increment, Goto
  <2>3. CASE ~Increment(c)
    <3>1. /\ fails' = fails /\ age' = age /\ crashes' = crashes
          /\ pc[c] # "open"
          /\ \A d \in Clients \ {c} : pc'[d] = pc[d]
      BY <1>1, <2>1, <2>3 DEF ClientStep, GetOpened, GetTimeout, Fetch, FailureGetOpened,
         FailureGetTimeout, SetTimeout, SetInitial, Goto
    <3> QED
      BY <3>1 DEF ThresholdOpens
  <2> QED
    BY <2>2, <2>3
<1>2. ASSUME NEW c \in Clients, Crash(c) PROVE FALSE
  BY <1>2 DEF Crash
<1>3. CASE Tick
  <2>1. age = NotOpen /\ fails = Threshold /\ crashes' = crashes /\ pc' = pc
    BY <1>3, OlderType DEF Tick
  <2> QED
    BY <2>1 DEF ThresholdOpens
<1>4. CASE SiteChanges \/ UNCHANGED vars
  BY <1>4 DEF SiteChanges, vars, ThresholdOpens
<1> QED
  BY <1>1, <1>2, <1>3, <1>4 DEF Next

(* However many workers count failures at once, the threshold is never     *)
(* passed without one of them opening the circuit, unless it died.         *)
THEOREM ThresholdOpensAlways == Spec => []ThresholdOpens
<1>1. Init => ThresholdOpens
  BY CircuitAssumption DEF Init, ThresholdOpens
<1> QED
  BY <1>1, ThresholdStep, TypeCorrect, PTL DEF Spec
----------------------------------------------------------------------------
(* One scrape k at a time and no crash: what its position says of the keys. *)
Alone(k) ==
  /\ TypeOK
  /\ age = NotOpen => timeout = NoTimeout
  /\ pc[k] = "opened" => since[k] # NotOpen /\ since[k] <= age
  /\ pc[k] \in {"timed", "prolong", "reopen", "initial"} => age # NotOpen
  /\ pc[k] \in {"count", "open"} => age = NotOpen
  /\ pc[k] = "open" => fails = Threshold
  /\ age = NotOpen /\ pc[k] # "open" => fails < Threshold
  /\ pc[k] = "prolong" => current[k] = Timeout
  /\ pc[k] = "reopen" => timeout = Doubled(current[k])
  /\ pc[k] = "initial" => timeout = NoTimeout

LEMMA AloneStep ==
  ASSUME NEW k, Clients = {k}, MaxCrashes = 0, Alone(k), [Next]_vars
  PROVE  Alone(k)'
<1>1. TypeOK'
  BY TypeStep DEF Alone
<1> USE <1>1, CircuitAssumption DEF Alone, TypeOK, keys, NotOpen, NoTimeout, Goto
<1>2. CASE ClientStep(k)
  <2>1. CASE GetOpened(k)
    BY <2>1 DEF GetOpened
  <2>2. CASE GetTimeout(k)
    BY <2>2 DEF GetTimeout
  <2>3. CASE Fetch(k)
    BY <2>3 DEF Fetch
  <2>4. CASE RecordSuccess(k)
    BY <2>4 DEF RecordSuccess
  <2>5. CASE FailureGetOpened(k)
    BY <2>5 DEF FailureGetOpened
  <2>6. CASE FailureGetTimeout(k)
    BY <2>6 DEF FailureGetTimeout, Timeout
  <2>7. CASE SetTimeout(k)
    BY <2>7 DEF SetTimeout
  <2>8. CASE SetReopened(k)
    BY <2>8 DEF SetReopened
  <2>9. CASE Increment(k)
    BY <2>9 DEF Increment, Reaches
  <2>10. CASE SetOpened(k)
    BY <2>10 DEF SetOpened
  <2>11. CASE SetInitial(k)
    BY <2>11 DEF SetInitial
  <2> QED
    BY <1>2, <2>1, <2>2, <2>3, <2>4, <2>5, <2>6, <2>7, <2>8, <2>9, <2>10, <2>11 DEF ClientStep
<1>3. CASE Tick
  <2>1. /\ age' = NotOpen <=> age = NotOpen
        /\ since'[k] = NotOpen <=> since[k] = NotOpen
        /\ since[k] # NotOpen /\ since[k] <= age => since'[k] <= age'
    BY <1>3 DEF Tick, Older
  <2>2. UNCHANGED <<fails, timeout, pc, current, Timeout>>
    BY <1>3 DEF Tick, Timeout
  <2> QED
    BY <2>1, <2>2
<1>4. CASE SiteChanges \/ UNCHANGED vars
  BY <1>4 DEF SiteChanges, vars, Timeout
<1>5. ~Crash(k)
  BY DEF Crash
<1> QED
  BY <1>2, <1>3, <1>4, <1>5 DEF Next

(* What the mapping of RedisCircuit to CircuitBreaker is for a single scrape. *)
FailsOf(k) == IF pc[k] = "open" THEN Threshold - 1 ELSE fails
WaitOf(k)  == IF pc[k] = "reopen" THEN current[k] ELSE Timeout

LEMMA OneMapping ==
  ASSUME NEW k, Clients = {k}
  PROVE  /\ (\E c \in Clients : Reporting(c)) <=> Reporting(k)
         /\ (IF \E c \in Clients : pc[c] = "open" THEN Threshold - 1 ELSE fails) = FailsOf(k)
         /\ (IF \E c \in Clients : pc[c] = "reopen"
              THEN current[CHOOSE c \in Clients : pc[c] = "reopen"] ELSE Timeout) = WaitOf(k)
<1>1. (\E c \in Clients : Reporting(c)) <=> Reporting(k)
  BY SMT DEF Reporting
<1>2. (IF \E c \in Clients : pc[c] = "open" THEN Threshold - 1 ELSE fails) = FailsOf(k)
  BY DEF FailsOf
<1>3. pc[k] = "reopen" => (CHOOSE c \in Clients : pc[c] = "reopen") = k
  OBVIOUS
<1> QED
  BY <1>1, <1>2, <1>3 DEF WaitOf

(* Every step of a lone scrape is a step of the breaker of the unit tests, *)
(* or changes nothing that breaker has.                                    *)
LEMMA BreakerStep ==
  ASSUME NEW k, Clients = {k}, MaxCrashes = 0, Alone(k), [Next]_vars
  PROVE  [Breaker!Next]_(Breaker!breaker)
<1> DEFINE busy  == \E c \in Clients : Reporting(c)
           count == IF \E c \in Clients : pc[c] = "open" THEN Threshold - 1 ELSE fails
           wait  == IF \E c \in Clients : pc[c] = "reopen"
                      THEN current[CHOOSE c \in Clients : pc[c] = "reopen"] ELSE Timeout
<1>1. (busy <=> Reporting(k)) /\ count = FailsOf(k) /\ wait = WaitOf(k)
  BY OneMapping
<1>2. (busy' <=> Reporting(k)') /\ count' = FailsOf(k)' /\ wait' = WaitOf(k)'
  <2>1. busy' <=> Reporting(k)'
    BY SMT DEF Reporting
  <2>2. pc'[k] = "reopen" => (CHOOSE c \in Clients : pc'[c] = "reopen") = k
    OBVIOUS
  <2> QED
    BY <2>1, <2>2 DEF FailsOf, WaitOf
<1>3. /\ Breaker!Admit <=> ~busy /\ Breaker!Lets(age, wait) /\ busy' /\ UNCHANGED <<count, age, wait>>
      /\ Breaker!RecordSuccess <=> busy /\ ~busy' /\ count' = 0 /\ age' = NotOpen /\ wait' = Initial
      /\ Breaker!Prolong <=> /\ busy /\ age # NotOpen /\ ~busy' /\ wait' = Breaker!Doubled(wait)
                             /\ age' = 0 /\ count' = count
      /\ Breaker!Count <=> /\ busy /\ age = NotOpen /\ ~busy' /\ count' = count + 1
                           /\ IF count + 1 >= Threshold THEN age' = 0 /\ wait' = Initial
                                                        ELSE UNCHANGED <<age, wait>>
      /\ Breaker!Elapse <=> age' = Breaker!Older(age) /\ (busy' <=> busy) /\ UNCHANGED <<count, wait>>
  BY DEF Breaker!Admit, Breaker!RecordSuccess, Breaker!Prolong, Breaker!Count, Breaker!Elapse,
         Breaker!NotOpen, NotOpen
<1>4. (UNCHANGED Breaker!breaker) <=> (busy' <=> busy) /\ UNCHANGED <<count, age, wait>>
  BY DEF Breaker!breaker
<1>5. /\ Breaker!Doubled(current[k]) = Doubled(current[k])
      /\ Breaker!Older(age) = Older(age)
      /\ Breaker!Lets(age, wait) <=> age = NotOpen \/ age >= wait
  BY DEF Breaker!Doubled, Doubled, Breaker!Older, Older, Breaker!Lets, Breaker!NotOpen, NotOpen
<1> HIDE DEF busy, count, wait
<1> SUFFICES \/ Breaker!Admit \/ Breaker!RecordSuccess \/ Breaker!Prolong
             \/ Breaker!Count \/ Breaker!Elapse \/ UNCHANGED Breaker!breaker
  BY DEF Breaker!Next
<1> USE CircuitAssumption, <1>1, <1>2
    DEF Alone, TypeOK, keys, NotOpen, NoTimeout, Goto, Reporting, FailsOf, WaitOf, Timeout
<1>6. CASE ClientStep(k)
  <2>1. CASE GetOpened(k)
    BY <2>1, <1>3, <1>4, <1>5 DEF GetOpened
  <2>2. CASE GetTimeout(k)
    BY <2>2, <1>3, <1>4, <1>5 DEF GetTimeout
  <2>3. CASE Fetch(k)
    BY <2>3, <1>4 DEF Fetch
  <2>4. CASE RecordSuccess(k)
    BY <2>4, <1>3 DEF RecordSuccess
  <2>5. CASE FailureGetOpened(k)
    BY <2>5, <1>4 DEF FailureGetOpened
  <2>6. CASE FailureGetTimeout(k)
    BY <2>6, <1>4 DEF FailureGetTimeout
  <2>7. CASE SetTimeout(k)
    BY <2>7, <1>4 DEF SetTimeout
  <2>8. CASE SetReopened(k)
    BY <2>8, <1>3, <1>5, DoubledType DEF SetReopened
  <2>9. CASE Increment(k)
    BY <2>9, <1>3, <1>4 DEF Increment, Reaches
  <2>10. CASE SetOpened(k)
    BY <2>10, <1>3 DEF SetOpened
  <2>11. CASE SetInitial(k)
    BY <2>11, <1>4 DEF SetInitial
  <2> QED
    BY <1>6, <2>1, <2>2, <2>3, <2>4, <2>5, <2>6, <2>7, <2>8, <2>9, <2>10, <2>11 DEF ClientStep
<1>7. CASE Tick
  BY <1>7, <1>3, <1>5 DEF Tick
<1>8. CASE SiteChanges \/ UNCHANGED vars
  BY <1>8, <1>4 DEF SiteChanges, vars
<1>9. ~Crash(k)
  BY DEF Crash
<1> QED
  BY <1>6, <1>7, <1>8, <1>9 DEF Next

(* A domain that one scrape at a time uses, and none of which dies, sees   *)
(* the breaker the unit tests check, for every threshold and every timeout.*)
THEOREM OneClientImplements ==
  ASSUME NEW k, Clients = {k}, MaxCrashes = 0
  PROVE  Spec => ImplementsBreaker
<1>1. Init => Alone(k)
  BY CircuitAssumption DEF Init, Alone, TypeOK, ClientState, NotOpen, NoTimeout
<1>2. Alone(k) /\ [Next]_vars => Alone(k)'
  BY AloneStep
<1>3. Init => Breaker!Init
  BY CircuitAssumption DEF Init, Breaker!Init, Breaker!NotOpen, NotOpen, NoTimeout, Reporting, Timeout
<1>4. Alone(k) /\ [Next]_vars => [Breaker!Next]_(Breaker!breaker)
  BY BreakerStep
<1> QED
  BY <1>1, <1>2, <1>3, <1>4, PTL DEF Spec, ImplementsBreaker, Breaker!Spec
============================================================================
