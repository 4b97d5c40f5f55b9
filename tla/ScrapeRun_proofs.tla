-------------------------- MODULE ScrapeRun_proofs --------------------------
(***************************************************************************)
(* What holds of ScrapeRun for any number of runs, any lease and any       *)
(* number of faults.  The argument is about the lease: a run that still    *)
(* has time left is the one whose token is stored, and both clocks agree.  *)
(***************************************************************************)
EXTENDS ScrapeRun, FiniteSetTheorems, TLAPS, WellFoundedInduction

(* A run with time left works and holds the lock, for exactly that long,   *)
(* and until the first overrun every working run has time left.            *)
LeaseInv ==
  /\ \A r \in Runs : left[r] > 0 => Holds(r) /\ lock = r /\ ttl = left[r]
  /\ ~overrun => \A r \in Runs : Holds(r) => left[r] > 0

(* Until the first overrun nobody is about to ask for an answer that is    *)
(* remembered.                                                             *)
AskInv == ~overrun => \A r \in Runs : pc[r] = "ask" => ~cached /\ ~cooling

IInv == TypeOK /\ LeaseInv /\ AskInv

(* Less counts down without leaving 0..n. *)
LEMMA LessType == ASSUME NEW n \in Nat, NEW k \in 0..n PROVE Less(k) \in 0..n
  BY DEF Less

(* Appending a row and closing rows keep the readings well formed. *)
LEMMA AppendedType ==
  ASSUME TypeOK, NEW r \in Runs, NEW p \in Price
  PROVE  /\ Appended(r, p) \in Seq(Reading \cup {Gone})
         /\ Len(Appended(r, p)) \in Nat
<1> DEFINE row == [run |-> r, price |-> p, open |-> TRUE]
<1>1. row \in Reading \cup {Gone}
  BY DEF Reading
<1>2. readings \in Seq(Reading \cup {Gone})
  BY DEF TypeOK
<1>3. Append(readings, row) \in Seq(Reading \cup {Gone})
  BY <1>1, <1>2
<1> QED
  BY <1>3 DEF Appended

(* The end of a session leaves every row a row. *)
LEMMA CloseType ==
  ASSUME TypeOK, NEW r \in Runs, NEW kept \in BOOLEAN, Close(r, kept)
  PROVE  readings' \in Seq(Reading \cup {Gone})
<1> DEFINE Row == Reading \cup {Gone}
           New(i) == IF readings[i].run = r /\ readings[i].open
                       THEN IF kept THEN [readings[i] EXCEPT !.open = FALSE] ELSE Gone
                       ELSE readings[i]
<1>1. readings \in Seq(Row) /\ Len(readings) \in Nat /\ DOMAIN readings = 1..Len(readings)
  BY DEF TypeOK
<1>2. \A x \in Reading : [x EXCEPT !.open = FALSE] \in Reading
  BY DEF Reading
<1>3. \A i \in DOMAIN readings : New(i) \in Row
  <2> TAKE i \in DOMAIN readings
  <2>1. readings[i] \in Row
    BY <1>1
  <2>2. CASE readings[i] \in Reading
    BY <2>2, <1>2
  <2>3. CASE readings[i] = Gone
    BY <2>3 DEF Gone
  <2> QED
    BY <2>1, <2>2, <2>3
<1>4. readings' = [i \in 1..Len(readings) |-> New(i)]
  BY <1>1 DEF Close
<1> HIDE DEF Row, New
<1>5. readings' \in Seq(Row)
  BY <1>1, <1>3, <1>4
<1> QED
  BY <1>5 DEF Row

(* At most one run has time left. *)
LEMMA OneLease ==
  ASSUME LeaseInv, NEW r \in Runs, NEW s \in Runs, left[r] > 0, left[s] > 0
  PROVE  r = s
  BY DEF LeaseInv

(* The first state. *)
LEMMA InitInv == Init => IInv
<1> SUFFICES ASSUME Init PROVE IInv
  OBVIOUS
<1>1. TypeOK
  <2>1. readings \in Seq(Reading \cup {Gone})
    BY DEF Init
  <2>2. 0 \in 0..Ttl /\ 0 \in 0..MaxRetries /\ 0 \in 0..MaxFaults
    BY ScrapeAssumption
  <2>3. compared \in [new : Nat, base : Nat]
    BY DEF Init
  <2> QED
    BY <2>1, <2>2, <2>3 DEF Init, TypeOK, RunState
<1>2. LeaseInv
  BY ScrapeAssumption DEF Init, LeaseInv, Holds, Working, RunState
<1>3. AskInv
  BY DEF Init, AskInv
<1> QED
  BY <1>1, <1>2, <1>3 DEF IInv

(* A nonempty set of positions has a greatest member. *)
LEMMA Greatest ==
  ASSUME NEW n \in Nat, NEW T \in SUBSET (1..n), T # {}
  PROVE  \E j \in T : \A k \in T : k <= j
<1> DEFINE D == {n - j : j \in T}
<1>1. D \subseteq Nat /\ D # {}
  <2>1. \A j \in T : j \in 1..n
    OBVIOUS
  <2>2. \A j \in T : n - j \in Nat
    BY <2>1
  <2>3. D # {}
    OBVIOUS
  <2> QED
    BY <2>2, <2>3
<1>2. PICK d \in D : \A e \in D : <<e, d>> \notin OpToRel(<, Nat)
  <2>1. IsWellFoundedOn(OpToRel(<, Nat), Nat)
    BY NatLessThanWellFounded
  <2> QED
    BY <1>1, <2>1, WFMin
<1>3. PICK j \in T : d = n - j
  OBVIOUS
<1>4. ASSUME NEW k \in T PROVE k <= j
  <2>1. n - k \in D
    OBVIOUS
  <2>2. ~(n - k < d)
    BY <1>1, <1>2, <2>1 DEF OpToRel
  <2> QED
    BY <1>3, <2>2
<1> QED
  BY <1>4

(* A baseline is 0 or the position of a reading. *)
LEMMA BaselineType ==
  ASSUME TypeOK, NEW i \in Nat
  PROVE  BaselineOf(i) \in Nat
<1> DEFINE others == Newest(2) \ {i}
<1>1. Len(readings) \in Nat /\ DOMAIN readings = 1..Len(readings)
  BY DEF TypeOK
<1>2. others \in SUBSET (1..Len(readings))
  BY <1>1 DEF Newest, StoredIds
<1>3. CASE others = {}
  BY <1>3 DEF BaselineOf
<1>4. CASE others # {}
  <2>1. \E j \in others : \A k \in others : k <= j
    BY <1>1, <1>2, <1>4, Greatest
  <2>2. BaselineOf(i) \in others
    BY <1>4, <2>1 DEF BaselineOf
  <2> QED
    BY <1>2, <2>2
<1> QED
  BY <1>3, <1>4

(* A comparison is of a reading with a baseline. *)
LEMMA EvaluateType ==
  ASSUME TypeOK, NEW r \in Runs, Evaluate(r)
  PROVE  compared' \in [new : Nat, base : Nat]
<1>1. chosen[r] \in Nat
  BY DEF TypeOK
<1>2. BaselineOf(chosen[r]) \in Nat
  BY <1>1, BaselineType
<1> QED
  BY <1>1, <1>2 DEF Evaluate, TypeOK
----------------------------------------------------------------------------
(* Types: one lemma per group of actions that write the same variables. *)
LEMMA TypeStep == TypeOK /\ [Next]_vars => TypeOK'
<1> SUFFICES ASSUME TypeOK, [Next]_vars PROVE TypeOK'
  OBVIOUS
<1> USE ScrapeAssumption
<1>1. ASSUME NEW r \in Runs, RunStep(r) PROVE TypeOK'
  <2>1. CASE Acquire(r)
    BY <2>1 DEF Acquire, TypeOK, readingVars, aiVars, RunState
  <2>2. CASE Skip(r)
    BY <2>2 DEF Skip, TypeOK, lockVars, readingVars, aiVars, RunState
  <2>3. CASE UnknownProduct(r)
    BY <2>3 DEF UnknownProduct, TypeOK, lockVars, readingVars, aiVars, RunState
  <2>4. CASE Scrape(r)
    <3>1. PICK p \in Price, doubt \in BOOLEAN :
            /\ readings' = Appended(r, p)
            /\ chosen' = [chosen EXCEPT ![r] = IF p = NoPrice THEN 0 ELSE Len(readings')]
            /\ pc' = [pc EXCEPT ![r] =
                        IF ShouldArbitrate(p, doubt) THEN "arbitrate" ELSE "commit"]
      BY <2>4 DEF Scrape
    <3>2. readings' \in Seq(Reading \cup {Gone}) /\ Len(readings') \in Nat
      BY <3>1, AppendedType
    <3> QED
      BY <2>4, <3>1, <3>2 DEF Scrape, TypeOK, lockVars, aiVars, RunState
  <2>5. CASE Arbitrate(r)
    BY <2>5 DEF Arbitrate, TypeOK, lockVars, readingVars, aiVars, RunState
  <2>6. CASE Answer(r)
    BY <2>6 DEF Answer, TypeOK, lockVars, readingVars, RunState
  <2>10. CASE RecordAnswer(r)
    <3>1. PICK p \in Prices, doubt \in BOOLEAN :
            /\ readings' = Appended(r, p)
            /\ chosen' = IF doubt THEN chosen ELSE [chosen EXCEPT ![r] = Len(readings')]
      BY <2>10 DEF RecordAnswer
    <3>2. p \in Price
      BY DEF Price
    <3>3. readings' \in Seq(Reading \cup {Gone}) /\ Len(readings') \in Nat
      BY <3>1, <3>2, AppendedType
    <3> QED
      BY <2>10, <3>1, <3>3 DEF RecordAnswer, TypeOK, lockVars, RunState
  <2>7. CASE Commit(r)
    <3>1. readings' \in Seq(Reading \cup {Gone})
      BY <2>7, CloseType DEF Commit
    <3> QED
      BY <2>7, <3>1 DEF Commit, TypeOK, lockVars, aiVars, RunState
  <2>8. CASE Evaluate(r)
    <3>1. compared' \in [new : Nat, base : Nat]
      BY <2>8, EvaluateType
    <3> QED
      BY <2>8, <3>1 DEF Evaluate, TypeOK, lockVars, aiVars, RunState
  <2>9. CASE Release(r)
    <3>1. lock' \in Runs \cup {NoRun} /\ ttl' \in 0..Ttl /\ overrun' = overrun
      BY <2>9 DEF Release, Unlock, Released, TypeOK
    <3> QED
      BY <2>9, <3>1 DEF Release, TypeOK, aiVars, RunState
  <2> QED
    BY <1>1, <2>1, <2>2, <2>3, <2>4, <2>5, <2>6, <2>7, <2>8, <2>9, <2>10 DEF RunStep
<1>2. ASSUME NEW r \in Runs, Raise(r) PROVE TypeOK'
  <2>1. readings' \in Seq(Reading \cup {Gone})
    BY <1>2, CloseType DEF Raise, RollBack
  <2>2. lock' \in Runs \cup {NoRun} /\ ttl' \in 0..Ttl /\ overrun' = overrun
    BY <1>2 DEF Raise, Unlock, Released, TypeOK
  <2>3. retries' \in [Runs -> 0..MaxRetries] /\ pc' \in [Runs -> RunState]
    <3>1. retries \in [Runs -> 0..MaxRetries] /\ pc \in [Runs -> RunState]
      BY DEF TypeOK
    <3>2. CASE MayRetry(r)
      <4>1. retries[r] + 1 \in 0..MaxRetries
        BY <3>1, <3>2 DEF MayRetry
      <4>2. retries' = [retries EXCEPT ![r] = @ + 1] /\ pc' = [pc EXCEPT ![r] = "queued"]
        BY <1>2, <3>2 DEF Raise
      <4> QED
        BY <3>1, <4>1, <4>2 DEF RunState
    <3>3. CASE ~MayRetry(r)
      <4>1. retries' = retries /\ pc' = [pc EXCEPT ![r] = "done"]
        BY <1>2, <3>3 DEF Raise
      <4> QED
        BY <3>1, <4>1 DEF RunState
    <3> QED
      BY <3>2, <3>3
  <2>4. faults' \in 0..MaxFaults
    BY <1>2 DEF Raise, RollBack, TypeOK
  <2>5. left' \in [Runs -> 0..Ttl] /\ chosen' \in [Runs -> Nat]
    BY <1>2 DEF Raise, RollBack, TypeOK
  <2>6. UNCHANGED <<compared, cached, cooling>>
    BY <1>2 DEF Raise, aiVars
  <2> QED
    BY <2>1, <2>2, <2>3, <2>4, <2>5, <2>6 DEF TypeOK
<1>3. ASSUME NEW r \in Runs, Crash(r) PROVE TypeOK'
  <2>1. readings' \in Seq(Reading \cup {Gone})
    BY <1>3, CloseType DEF Crash, RollBack
  <2>2. faults' \in 0..MaxFaults
    BY <1>3 DEF Crash, RollBack, TypeOK
  <2> QED
    BY <1>3, <2>1, <2>2 DEF Crash, RollBack, TypeOK, aiVars, RunState
<1>4. CASE Tick
  <2>1. ttl' \in 0..Ttl /\ left' \in [Runs -> 0..Ttl]
    <3>1. Less(ttl) \in 0..Ttl /\ \A r \in Runs : Less(left[r]) \in 0..Ttl
      BY LessType DEF TypeOK
    <3> QED
      BY <1>4, <3>1 DEF Tick
  <2>2. overrun' \in BOOLEAN
    BY <1>4 DEF Tick, TypeOK
  <2> QED
    BY <1>4, <2>1, <2>2 DEF Tick, TypeOK, readingVars, aiVars
<1>5. CASE AiKeyExpires
  BY <1>5 DEF AiKeyExpires, TypeOK, lockVars, readingVars
<1>6. CASE UNCHANGED vars
  BY <1>6 DEF TypeOK, vars, lockVars, readingVars, aiVars
<1> QED
  BY <1>1, <1>2, <1>3, <1>4, <1>5, <1>6 DEF Next
----------------------------------------------------------------------------
(* A step that keeps lease, lock and clocks and lets no idle run work      *)
(* keeps the lease invariant.                                              *)
LEMMA LeaseKept ==
  ASSUME TypeOK, LeaseInv, NEW r \in Runs, Holds(r), Holds(r)',
         \A s \in Runs \ {r} : pc'[s] = pc[s], UNCHANGED lockVars
  PROVE  LeaseInv'
  BY DEF LeaseInv, Holds, lockVars

(* A run that stops working gives up its lease; the key is left alone or   *)
(* removed by its owner.                                                   *)
LEMMA LeaseEnded ==
  ASSUME TypeOK, LeaseInv, NEW r \in Runs,
         \A s \in Runs \ {r} : pc'[s] = pc[s], ~Holds(r)',
         left' = [left EXCEPT ![r] = 0], overrun' = overrun,
         Unlock(r) \/ UNCHANGED <<lock, ttl>>
  PROVE  LeaseInv'
<1>1. left'[r] = 0 /\ \A s \in Runs \ {r} : left'[s] = left[s] /\ (Holds(s)' <=> Holds(s))
  BY DEF TypeOK, Holds
<1>2. ASSUME NEW s \in Runs, left'[s] > 0
      PROVE  Holds(s)' /\ lock' = s /\ ttl' = left'[s]
  <2>1. s # r /\ left[s] > 0
    BY <1>1, <1>2
  <2>2. Holds(s) /\ lock = s /\ ttl = left[s] /\ s # NoRun
    BY <2>1, ScrapeAssumption DEF LeaseInv
  <2>3. lock' = lock /\ ttl' = ttl
    BY <2>1, <2>2 DEF Unlock, Released
  <2> QED
    BY <1>1, <2>1, <2>2, <2>3
<1>3. ASSUME ~overrun', NEW s \in Runs, Holds(s)' PROVE left'[s] > 0
  BY <1>1, <1>3 DEF LeaseInv
<1> QED
  BY <1>2, <1>3 DEF LeaseInv

(* The lease invariant is inductive. *)
LEMMA LeaseStep == TypeOK /\ LeaseInv /\ [Next]_vars => LeaseInv'
<1> SUFFICES ASSUME TypeOK, LeaseInv, [Next]_vars PROVE LeaseInv'
  OBVIOUS
<1> USE ScrapeAssumption
<1>1. ASSUME NEW r \in Runs, RunStep(r) PROVE LeaseInv'
  <2>1. CASE Acquire(r)
    <3>1. \A s \in Runs : ~(left[s] > 0)
      BY <2>1 DEF Acquire, Free, LeaseInv
    <3>2. /\ left'[r] = Ttl /\ Ttl > 0 /\ Holds(r)' /\ lock' = r /\ ttl' = Ttl
          /\ \A s \in Runs \ {r} : left'[s] = left[s] /\ (Holds(s)' <=> Holds(s))
          /\ overrun' = overrun
      BY <2>1 DEF Acquire, TypeOK, Holds, Working, RunState
    <3> QED
      BY <3>1, <3>2 DEF LeaseInv
  <2>2. CASE Skip(r)
    <3>1. ~Holds(r) /\ ~Holds(r)' /\ \A s \in Runs \ {r} : pc'[s] = pc[s]
      BY <2>2 DEF Skip, TypeOK, Holds, Working, RunState
    <3>2. UNCHANGED lockVars
      BY <2>2 DEF Skip
    <3> QED
      BY <3>1, <3>2 DEF LeaseInv, Holds, lockVars
  <2>3. CASE UnknownProduct(r)
    <3>1. Holds(r) /\ Holds(r)' /\ \A s \in Runs \ {r} : pc'[s] = pc[s]
      BY <2>3 DEF UnknownProduct, TypeOK, Holds, Working, RunState
    <3> QED
      BY <2>3, <3>1, LeaseKept DEF UnknownProduct
  <2>4. CASE Scrape(r)
    <3>1. \/ pc' = [pc EXCEPT ![r] = "arbitrate"]
          \/ pc' = [pc EXCEPT ![r] = "commit"]
      BY <2>4 DEF Scrape
    <3>2. Holds(r) /\ Holds(r)' /\ \A s \in Runs \ {r} : pc'[s] = pc[s]
      BY <2>4, <3>1 DEF Scrape, TypeOK, Holds, Working, RunState
    <3> QED
      BY <2>4, <3>2, LeaseKept DEF Scrape
  <2>5. CASE Arbitrate(r)
    <3>1. Holds(r) /\ Holds(r)' /\ \A s \in Runs \ {r} : pc'[s] = pc[s]
      BY <2>5 DEF Arbitrate, TypeOK, Holds, Working, RunState
    <3> QED
      BY <2>5, <3>1, LeaseKept DEF Arbitrate
  <2>6. CASE Answer(r)
    <3>1. Holds(r) /\ Holds(r)' /\ \A s \in Runs \ {r} : pc'[s] = pc[s]
      BY <2>6 DEF Answer, TypeOK, Holds, Working, RunState
    <3> QED
      BY <2>6, <3>1, LeaseKept DEF Answer
  <2>10. CASE RecordAnswer(r)
    <3>1. Holds(r) /\ Holds(r)' /\ \A s \in Runs \ {r} : pc'[s] = pc[s]
      BY <2>10 DEF RecordAnswer, TypeOK, Holds, Working, RunState
    <3> QED
      BY <2>10, <3>1, LeaseKept DEF RecordAnswer
  <2>7. CASE Commit(r)
    <3>1. Holds(r) /\ Holds(r)' /\ \A s \in Runs \ {r} : pc'[s] = pc[s]
      BY <2>7 DEF Commit, TypeOK, Holds, Working, RunState
    <3> QED
      BY <2>7, <3>1, LeaseKept DEF Commit
  <2>8. CASE Evaluate(r)
    <3>1. Holds(r) /\ Holds(r)' /\ \A s \in Runs \ {r} : pc'[s] = pc[s]
      BY <2>8 DEF Evaluate, TypeOK, Holds, Working, RunState
    <3> QED
      BY <2>8, <3>1, LeaseKept DEF Evaluate
  <2>9. CASE Release(r)
    <3>1. ~Holds(r)' /\ \A s \in Runs \ {r} : pc'[s] = pc[s]
      BY <2>9 DEF Release, TypeOK, Holds, Working, RunState
    <3>2. left' = [left EXCEPT ![r] = 0] /\ overrun' = overrun /\ Unlock(r)
      BY <2>9 DEF Release, Unlock
    <3> QED
      BY <3>1, <3>2, LeaseEnded
  <2> QED
    BY <1>1, <2>1, <2>2, <2>3, <2>4, <2>5, <2>6, <2>7, <2>8, <2>9, <2>10 DEF RunStep
<1>2. ASSUME NEW r \in Runs, Raise(r) PROVE LeaseInv'
  <2>1. ~Holds(r)' /\ \A s \in Runs \ {r} : pc'[s] = pc[s]
    BY <1>2 DEF Raise, TypeOK, Holds, Working, RunState
  <2>2. /\ left' = [left EXCEPT ![r] = 0] /\ overrun' = overrun
        /\ Unlock(r) \/ UNCHANGED <<lock, ttl>>
    BY <1>2 DEF Raise, RollBack, Unlock
  <2> QED
    BY <2>1, <2>2, LeaseEnded
<1>3. ASSUME NEW r \in Runs, Crash(r) PROVE LeaseInv'
  <2>1. ~Holds(r)' /\ \A s \in Runs \ {r} : pc'[s] = pc[s]
    BY <1>3 DEF Crash, TypeOK, Holds, Working, RunState
  <2>2. /\ left' = [left EXCEPT ![r] = 0] /\ overrun' = overrun
        /\ UNCHANGED <<lock, ttl>>
    BY <1>3 DEF Crash, RollBack
  <2> QED
    BY <2>1, <2>2, LeaseEnded
<1>4. CASE Tick
  <2>1. /\ \A s \in Runs : left'[s] = Less(left[s]) /\ left[s] \in Nat
        /\ ttl' = Less(ttl) /\ ttl \in Nat
    BY <1>4 DEF Tick, TypeOK
  <2>2. \A s \in Runs : Holds(s)' <=> Holds(s)
    BY <1>4 DEF Tick, Holds
  <2>3. ASSUME NEW s \in Runs, left'[s] > 0
        PROVE  Holds(s)' /\ lock' = s /\ ttl' = left'[s]
    <3>1. left[s] > 1
      BY <2>1, <2>3 DEF Less
    <3>2. Holds(s) /\ lock = s /\ ttl = left[s]
      BY <3>1, <2>1 DEF LeaseInv
    <3>3. lock' = lock
      BY <1>4, <3>1, <3>2 DEF Tick
    <3> QED
      BY <2>1, <2>2, <3>2, <3>3
  <2>4. ASSUME ~overrun', NEW s \in Runs, Holds(s)' PROVE left'[s] > 0
    <3>1. ~overrun /\ Holds(s) /\ left[s] # 1
      BY <1>4, <2>2, <2>4 DEF Tick
    <3>2. left[s] > 0
      BY <3>1 DEF LeaseInv
    <3> QED
      BY <2>1, <3>1, <3>2 DEF Less
  <2> QED
    BY <2>3, <2>4 DEF LeaseInv
<1>5. CASE AiKeyExpires
  BY <1>5 DEF AiKeyExpires, LeaseInv, Holds, lockVars
<1>6. CASE UNCHANGED vars
  BY <1>6 DEF vars, LeaseInv, Holds, lockVars
<1> QED
  BY <1>1, <1>2, <1>3, <1>4, <1>5, <1>6 DEF Next

(* Nobody else works while a run without an overrun does: the answer one   *)
(* run waits for is recorded before another run may ask.                   *)
LEMMA AskStep == TypeOK /\ LeaseInv /\ AskInv /\ [Next]_vars => AskInv'
<1> SUFFICES ASSUME TypeOK, LeaseInv, AskInv, [Next]_vars, ~overrun',
                    NEW q \in Runs, pc'[q] = "ask"
             PROVE  ~cached' /\ ~cooling'
  BY DEF AskInv
<1>1. ~overrun
  BY DEF Next, RunStep, Acquire, Skip, UnknownProduct, Scrape, Arbitrate, Answer,
         RecordAnswer, Commit, Evaluate, Release, Raise, Crash, RollBack, Unlock, Tick, AiKeyExpires, vars, lockVars
<1>2. ASSUME NEW r \in Runs, Answer(r) \/ RecordAnswer(r) PROVE FALSE
  <2>1. pc[r] \in {"ask", "record"}
    BY <1>2 DEF Answer, RecordAnswer
  <2>2. q # r /\ pc[q] = "ask"
    BY <1>2 DEF Answer, RecordAnswer, TypeOK
  <2>3. Holds(q) /\ Holds(r)
    BY <2>1, <2>2 DEF Holds, Working, RunState
  <2>4. left[q] > 0 /\ left[r] > 0
    BY <1>1, <2>3 DEF LeaseInv
  <2> QED
    BY <2>2, <2>4, OneLease
<1>3. ASSUME NEW r \in Runs, Arbitrate(r) PROVE ~cached' /\ ~cooling'
  <2>1. cached' = cached /\ cooling' = cooling
    BY <1>3 DEF Arbitrate, aiVars
  <2>2. CASE pc[q] = "ask"
    BY <1>1, <2>1, <2>2 DEF AskInv
  <2>3. CASE pc[q] # "ask"
    <3>1. q = r /\ MayAsk
      BY <1>3, <2>3 DEF Arbitrate, TypeOK
    <3> QED
      BY <2>1, <3>1 DEF MayAsk
  <2> QED
    BY <2>2, <2>3
<1>4. ASSUME pc[q] = "ask", cached' => cached, cooling' => cooling
      PROVE  ~cached' /\ ~cooling'
  BY <1>1, <1>4 DEF AskInv
<1>5. ASSUME NEW r \in Runs, RunStep(r), ~Answer(r), ~RecordAnswer(r), ~Arbitrate(r)
      PROVE  ~cached' /\ ~cooling'
  <2>1. cached' = cached /\ cooling' = cooling
    BY <1>5 DEF RunStep, Acquire, Skip, UnknownProduct, Scrape, Commit, Evaluate, Release, aiVars
  <2>2. pc[q] = "ask"
    BY <1>5 DEF RunStep, Acquire, Skip, UnknownProduct, Scrape, Commit, Evaluate, Release, TypeOK
  <2> QED
    BY <1>4, <2>1, <2>2
<1>6. ASSUME NEW r \in Runs, Raise(r) \/ Crash(r) PROVE ~cached' /\ ~cooling'
  <2>1. cached' = cached /\ cooling' = cooling
    BY <1>6 DEF Raise, Crash, aiVars
  <2>2. pc[q] = "ask"
    BY <1>6 DEF Raise, Crash, TypeOK
  <2> QED
    BY <1>4, <2>1, <2>2
<1>7. CASE Tick \/ AiKeyExpires \/ UNCHANGED vars
  <2>1. pc' = pc /\ (cached' => cached) /\ (cooling' => cooling)
    BY <1>7 DEF Tick, AiKeyExpires, vars, aiVars
  <2> QED
    BY <1>4, <2>1
<1> QED
  BY <1>2, <1>3, <1>5, <1>6, <1>7 DEF Next
----------------------------------------------------------------------------
(* The parts together are inductive. *)
THEOREM Inductive == Spec => []IInv
<1>1. IInv /\ [Next]_vars => IInv'
  BY TypeStep, LeaseStep, AskStep DEF IInv
<1> QED
  BY InitInv, <1>1, PTL DEF Spec

(* Every variable keeps its type: a retry never exceeds MaxRetries, and    *)
(* the clocks of Redis and of the runs stay within the lease.              *)
THEOREM TypeCorrect == Spec => []TypeOK
<1>1. IInv => TypeOK
  BY DEF IInv
<1> QED
  BY Inductive, <1>1, PTL

(* While neither of two runs has outlived its lease, at most one works on  *)
(* the product, whatever raises or crashes.                                *)
THEOREM Exclusive == Spec => []ExclusiveWithinLease
<1>1. IInv => ExclusiveWithinLease
  <2> SUFFICES ASSUME IInv, NEW r \in Runs, NEW s \in Runs, r # s
               PROVE  left[r] = 0 \/ left[s] = 0
    BY DEF ExclusiveWithinLease
  <2>1. left[r] \in Nat /\ left[s] \in Nat
    BY ScrapeAssumption DEF IInv, TypeOK
  <2> QED
    BY <2>1, OneLease DEF IInv
<1> QED
  BY Inductive, <1>1, PTL

(* Until a run outlives its lease, the extractor is never asked while its  *)
(* last answer is remembered.                                              *)
THEOREM AskedOnce == Spec => []AskedOncePerAnswer
<1>1. IInv => AskedOncePerAnswer
  BY DEF IInv, AskInv, AskedOncePerAnswer
<1> QED
  BY Inductive, <1>1, PTL

(* No step takes the lock away from a run that still has time left: a late *)
(* release compares its token first.                                       *)
THEOREM LeaseNotRobbed == Spec => LeaseIsKept
<1> DEFINE Kept == \A r \in Runs :
             lock = r /\ Holds(r) /\ pc'[r] = pc[r] /\ left'[r] > 0 => lock' = r
<1>1. IInv /\ [Next]_vars => [Kept]_vars
  <2> SUFFICES ASSUME IInv, Next, NEW q \in Runs, lock = q, Holds(q), pc'[q] = pc[q],
                      left'[q] > 0
               PROVE  lock' = q
    OBVIOUS
  <2>1. q # NoRun
    BY ScrapeAssumption
  <2>2. ASSUME NEW r \in Runs, RunStep(r) PROVE lock' = q
    <3>1. ~Acquire(r)
      BY <2>1 DEF Acquire, Free
    <3>2. CASE Release(r)
      <4>1. r # q
        BY <3>2 DEF Release, IInv, TypeOK
      <4> QED
        BY <3>2, <4>1 DEF Release, Unlock, Released
    <3>3. CASE ~Release(r)
      BY <2>2, <3>1, <3>3 DEF RunStep, Skip, UnknownProduct, Scrape, Arbitrate, Answer,
         RecordAnswer, Commit, Evaluate, lockVars
    <3> QED
      BY <3>2, <3>3
  <2>3. ASSUME NEW r \in Runs, Raise(r) \/ Crash(r) PROVE lock' = q
    <3>1. left' = [left EXCEPT ![r] = 0]
      BY <2>3 DEF Raise, Crash, RollBack
    <3>2. r # q
      BY <3>1 DEF IInv, TypeOK
    <3> QED
      BY <2>3, <3>2 DEF Raise, Crash, Unlock, Released
  <2>4. CASE Tick
    <3>1. left[q] \in Nat /\ left'[q] = Less(left[q])
      BY <2>4 DEF Tick, IInv, TypeOK
    <3>2. left[q] > 1
      BY <3>1 DEF Less
    <3>3. ttl = left[q]
      BY <3>1, <3>2 DEF IInv, LeaseInv
    <3> QED
      BY <2>4, <3>2, <3>3 DEF Tick
  <2>5. CASE AiKeyExpires
    BY <2>5 DEF AiKeyExpires, lockVars
  <2> QED
    BY <2>2, <2>3, <2>4, <2>5 DEF Next
<1> QED
  BY Inductive, <1>1, PTL DEF Spec, LeaseIsKept
----------------------------------------------------------------------------
(***************************************************************************)
(* The order of the readings.  Until a run outlives its lease at most one  *)
(* run works, so the rows it has appended are the last ones, and the       *)
(* baseline of the one it evaluates is the stored reading next to it.      *)
(***************************************************************************)
Recorded == {"arbitrate", "ask", "record", "commit"}

(* No stored reading lies between the two that were compared last. *)
NoneBetween ==
  \A i \in StoredIds :
    /\ ~(compared.base < i /\ i < compared.new)
    /\ ~(compared.new < i /\ i < compared.base)

(* Open rows belong to a session that has not ended and are newer than     *)
(* what was compared; what a run has chosen is one of the last two rows.   *)
OrderInv ==
  /\ compared.new <= Len(readings) /\ compared.base <= Len(readings)
  /\ ~overrun =>
       /\ NoneBetween
       /\ \A i \in DOMAIN readings : readings[i].open =>
            /\ compared.new < i /\ compared.base < i
            /\ readings[i].run \in Runs /\ pc[readings[i].run] \in Recorded
       /\ \A r \in Runs :
            /\ pc[r] \in {"arbitrate", "ask", "record"} => chosen[r] \in {0, Len(readings)}
            /\ pc[r] = "commit" => chosen[r] \in {0, Len(readings), Len(readings) - 1}
            /\ pc[r] = "evaluate" => chosen[r] \in {Len(readings), Len(readings) - 1}

LEMMA Alone ==
  ASSUME TypeOK, LeaseInv, ~overrun,
         NEW r \in Runs, NEW s \in Runs, Holds(r), Holds(s)
  PROVE  r = s
  BY OneLease DEF LeaseInv

LEMMA Positions ==
  ASSUME TypeOK
  PROVE  /\ Len(readings) \in Nat /\ DOMAIN readings = 1..Len(readings)
         /\ StoredIds \in SUBSET (1..Len(readings)) /\ IsFiniteSet(StoredIds)
<1>1. Len(readings) \in Nat /\ DOMAIN readings = 1..Len(readings)
  BY DEF TypeOK
<1>2. StoredIds \in SUBSET (1..Len(readings))
  BY <1>1 DEF StoredIds
<1>3. IsFiniteSet(1..Len(readings))
  BY <1>1, FS_Interval
<1> QED
  BY <1>1, <1>2, <1>3, FS_Subset

Newer(j) == {k \in StoredIds : k > j}

LEMMA NewestTwo ==
  ASSUME TypeOK, NEW j \in StoredIds, NEW k \in StoredIds
  PROVE  /\ j \in Newest(2) /\ j < k => k \in Newest(2)
         /\ Newer(j) \subseteq {k} => j \in Newest(2)
<1>1. IsFiniteSet(Newer(j)) /\ IsFiniteSet(Newer(k))
  BY Positions, FS_Subset DEF Newer
<1>2. Cardinality(Newer(j)) \in Nat /\ Cardinality(Newer(k)) \in Nat
  BY <1>1, FS_CardinalityType
<1>3. \A i \in StoredIds : i \in Newest(2) <=> Cardinality(Newer(i)) < 2
  BY DEF Newest, Newer
<1>4. ASSUME j \in Newest(2), j < k PROVE k \in Newest(2)
  <2>1. Newer(k) \subseteq Newer(j)
    BY <1>4, Positions DEF Newer
  <2>2. Cardinality(Newer(k)) <= Cardinality(Newer(j))
    BY <1>1, <2>1, FS_Subset
  <2> QED
    BY <1>2, <1>3, <1>4, <2>2
<1>5. ASSUME Newer(j) \subseteq {k} PROVE j \in Newest(2)
  <2>1. IsFiniteSet({k}) /\ Cardinality({k}) = 1
    BY FS_Singleton
  <2>2. Cardinality(Newer(j)) <= 1
    BY <1>5, <2>1, FS_Subset
  <2> QED
    BY <1>2, <1>3, <2>2
<1> QED
  BY <1>4, <1>5

(* The baseline of one of the last two rows is the stored row next to it. *)
LEMMA Adjacent ==
  ASSUME TypeOK, NEW i \in StoredIds, i \in {Len(readings), Len(readings) - 1},
         NEW k \in StoredIds
  PROVE  /\ ~(BaselineOf(i) < k /\ k < i)
         /\ ~(i < k /\ k < BaselineOf(i))
         /\ BaselineOf(i) \in 0..Len(readings)
<1> DEFINE others == Newest(2) \ {i}
           rest == StoredIds \ {i}
<1> USE Positions
<1>1. others \in SUBSET rest
  BY DEF Newest
<1>2. CASE others = {}
  <2>1. BaselineOf(i) = 0
    BY <1>2 DEF BaselineOf
  <2>2. rest = {}
    <3> SUFFICES ASSUME rest # {} PROVE FALSE
      OBVIOUS
    <3>1. PICK m \in rest : \A l \in rest : l <= m
      BY Greatest
    <3>2. Newer(m) \subseteq {i}
      BY <3>1 DEF Newer
    <3>3. m \in Newest(2)
      BY <3>1, <3>2, NewestTwo
    <3> QED
      BY <1>2, <3>1, <3>3
  <2> QED
    BY <2>1, <2>2
<1>3. CASE others # {}
  <2>1. \E j \in others : \A l \in others : l <= j
    BY <1>1, <1>3, Greatest
  <2>2. BaselineOf(i) \in others /\ \A l \in others : l <= BaselineOf(i)
    BY <1>3, <2>1 DEF BaselineOf
  <2>3. ASSUME BaselineOf(i) < k, k < i PROVE FALSE
    <3>1. k \in Newest(2)
      BY <1>1, <2>2, <2>3, NewestTwo
    <3>2. k \in others
      BY <2>3, <3>1
    <3> QED
      BY <1>1, <2>2, <2>3, <3>2
  <2> QED
    BY <1>1, <2>2, <2>3
<1> QED
  BY <1>2, <1>3
----------------------------------------------------------------------------
(* An appended row is open and the last one. *)
LEMMA AppendRow ==
  ASSUME TypeOK, NEW r \in Runs, NEW p \in Price, readings' = Appended(r, p)
  PROVE  /\ Len(readings') = Len(readings) + 1
         /\ DOMAIN readings' = DOMAIN readings \cup {Len(readings')}
         /\ \A i \in DOMAIN readings : readings'[i] = readings[i]
         /\ readings'[Len(readings')].run = r /\ readings'[Len(readings')].open
         /\ StoredIds' = StoredIds
<1> DEFINE row == [run |-> r, price |-> p, open |-> TRUE]
<1>1. row \in Reading \cup {Gone} /\ row.open /\ row.run = r
  BY DEF Reading
<1>2. readings \in Seq(Reading \cup {Gone}) /\ readings' = Append(readings, row)
  BY DEF TypeOK, Appended
<1> HIDE DEF row
<1>3. /\ Len(readings') = Len(readings) + 1
      /\ \A i \in 1..Len(readings) : readings'[i] = readings[i]
      /\ readings'[Len(readings) + 1] = row
  BY <1>1, <1>2
<1>4. /\ DOMAIN readings = 1..Len(readings) /\ DOMAIN readings' = 1..Len(readings')
      /\ Len(readings) \in Nat
  BY <1>1, <1>2
<1>5. DOMAIN readings' = DOMAIN readings \cup {Len(readings')}
  BY <1>3, <1>4
<1>6. StoredIds' = StoredIds
  BY <1>1, <1>3, <1>4, <1>5 DEF StoredIds
<1> QED
  BY <1>1, <1>3, <1>4, <1>5, <1>6

(* The end of a session leaves it no open row, and no row but its own      *)
(* becomes visible.                                                        *)
LEMMA CloseRow ==
  ASSUME TypeOK, NEW r \in Runs, NEW kept \in BOOLEAN, Close(r, kept)
  PROVE  /\ Len(readings') = Len(readings) /\ DOMAIN readings' = DOMAIN readings
         /\ \A i \in DOMAIN readings : readings'[i].open =>
              readings'[i] = readings[i] /\ readings[i].run # r
         /\ \A i \in StoredIds' : i \in StoredIds \/ (i \in DOMAIN readings /\ readings[i].open)
<1>1. /\ DOMAIN readings = 1..Len(readings) /\ Len(readings) \in Nat
      /\ DOMAIN readings' = DOMAIN readings
      /\ readings' \in Seq(Reading \cup {Gone})
  BY CloseType, Positions DEF Close
<1>2. Len(readings') = Len(readings)
  BY <1>1
<1>3. ASSUME NEW i \in DOMAIN readings
      PROVE  /\ readings'[i] = IF readings[i].run = r /\ readings[i].open
                  THEN IF kept THEN [readings[i] EXCEPT !.open = FALSE] ELSE Gone
                  ELSE readings[i]
             /\ readings[i] \in Reading \/ readings[i] = Gone
  BY DEF Close, TypeOK
<1>4. ASSUME NEW i \in DOMAIN readings, readings'[i].open
      PROVE  readings'[i] = readings[i] /\ readings[i].run # r
  <2>1. \A x \in Reading : ~[x EXCEPT !.open = FALSE].open
    BY DEF Reading
  <2>2. ~Gone.open
    BY DEF Gone
  <2>3. CASE readings[i] \in Reading
    BY <1>3, <1>4, <2>1, <2>2, <2>3
  <2>4. CASE readings[i] = Gone
    BY <1>3, <1>4, <2>2, <2>4
  <2> QED
    BY <1>3, <2>3, <2>4
<1>5. ASSUME NEW i \in StoredIds'
      PROVE  i \in StoredIds \/ (i \in DOMAIN readings /\ readings[i].open)
  BY <1>1, <1>3, <1>5 DEF StoredIds
<1> QED
  BY <1>1, <1>2, <1>4, <1>5

----------------------------------------------------------------------------
OrderOK == TypeOK /\ LeaseInv /\ OrderInv

(* A step that leaves readings and comparison alone, and starts or ends no *)
(* session.                                                                *)
StaysInOrder(r) ==
  /\ pc[r] \in Recorded => pc'[r] \in Recorded
  /\ \/ pc'[r] = pc[r] /\ chosen'[r] = chosen[r]
     \/ pc'[r] \notin Recorded \cup {"evaluate"}
     \/ pc[r] \in {"arbitrate", "ask"} /\ pc'[r] \in {"ask", "record", "commit"} /\ chosen'[r] = chosen[r]

LEMMA OrderKept ==
  ASSUME OrderOK, UNCHANGED <<readings, compared>>, overrun => overrun',
         \A r \in Runs : StaysInOrder(r)
  PROVE  OrderInv'
<1>1. compared'.new <= Len(readings') /\ compared'.base <= Len(readings')
  BY DEF OrderOK, OrderInv
<1>2. ~overrun' => NoneBetween'
  BY DEF OrderOK, OrderInv, NoneBetween, StoredIds
<1>3. ~overrun' => \A i \in DOMAIN readings' : readings'[i].open =>
            /\ compared'.new < i /\ compared'.base < i
            /\ readings'[i].run \in Runs /\ pc'[readings'[i].run] \in Recorded
  BY DEF OrderOK, OrderInv, StaysInOrder
<1>4. ~overrun' => \A r \in Runs :
            /\ pc'[r] \in {"arbitrate", "ask", "record"} => chosen'[r] \in {0, Len(readings')}
            /\ pc'[r] = "commit" => chosen'[r] \in {0, Len(readings'), Len(readings') - 1}
            /\ pc'[r] = "evaluate" => chosen'[r] \in {Len(readings'), Len(readings') - 1}
  BY DEF OrderOK, OrderInv, Recorded, StaysInOrder
<1> QED
  BY <1>1, <1>2, <1>3, <1>4 DEF OrderInv

(* A run appends a reading. *)
LEMMA AppendOrder ==
  ASSUME OrderOK, NEW r \in Runs, NEW p \in Price, readings' = Appended(r, p),
         UNCHANGED <<compared, overrun>>, Holds(r),
         \A s \in Runs \ {r} : pc'[s] = pc[s],
         \/ pc'[r] = "arbitrate" /\ chosen'[r] \in {0, Len(readings')}
         \/ pc'[r] = "commit" /\ chosen'[r] \in {0, Len(readings'), Len(readings') - 1}
  PROVE  OrderInv'
<1> USE Positions DEF OrderOK
<1>1. compared.new \in Nat /\ compared.base \in Nat
  BY DEF TypeOK
<1>2. compared'.new <= Len(readings') /\ compared'.base <= Len(readings')
  BY <1>1, AppendRow DEF OrderInv
<1> SUFFICES ASSUME ~overrun
             PROVE  /\ NoneBetween'
                    /\ \A i \in DOMAIN readings' : readings'[i].open =>
                         /\ compared.new < i /\ compared.base < i
                         /\ readings'[i].run \in Runs /\ pc'[readings'[i].run] \in Recorded
                    /\ \A s \in Runs :
                         /\ pc'[s] \in {"arbitrate", "ask", "record"} => chosen'[s] \in {0, Len(readings')}
                         /\ pc'[s] = "commit" =>
                              chosen'[s] \in {0, Len(readings'), Len(readings') - 1}
                         /\ pc'[s] = "evaluate" =>
                              chosen'[s] \in {Len(readings'), Len(readings') - 1}
  BY <1>2 DEF OrderInv
<1>3. \A s \in Runs \ {r} : pc'[s] \notin Working
  BY Alone DEF Holds
<1>4. pc'[r] \in Recorded
  BY DEF Recorded
<1>5. NoneBetween'
  BY AppendRow DEF OrderInv, NoneBetween
<1>6. ASSUME NEW i \in DOMAIN readings', readings'[i].open
      PROVE  /\ compared.new < i /\ compared.base < i
             /\ readings'[i].run \in Runs /\ pc'[readings'[i].run] \in Recorded
  <2>1. CASE i \in DOMAIN readings
    BY <1>4, <1>6, <2>1, AppendRow DEF OrderInv
  <2>2. CASE i = Len(readings')
    BY <1>1, <1>4, <2>2, AppendRow DEF OrderInv
  <2> QED
    BY <1>6, <2>1, <2>2, AppendRow
<1>7. \A s \in Runs :
         /\ pc'[s] \in {"arbitrate", "ask", "record"} => chosen'[s] \in {0, Len(readings')}
         /\ pc'[s] = "commit" => chosen'[s] \in {0, Len(readings'), Len(readings') - 1}
         /\ pc'[s] = "evaluate" => chosen'[s] \in {Len(readings'), Len(readings') - 1}
  BY <1>3 DEF Working, RunState
<1> QED
  BY <1>5, <1>6, <1>7

(* A session ends: what is committed is newer than what was compared. *)
LEMMA CloseOrder ==
  ASSUME OrderOK, NEW r \in Runs, NEW kept \in BOOLEAN, Close(r, kept), Holds(r),
         UNCHANGED <<compared, overrun>>,
         \A s \in Runs \ {r} : pc'[s] = pc[s],
         pc'[r] \in {"queued", "done", "release", "evaluate"},
         pc'[r] = "evaluate" => chosen'[r] \in {Len(readings), Len(readings) - 1}
  PROVE  OrderInv'
<1> USE Positions DEF OrderOK
<1>1. compared'.new <= Len(readings') /\ compared'.base <= Len(readings')
  BY CloseRow DEF OrderInv
<1> SUFFICES ASSUME ~overrun
             PROVE  /\ NoneBetween'
                    /\ \A i \in DOMAIN readings' : ~readings'[i].open
                    /\ \A s \in Runs :
                         /\ pc'[s] \in {"arbitrate", "ask", "record"} => chosen'[s] \in {0, Len(readings')}
                         /\ pc'[s] = "commit" =>
                              chosen'[s] \in {0, Len(readings'), Len(readings') - 1}
                         /\ pc'[s] = "evaluate" =>
                              chosen'[s] \in {Len(readings'), Len(readings') - 1}
  BY <1>1 DEF OrderInv
<1>2. compared.new \in Nat /\ compared.base \in Nat
  BY DEF TypeOK
<1>3. \A s \in Runs \ {r} : pc'[s] \notin Working
  BY Alone DEF Holds
<1>4. NoneBetween'
  <2> SUFFICES ASSUME NEW i \in StoredIds'
               PROVE  /\ ~(compared.base < i /\ i < compared.new)
                      /\ ~(compared.new < i /\ i < compared.base)
    BY DEF NoneBetween
  <2>1. CASE i \in StoredIds
    BY <2>1 DEF OrderInv, NoneBetween
  <2>2. CASE i \in DOMAIN readings /\ readings[i].open
    BY <1>2, <2>2 DEF OrderInv
  <2> QED
    BY <2>1, <2>2, CloseRow
<1>5. ASSUME NEW i \in DOMAIN readings', readings'[i].open PROVE FALSE
  <2>1. /\ i \in DOMAIN readings /\ readings[i].open /\ readings[i].run # r
    BY <1>5, CloseRow
  <2>2. readings[i].run \in Runs /\ Holds(readings[i].run)
    BY <2>1 DEF OrderInv, Recorded, Holds, Working, RunState
  <2> QED
    BY <2>1, <2>2, Alone
<1>6. \A s \in Runs :
         /\ pc'[s] \in {"arbitrate", "ask", "record"} => chosen'[s] \in {0, Len(readings')}
         /\ pc'[s] = "commit" => chosen'[s] \in {0, Len(readings'), Len(readings') - 1}
         /\ pc'[s] = "evaluate" => chosen'[s] \in {Len(readings'), Len(readings') - 1}
  BY <1>3, CloseRow DEF Working, RunState
<1> QED
  BY <1>4, <1>5, <1>6
(* An evaluation compares neighbours, and no session is open meanwhile. *)
LEMMA EvaluateOrder ==
  ASSUME OrderOK, NEW r \in Runs, Evaluate(r)
  PROVE  OrderInv'
<1> USE Positions DEF OrderOK
<1> DEFINE i == chosen[r]
<1>1. /\ UNCHANGED <<readings, chosen, overrun>>
      /\ pc[r] = "evaluate" /\ pc'[r] = "release"
      /\ \A s \in Runs \ {r} : pc'[s] = pc[s]
  BY DEF Evaluate, TypeOK, lockVars
<1>2. Holds(r)
  BY <1>1 DEF Holds, Working, RunState
<1>3. CASE UNCHANGED compared
  <2>1. \A s \in Runs : StaysInOrder(s)
    BY <1>1 DEF StaysInOrder, Recorded
  <2> QED
    BY <1>1, <1>3, <2>1, OrderKept
<1>4. CASE ~ UNCHANGED compared
  <2>1. i \in StoredIds /\ compared' = [new |-> i, base |-> BaselineOf(i)]
    BY <1>4 DEF Evaluate, Newest
  <2>2. compared'.new <= Len(readings') /\ compared'.base <= Len(readings')
    <3>1. StoredIds # {} /\ Len(readings) \in Nat
      BY <2>1
    <3>2. BaselineOf(i) \in Nat /\ BaselineOf(i) <= Len(readings)
      <4> DEFINE others == Newest(2) \ {i}
      <4>1. others \in SUBSET (1..Len(readings))
        BY DEF Newest
      <4>2. CASE others = {}
        BY <4>2 DEF BaselineOf
      <4>3. CASE others # {}
        <5>1. \E j \in others : \A l \in others : l <= j
          BY <4>1, <4>3, Greatest
        <5> QED
          BY <4>1, <4>3, <5>1 DEF BaselineOf
      <4> QED
        BY <4>2, <4>3
    <3> QED
      BY <1>1, <2>1, <3>2
  <2>3. CASE overrun
    BY <1>1, <2>2, <2>3 DEF OrderInv
  <2>4. CASE ~overrun
    <3>1. i \in {Len(readings), Len(readings) - 1}
      BY <1>1, <2>4 DEF OrderInv
    <3>2. NoneBetween'
      BY <1>1, <2>1, <3>1, Adjacent DEF NoneBetween, StoredIds
    <3>3. ASSUME NEW k \in DOMAIN readings, readings[k].open PROVE FALSE
      <4>1. readings[k].run \in Runs /\ pc[readings[k].run] \in Recorded
        BY <2>4, <3>3 DEF OrderInv
      <4>2. Holds(readings[k].run)
        BY <4>1 DEF Recorded, Holds, Working, RunState
      <4> QED
        BY <1>1, <1>2, <2>4, <4>1, <4>2, Alone DEF Recorded
    <3>4. \A s \in Runs :
            /\ pc'[s] \in {"arbitrate", "ask", "record"} => chosen'[s] \in {0, Len(readings')}
            /\ pc'[s] = "commit" => chosen'[s] \in {0, Len(readings'), Len(readings') - 1}
            /\ pc'[s] = "evaluate" => chosen'[s] \in {Len(readings'), Len(readings') - 1}
      BY <1>1, <2>4 DEF OrderInv
    <3> QED
      BY <1>1, <2>2, <3>2, <3>3, <3>4 DEF OrderInv
  <2> QED
    BY <2>3, <2>4 DEF TypeOK
<1> QED
  BY <1>3, <1>4

LEMMA OrderStep == OrderOK /\ [Next]_vars => OrderInv'
<1> SUFFICES ASSUME OrderOK, [Next]_vars PROVE OrderInv'
  OBVIOUS
<1> USE ScrapeAssumption
<1>0. TypeOK
  BY DEF OrderOK
<1>1. ASSUME NEW r \in Runs, RunStep(r) PROVE OrderInv'
  <2>1. CASE \/ Acquire(r) \/ Skip(r) \/ UnknownProduct(r) \/ Arbitrate(r) \/ Answer(r)
             \/ Release(r)
    <3>1. UNCHANGED <<readings, compared>> /\ overrun' = overrun
      BY <2>1 DEF Acquire, Skip, UnknownProduct, Arbitrate, Answer, Release, Unlock, readingVars,
         lockVars
    <3>2. \A s \in Runs \ {r} : pc'[s] = pc[s] /\ chosen'[s] = chosen[s]
      BY <1>0, <2>1 DEF Acquire, Skip, UnknownProduct, Arbitrate, Answer, Release, readingVars, TypeOK
    <3>3. \/ pc[r] \notin Recorded /\ pc'[r] \notin Recorded \cup {"evaluate"}
          \/ pc[r] \in {"arbitrate", "ask"} /\ pc'[r] \in {"ask", "record", "commit"} /\ chosen'[r] = chosen[r]
      BY <1>0, <2>1 DEF Acquire, Skip, UnknownProduct, Arbitrate, Answer, Release, readingVars, TypeOK,
         Recorded
    <3>4. \A s \in Runs : StaysInOrder(s)
      BY <3>2, <3>3 DEF StaysInOrder, Recorded
    <3> QED
      BY <3>1, <3>4, OrderKept
  <2>2. CASE Scrape(r)
    <3>1. PICK p \in Price, doubt \in BOOLEAN :
            /\ readings' = Appended(r, p)
            /\ chosen' = [chosen EXCEPT ![r] = IF p = NoPrice THEN 0 ELSE Len(readings')]
            /\ pc' = [pc EXCEPT ![r] =
                        IF ShouldArbitrate(p, doubt) THEN "arbitrate" ELSE "commit"]
      BY <2>2 DEF Scrape
    <3>2. Holds(r) /\ UNCHANGED <<compared, overrun>>
      BY <2>2 DEF Scrape, Holds, Working, RunState, lockVars
    <3>3. /\ pc'[r] \in {"arbitrate", "commit"} /\ chosen'[r] \in {0, Len(readings')}
          /\ \A s \in Runs \ {r} : pc'[s] = pc[s]
      BY <1>0, <3>1 DEF TypeOK
    <3> QED
      BY <3>1, <3>2, <3>3, AppendOrder
  <2>3. CASE RecordAnswer(r)
    <3>1. PICK p \in Prices, doubt \in BOOLEAN :
            /\ readings' = Appended(r, p)
            /\ chosen' = IF doubt THEN chosen ELSE [chosen EXCEPT ![r] = Len(readings')]
      BY <2>3 DEF RecordAnswer
    <3>2. /\ pc[r] = "record" /\ Holds(r) /\ UNCHANGED <<compared, overrun>>
          /\ pc'[r] = "commit" /\ \A s \in Runs \ {r} : pc'[s] = pc[s]
      BY <1>0, <2>3 DEF RecordAnswer, Holds, Working, RunState, lockVars, TypeOK
    <3>3. p \in Price
      BY DEF Price
    <3>4. Len(readings') = Len(readings) + 1 /\ Len(readings) \in Nat
      BY <1>0, <3>1, <3>3, AppendRow, Positions
    <3>5. CASE overrun
      <4>1. compared.new <= Len(readings') /\ compared.base <= Len(readings')
        BY <1>0, <3>4 DEF OrderOK, OrderInv, TypeOK
      <4> QED
        BY <3>2, <3>5, <4>1 DEF OrderInv
    <3>6. CASE ~overrun
      <4>1. chosen[r] \in {0, Len(readings)}
        BY <3>2, <3>6 DEF OrderOK, OrderInv
      <4>2. chosen'[r] \in {0, Len(readings'), Len(readings') - 1}
        BY <1>0, <3>1, <3>4, <4>1 DEF TypeOK
      <4> QED
        BY <3>1, <3>2, <3>3, <4>2, AppendOrder
    <3> QED
      BY <1>0, <3>5, <3>6 DEF TypeOK
  <2>4. CASE Commit(r)
    <3>1. /\ Holds(r) /\ UNCHANGED <<compared, overrun, chosen>> /\ Close(r, TRUE)
          /\ pc'[r] = IF chosen[r] = 0 THEN "release" ELSE "evaluate"
          /\ \A s \in Runs \ {r} : pc'[s] = pc[s]
      BY <1>0, <2>4 DEF Commit, Holds, Working, RunState, lockVars, TypeOK
    <3>2. CASE overrun
      BY <1>0, <3>1, <3>2, CloseRow DEF OrderOK, OrderInv
    <3>3. CASE ~overrun
      <4>1. chosen[r] \in {0, Len(readings), Len(readings) - 1}
        BY <2>4, <3>3 DEF Commit, OrderOK, OrderInv
      <4>2. /\ pc'[r] \in {"queued", "done", "release", "evaluate"}
            /\ pc'[r] = "evaluate" => chosen'[r] \in {Len(readings), Len(readings) - 1}
        BY <3>1, <4>1
      <4> QED
        BY <3>1, <4>2, CloseOrder
    <3> QED
      BY <1>0, <3>2, <3>3 DEF TypeOK
  <2>5. CASE Evaluate(r)
    BY <2>5, EvaluateOrder
  <2> QED
    BY <1>1, <2>1, <2>2, <2>3, <2>4, <2>5 DEF RunStep
<1>2. ASSUME NEW r \in Runs, Raise(r) \/ Crash(r) PROVE OrderInv'
  <2>1. /\ Holds(r) /\ UNCHANGED <<compared, overrun>> /\ Close(r, FALSE)
        /\ pc'[r] \in {"queued", "done", "release", "evaluate"} /\ pc'[r] # "evaluate"
        /\ \A s \in Runs \ {r} : pc'[s] = pc[s]
    BY <1>0, <1>2 DEF Raise, Crash, RollBack, Unlock, TypeOK
  <2> QED
    BY <2>1, CloseOrder
<1>3. CASE Tick \/ AiKeyExpires \/ UNCHANGED vars
  <2>1. UNCHANGED <<pc, chosen, readings, compared>> /\ (overrun => overrun')
    <3>1. CASE Tick
      BY <3>1 DEF Tick, readingVars
    <3>2. CASE AiKeyExpires \/ UNCHANGED vars
      BY <3>2 DEF AiKeyExpires, vars, readingVars, lockVars
    <3> QED
      BY <1>3, <3>1, <3>2
  <2>2. \A s \in Runs : StaysInOrder(s)
    BY <2>1 DEF StaysInOrder
  <2> QED
    BY <2>1, <2>2, OrderKept
<1> QED
  BY <1>1, <1>2, <1>3 DEF Next
----------------------------------------------------------------------------
(* Until a run outlives its lease, an evaluation never skips a reading:    *)
(* for any number of runs, retries, exceptions and crashes.                *)
THEOREM NothingSkipped == Spec => []NoReadingSkipped
<1>1. Init => OrderInv
  BY DEF Init, OrderInv, NoneBetween, StoredIds
<1>2. IInv /\ OrderInv /\ [Next]_vars => OrderInv'
  BY OrderStep DEF OrderOK, IInv
<1>3. OrderInv => NoReadingSkipped
  BY DEF OrderInv, NoneBetween, NoReadingSkipped
<1> QED
  BY Inductive, <1>1, <1>2, <1>3, PTL DEF Spec
=============================================================================
