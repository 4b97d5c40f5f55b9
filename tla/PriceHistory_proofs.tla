------------------------ MODULE PriceHistory_proofs ------------------------
(***************************************************************************)
(* What holds of PriceHistory for every shop, every misreading and every   *)
(* answer of the extractor.  The argument: the currency of the product row *)
(* is that of the newest snapshot, since each reading is recorded in both; *)
(* so a reading without a flag has the currency of the snapshot before it. *)
(***************************************************************************)
EXTENDS PriceHistory, FiniteSetTheorems, TLAPS

Currencies == Codes \cup {NoCurrency}
Snapshot   == [price : 0..PriceMax, currency : Currencies, stock : Stocks, confidence : 0..4]

(* The product row goes with its snapshots. *)
Agree(row, snapshots) ==
  /\ row.currency \in Currencies
  /\ snapshots \in Seq(Snapshot) /\ Len(snapshots) <= Recent
  /\ snapshots # << >> => row.currency = snapshots[1].currency

(* A newest snapshot without a flag has the currency of the one before. *)
OneCurrency(snapshots) ==
  Len(snapshots) >= 2 /\ snapshots[1].confidence = 4
    => \/ snapshots[2].currency = snapshots[1].currency
       \/ NoCurrency \in {snapshots[1].currency, snapshots[2].currency}

HistoryInv ==
  /\ shop \in Offers
  /\ Agree(product, history)
  /\ OneCurrency(history)
  /\ alert.at \in 0..2 /\ alert.at <= Len(history)
  /\ alert.fired # {} => alert.at # 0
  /\ alert.at = 1 /\ "drop" \in alert.fired => Len(history) >= 2
----------------------------------------------------------------------------
LEMMA FlagsFinite == ASSUME NEW S \in SUBSET Flags PROVE IsFiniteSet(S) /\ Cardinality(S) \in Nat
<1> DEFINE assessed == {"ambiguous_locale"} \cup {"currency_conflict"} \cup {"price_smell"}
                         \cup {"candidate_disagreement"} \cup {"block_page_title"}
                         \cup {"stock_without_price"}
           crossed  == {"cross_tier_price"} \cup {"cross_tier_title"} \cup {"cross_tier_stock"}
           stateful == {"magnitude_change"} \cup {"price_out_of_band"} \cup {"currency_flip"}
                         \cup {"identifier_drift"} \cup {"title_drift"} \cup {"stock_flapping"}
<1>1. IsFiniteSet(assessed) /\ IsFiniteSet(crossed) /\ IsFiniteSet(stateful)
  BY FS_Singleton, FS_Union
<1>2. IsFiniteSet(assessed \cup crossed \cup stateful)
  BY <1>1, FS_Union
<1>3. S \subseteq assessed \cup crossed \cup stateful
  BY DEF Flags
<1> QED
  BY <1>2, <1>3, FS_Subset, FS_CardinalityType

LEMMA Stateful ==
  ASSUME NEW reading, NEW row, NEW snapshots
  PROVE  /\ StatefulFlags(reading, row, snapshots) \subseteq Flags
         /\ "currency_flip" \in StatefulFlags(reading, row, snapshots)
              <=> Differ(row.currency, reading.currency, NoCurrency)
<1>1. StatefulFlags(reading, row, snapshots) \subseteq Flags
  BY DEF StatefulFlags, Flags
<1>2. "currency_flip" \in StatefulFlags(reading, row, snapshots)
        <=> Differ(row.currency, reading.currency, NoCurrency)
  BY DEF StatefulFlags
<1> QED
  BY <1>1, <1>2

(* Full confidence is that of a reading without any flag. *)
LEMMA Validated ==
  ASSUME NEW reading \in Readings, NEW row, NEW snapshots,
         NEW v \in ValidateSnapshot(reading, row, snapshots)
  PROVE  /\ v.confidence \in 0..4 /\ v.flags \subseteq Flags
         /\ v.confidence = 4 => ~Differ(row.currency, reading.currency, NoCurrency)
<1> DEFINE stateful == StatefulFlags(reading, row, snapshots)
           n == Cardinality(reading.flags) + Cardinality(stateful)
<1>1. reading.flags \subseteq Flags /\ stateful \subseteq Flags
  BY Stateful DEF Readings
<1>2. v.confidence = Confidence(n) /\ v.flags = reading.flags \cup stateful
  BY DEF ValidateSnapshot
<1>3. Cardinality(reading.flags) \in Nat /\ Cardinality(stateful) \in Nat
  BY <1>1, FlagsFinite
<1>4. Confidence(n) \in 0..4 /\ (Confidence(n) = 4 => Cardinality(stateful) = 0)
  BY <1>3 DEF Confidence
<1>5. Cardinality(stateful) = 0 => stateful = {}
  BY <1>1, FlagsFinite, FS_EmptySet
<1> QED
  BY <1>1, <1>2, <1>4, <1>5, Stateful

(* The newest of the snapshots with one put before them. *)
LEMMA NewestPrepended ==
  ASSUME NEW snapshots \in Seq(Snapshot), NEW x \in Snapshot
  PROVE  LET new == Newest(<<x>> \o snapshots)
         IN  /\ new \in Seq(Snapshot) /\ Len(new) <= Recent /\ Len(new) >= 1
             /\ new[1] = x
             /\ Len(new) >= 2 <=> Len(snapshots) >= 1
             /\ Len(new) >= 2 => new[2] = snapshots[1]
<1> DEFINE all == <<x>> \o snapshots
           n == IF Len(all) < Recent THEN Len(all) ELSE Recent
<1>1. /\ all \in Seq(Snapshot) /\ Len(all) = Len(snapshots) + 1 /\ Len(snapshots) \in Nat
      /\ all[1] = x /\ (Len(snapshots) >= 1 => all[2] = snapshots[1])
  OBVIOUS
<1>2. Recent \in Nat /\ Recent >= 2
  BY PriceHistoryAssumption, ValidationAssumption
<1> HIDE DEF all
<1>3. n \in 1..Len(all) /\ n <= Recent
  BY <1>1, <1>2
<1> HIDE DEF n
<1>4. /\ SubSeq(all, 1, n) \in Seq(Snapshot) /\ Len(SubSeq(all, 1, n)) = n
      /\ \A i \in 1..n : SubSeq(all, 1, n)[i] = all[i]
  BY <1>1, <1>3
<1>5. Newest(all) = SubSeq(all, 1, n)
  BY DEF Newest, n
<1>6. /\ Newest(all) \in Seq(Snapshot) /\ Len(Newest(all)) = n /\ n >= 1
      /\ Newest(all)[1] = all[1]
      /\ n >= 2 => Newest(all)[2] = all[2]
  BY <1>1, <1>3, <1>4, <1>5
<1>7. /\ Newest(all) \in Seq(Snapshot) /\ Len(Newest(all)) <= Recent /\ Len(Newest(all)) >= 1
      /\ Newest(all)[1] = x
      /\ Len(Newest(all)) >= 2 => Newest(all)[2] = snapshots[1]
      /\ Len(Newest(all)) >= 2 <=> Len(snapshots) >= 1
  BY <1>1, <1>2, <1>3, <1>6 DEF n
<1> QED
  BY <1>7 DEF all

(* record_snapshot keeps row and snapshots in agreement. *)
LEMMA RecordedAgrees ==
  ASSUME NEW row, NEW snapshots, Agree(row, snapshots), NEW reading \in Readings,
         NEW out \in Recorded(row, snapshots, reading)
  PROVE  /\ Agree(out.row, out.snapshots) /\ OneCurrency(out.snapshots)
         /\ Len(out.snapshots) >= 1
         /\ Len(snapshots) >= 1 => Len(out.snapshots) >= 2
<1>1. PICK v \in ValidateSnapshot(reading, row, snapshots) :
        out = [row |-> Updated(row, reading), decision |-> v.decision,
               snapshots |-> Appended(snapshots, reading, v.confidence)]
  BY DEF Recorded
<1> DEFINE x == [price |-> reading.price, currency |-> reading.currency, stock |-> reading.stock,
                 confidence |-> v.confidence]
<1>2. /\ v.confidence \in 0..4
      /\ v.confidence = 4 => ~Differ(row.currency, reading.currency, NoCurrency)
  BY Validated
<1>3. x \in Snapshot
  BY <1>2 DEF Snapshot, Readings, Currencies
<1>4. out.snapshots = Newest(<<x>> \o snapshots) /\ out.row.currency = x.currency
  BY <1>1 DEF Appended, Updated
<1>5. x.currency = reading.currency /\ x.confidence = v.confidence /\ x.price = reading.price
      /\ x.currency \in Currencies
  BY <1>3 DEF Snapshot
<1>6. snapshots \in Seq(Snapshot) /\ (Len(snapshots) >= 1 => row.currency = snapshots[1].currency)
  BY DEF Agree
<1> HIDE DEF x
<1>7. /\ out.snapshots \in Seq(Snapshot) /\ Len(out.snapshots) <= Recent
      /\ Len(out.snapshots) >= 1 /\ out.snapshots[1] = x
      /\ Len(out.snapshots) >= 2 <=> Len(snapshots) >= 1
      /\ Len(out.snapshots) >= 2 => out.snapshots[2] = snapshots[1]
  BY <1>3, <1>4, <1>6, NewestPrepended
<1>8. Agree(out.row, out.snapshots)
  BY <1>4, <1>5, <1>7 DEF Agree
<1>9. OneCurrency(out.snapshots)
  BY <1>2, <1>5, <1>6, <1>7 DEF OneCurrency, Differ
<1> QED
  BY <1>5, <1>7, <1>8, <1>9
----------------------------------------------------------------------------
LEMMA EvaluationFacts ==
  ASSUME NEW snapshots, NEW at \in 0..2, Len(snapshots) \in Nat, at <= Len(snapshots)
  PROVE  LET e == Evaluation(snapshots, at)
         IN  /\ e.at = at
             /\ e.fired # {} => e.at # 0
             /\ e.at = 1 /\ "drop" \in e.fired => Len(snapshots) >= 2
<1>1. CASE at = 0
  BY <1>1 DEF Evaluation, NoAlert
<1>2. CASE at # 0
  <2>1. Evaluation(snapshots, at).at = at
    BY <1>2 DEF Evaluation
  <2>2. ASSUME at = 1, "drop" \in Evaluation(snapshots, at).fired, ~(Len(snapshots) >= 2)
        PROVE  FALSE
    <3>1. Base(snapshots, at) = Silent
      BY <2>2 DEF Base
    <3>2. Drops(Silent, snapshots[at])
      BY <1>2, <2>2, <3>1 DEF Evaluation, Fires
    <3> QED
      BY <3>2 DEF Drops, Silent
  <2> QED
    BY <1>2, <2>1, <2>2
<1> QED
  BY <1>1, <1>2

(* What an evaluation leaves when the snapshots are in order. *)
LEMMA Concluded ==
  ASSUME UNCHANGED shop, shop \in Offers, Agree(product', history'), OneCurrency(history'),
         NEW at \in 0..2, at <= Len(history'), alert' = Evaluation(history', at)
  PROVE  HistoryInv'
<1>1. Len(history') \in Nat
  BY DEF Agree
<1>2. /\ alert'.at = at
      /\ alert'.fired # {} => alert'.at # 0
      /\ alert'.at = 1 /\ "drop" \in alert'.fired => Len(history') >= 2
  BY <1>1, EvaluationFacts
<1> QED
  BY <1>2 DEF HistoryInv, Agree, OneCurrency

LEMMA RightReading ==
  ASSUME shop \in Offers
  PROVE  Right \in Readings
<1>1. shop.price \in 0..PriceMax /\ shop.stock \in Stocks
  BY PriceHistoryAssumption, QuotesAssumption
<1> QED
  BY <1>1 DEF Right, Readings, Titles, Numbers, Codes

LEMMA RightAnswered ==
  ASSUME shop \in Offers
  PROVE  RightAnswer \in Readings
<1>1. \A r \in Readings : [r EXCEPT !.number = NoNumber] \in Readings
  BY DEF Readings, Numbers
<1> QED
  BY <1>1, RightReading DEF RightAnswer

LEMMA FailureReading == Failure \in Readings
  BY QuotesAssumption DEF Failure, Readings, Titles, Numbers, Stocks, NoPrice

(* An answer of the extractor stays a reading with the flags put into it. *)
LEMMA AnswerTyped ==
  ASSUME NEW answer \in Readings, NEW row, NEW snapshots,
         NEW result \in AiExtract(answer, row, snapshots)
  PROVE  result \in Readings
<1>1. PICK v \in ValidateSnapshot(answer, row, snapshots) : result = [answer EXCEPT !.flags = v.flags]
  BY DEF AiExtract
<1>2. v.flags \subseteq Flags
  BY Validated
<1> QED
  BY <1>1, <1>2 DEF Readings

LEMMA RunStep ==
  ASSUME HistoryInv, NEW reading \in Readings, ScrapeProduct(reading)
  PROVE  HistoryInv'
<1> USE DEF HistoryInv
<1>1. PICK first \in Recorded(product, history, reading) :
        Conclude(reading, first)
          \/ \E answer \in {RightAnswer} \cup (IF steady THEN {} ELSE Answers) :
               Replace(reading, first, answer)
  BY DEF ScrapeProduct
<1>2. UNCHANGED shop
  BY DEF ScrapeProduct
<1>3. /\ Agree(first.row, first.snapshots) /\ OneCurrency(first.snapshots)
      /\ Len(first.snapshots) >= 1
  BY RecordedAgrees
<1>4. CASE Conclude(reading, first)
  <2>1. Fallback(reading, 1) \in {0, 1}
    BY DEF Fallback
  <2>2. /\ product' = first.row /\ history' = first.snapshots
        /\ alert' = Evaluation(history', Fallback(reading, 1))
    BY <1>4 DEF Conclude
  <2>3. Len(first.snapshots) \in Nat
    BY <1>3 DEF Agree
  <2> QED
    BY <1>2, <1>3, <2>1, <2>2, <2>3, Concluded
<1>5. CASE \E answer \in {RightAnswer} \cup (IF steady THEN {} ELSE Answers) :
             Replace(reading, first, answer)
  <2>1. PICK answer \in Readings : Replace(reading, first, answer)
    BY <1>5, RightAnswered, PriceHistoryAssumption
  <2>2. PICK result \in AiExtract(answer, first.row, first.snapshots) :
        \E second \in Recorded(first.row, first.snapshots, result) :
          /\ product' = second.row
          /\ history' = second.snapshots
          /\ alert' = Evaluation(second.snapshots,
                        IF second.decision # "arbitrate" THEN 1 ELSE Fallback(reading, 2))
    BY <2>1 DEF Replace
  <2>3. PICK second \in Recorded(first.row, first.snapshots, result) :
          /\ product' = second.row
          /\ history' = second.snapshots
          /\ alert' = Evaluation(second.snapshots,
                        IF second.decision # "arbitrate" THEN 1 ELSE Fallback(reading, 2))
    BY <2>2
  <2>4. result \in Readings
    BY <2>1, AnswerTyped
  <2>5. /\ Agree(product', history') /\ OneCurrency(history')
        /\ Len(history') >= 2
    BY <1>3, <2>3, <2>4, RecordedAgrees
  <2> DEFINE at == IF second.decision # "arbitrate" THEN 1 ELSE Fallback(reading, 2)
  <2>6. at \in 0..2 /\ alert' = Evaluation(history', at)
    BY <2>3 DEF Fallback
  <2>7. Len(history') \in Nat
    BY <2>5 DEF Agree
  <2> HIDE DEF at
  <2>8. at <= Len(history')
    BY <2>5, <2>6, <2>7
  <2> QED
    BY <1>2, <2>5, <2>6, <2>8, Concluded
<1> QED
  BY <1>1, <1>4, <1>5

LEMMA HistoryStep == HistoryInv /\ [Next]_vars => HistoryInv'
<1> SUFFICES ASSUME HistoryInv, [Next]_vars PROVE HistoryInv'
  OBVIOUS
<1>1. CASE ScrapeRight
  BY <1>1, RightReading, RunStep DEF ScrapeRight, HistoryInv
<1>2. CASE ScrapeWrong
  BY <1>2, FailureReading, RunStep, PriceHistoryAssumption DEF ScrapeWrong
<1>3. CASE Expire \/ ShopChanges \/ Settle \/ UNCHANGED vars
  BY <1>3 DEF Expire, ShopChanges, Settle, vars, HistoryInv, Agree, OneCurrency
<1> QED
  BY <1>1, <1>2, <1>3 DEF Next

LEMMA InitHistory == Init => HistoryInv
<1> SUFFICES ASSUME Init PROVE HistoryInv
  OBVIOUS
<1>1. Recent \in Nat /\ history = << >> /\ Len(history) = 0 /\ history \in Seq(Snapshot)
  BY PriceHistoryAssumption DEF Init
<1>2. Agree(product, history) /\ OneCurrency(history)
  BY <1>1 DEF Init, Agree, OneCurrency, Currencies
<1> QED
  BY <1>1, <1>2 DEF Init, HistoryInv, NoAlert
----------------------------------------------------------------------------
(* The row, the snapshots and the evaluation agree in every behaviour. *)
THEOREM HistoryInvariant == Spec => []HistoryInv
  BY InitHistory, HistoryStep, PTL DEF Spec

(* Every variable keeps its type; the evaluated reading is one of the two  *)
(* newest, and it exists.                                                  *)
THEOREM TypeCorrect == Spec => []TypeOK
<1>1. HistoryInv => TypeOK
  <2> SUFFICES ASSUME HistoryInv PROVE TypeOK
    OBVIOUS
  <2>1. \A i \in DOMAIN history : history[i] \in Snapshot
    BY DEF HistoryInv, Agree
  <2>2. \A i \in DOMAIN history :
          history[i].price \in 0..PriceMax /\ history[i].confidence \in 0..4
    BY <2>1 DEF Snapshot
  <2> QED
    BY <2>2 DEF HistoryInv, Agree, TypeOK, Currencies
<1> QED
  BY <1>1, HistoryInvariant, PTL

(* A drop that no check doubted compares prices of one currency, whatever  *)
(* was misread, whatever the extractor answered, and however the runs of   *)
(* both alternate.                                                         *)
THEOREM DropsInOneCurrency == Spec => []DropInOneCurrency
<1>1. HistoryInv => DropInOneCurrency
  BY DEF HistoryInv, OneCurrency, DropInOneCurrency
<1> QED
  BY <1>1, HistoryInvariant, PTL
----------------------------------------------------------------------------
(* Among at least three prices of which all but one are the same, that one *)
(* is the k-th smallest for every k but the first and the last.            *)
LEMMA KthOfEqual ==
  ASSUME NEW snapshots, IsFiniteSet(DOMAIN snapshots), NEW price \in Nat, NEW odd,
         \A i \in Priced(snapshots) : snapshots[i].price \in Nat,
         \A i \in Priced(snapshots) \ {odd} : snapshots[i].price = price,
         Priced(snapshots) \ {odd} # {},
         NEW k \in Nat, k >= 1, k <= Cardinality(Priced(snapshots)),
         odd \in Priced(snapshots) => k > 1 /\ k < Cardinality(Priced(snapshots))
  PROVE  Kth(snapshots, k) = price
<1> DEFINE P == Priced(snapshots)
           below(p) == Cardinality({i \in P : snapshots[i].price < p})
           upto(p)  == Cardinality({i \in P : snapshots[i].price <= p})
           n == Cardinality(P)
<1>0. IsFiniteSet({odd}) /\ Cardinality({odd}) = 1
  BY FS_Singleton
<1>1. IsFiniteSet(P) /\ n \in Nat
  BY FS_Subset, FS_CardinalityType DEF Priced
<1>2. /\ IsFiniteSet(P \ {odd}) /\ Cardinality(P \ {odd}) = IF odd \in P THEN n - 1 ELSE n
  BY <1>1, FS_RemoveElement
<1>3. \A p \in Nat : /\ below(p) \in Nat /\ upto(p) \in Nat
                     /\ below(p) <= n /\ upto(p) <= n
  <2> SUFFICES ASSUME NEW p \in Nat
               PROVE  below(p) \in Nat /\ upto(p) \in Nat /\ below(p) <= n /\ upto(p) <= n
    OBVIOUS
  <2>1. {i \in P : snapshots[i].price < p} \subseteq P /\ {i \in P : snapshots[i].price <= p} \subseteq P
    OBVIOUS
  <2> QED
    BY <1>1, <2>1, FS_Subset, FS_CardinalityType
<1>4. below(price) <= 1 /\ (odd \notin P => below(price) = 0)
  <2>1. {i \in P : snapshots[i].price < price} \subseteq P \cap {odd}
    OBVIOUS
  <2>2. CASE odd \in P
    <3>1. {i \in P : snapshots[i].price < price} \in SUBSET {odd}
      BY <2>1
    <3>2. Cardinality({i \in P : snapshots[i].price < price}) <= Cardinality({odd})
      BY <1>0, <3>1, FS_Subset
    <3> QED
      BY <1>0, <2>2, <3>2
  <2>3. CASE odd \notin P
    <3>1. {i \in P : snapshots[i].price < price} = {}
      BY <2>1, <2>3
    <3> QED
      BY <2>3, <3>1, FS_EmptySet
  <2> QED
    BY <2>2, <2>3
<1>5. upto(price) >= IF odd \in P THEN n - 1 ELSE n
  <2>1. P \ {odd} \in SUBSET {i \in P : snapshots[i].price <= price}
    OBVIOUS
  <2>2. IsFiniteSet({i \in P : snapshots[i].price <= price})
    BY <1>1, FS_Subset
  <2>3. Cardinality(P \ {odd}) <= upto(price)
    BY <2>1, <2>2, FS_Subset
  <2> QED
    BY <1>1, <1>2, <1>3, <2>3
<1>6. below(price) < k /\ k <= upto(price)
  BY <1>1, <1>3, <1>4, <1>5
<1>7. ASSUME NEW q \in {snapshots[i].price : i \in P}, below(q) < k, k <= upto(q)
      PROVE  q = price
  <2> SUFFICES ASSUME q # price PROVE FALSE
    OBVIOUS
  <2>1. odd \in P /\ q = snapshots[odd].price /\ q \in Nat
    OBVIOUS
  <2> HIDE DEF below, upto
  <2>2. CASE q < price
    <3>1. {i \in P : snapshots[i].price <= q} \in SUBSET {odd}
      BY <2>1, <2>2
    <3>2. Cardinality({i \in P : snapshots[i].price <= q}) <= Cardinality({odd})
      BY <1>0, <3>1, FS_Subset
    <3>3. upto(q) <= 1
      BY <1>0, <3>2 DEF upto
    <3> QED
      BY <1>3, <1>7, <2>1, <3>3
  <2>3. CASE q > price
    <3>1. P \ {odd} \in SUBSET {i \in P : snapshots[i].price < q}
      BY <2>1, <2>3
    <3>2. IsFiniteSet({i \in P : snapshots[i].price < q})
      BY <1>1, FS_Subset
    <3>3. Cardinality(P \ {odd}) <= below(q)
      BY <3>1, <3>2, FS_Subset DEF below
    <3> QED
      BY <1>1, <1>2, <1>3, <1>7, <2>1, <3>3
  <2> QED
    BY <2>1, <2>2, <2>3
<1>8. price \in {snapshots[i].price : i \in P}
  OBVIOUS
<1> HIDE DEF below, upto
<1>9. price = CHOOSE q \in {snapshots[i].price : i \in P} : below(q) < k /\ k <= upto(q)
  BY <1>6, <1>7, <1>8
<1> QED
  BY <1>9 DEF Kth, below, upto

(* The middle of three or more is neither the first nor the last. *)
LEMMA MedianOfEqual ==
  ASSUME NEW snapshots, IsFiniteSet(DOMAIN snapshots), NEW price \in Nat, NEW odd,
         \A i \in Priced(snapshots) : snapshots[i].price \in Nat,
         \A i \in Priced(snapshots) \ {odd} : snapshots[i].price = price,
         Cardinality(Priced(snapshots)) >= MinHistory,
         odd \in Priced(snapshots) => Cardinality(Priced(snapshots)) >= 3
  PROVE  Medians(snapshots) = {2 * price}
<1> DEFINE P == Priced(snapshots)
           n == Cardinality(P)
<1>1. IsFiniteSet(P) /\ n \in Nat /\ n >= 1
  BY ValidationAssumption, FS_Subset, FS_CardinalityType DEF Priced
<1>2. P \ {odd} # {}
  <2> SUFFICES ASSUME P \ {odd} = {} PROVE FALSE
    OBVIOUS
  <2>1. Cardinality(P \ {odd}) = 0
    BY FS_EmptySet
  <2>2. Cardinality(P \ {odd}) = IF odd \in P THEN n - 1 ELSE n
    BY <1>1, FS_RemoveElement
  <2> QED
    BY <1>1, <2>1, <2>2
<1> HIDE DEF n
<1>3. ASSUME NEW k \in {(n + 1) \div 2, n \div 2 + 1}
      PROVE  Kth(snapshots, k) = price
  <2>1. /\ k \in Nat /\ k >= 1 /\ k <= n
        /\ n >= 3 => k > 1 /\ k < n
    BY <1>1
  <2> QED
    BY <1>2, <2>1, KthOfEqual DEF n
<1>4. Kth(snapshots, (n + 1) \div 2) + Kth(snapshots, n \div 2 + 1) = 2 * price
  BY <1>3
<1>5. Medians(snapshots) = {Kth(snapshots, (n + 1) \div 2) + Kth(snapshots, n \div 2 + 1)}
  <2>1. ~(n < MinHistory)
    BY <1>1, ValidationAssumption DEF n
  <2> QED
    BY <2>1 DEF Medians, n
<1> QED
  BY <1>4, <1>5

(* Where the snapshots stand once one is put before them.                  *)
LEMMA Shifted ==
  ASSUME NEW snapshots \in Seq(Snapshot), Len(snapshots) <= Recent, NEW x \in Snapshot
  PROVE  LET new == Newest(<<x>> \o snapshots)
         IN  /\ new \in Seq(Snapshot) /\ 1 \in DOMAIN new /\ new[1] = x
             /\ \A i \in DOMAIN new : i # 1 =>
                  i - 1 \in DOMAIN snapshots /\ new[i] = snapshots[i - 1]
             /\ \A i \in DOMAIN snapshots : i # Recent =>
                  i + 1 \in DOMAIN new /\ i + 1 # 1 /\ new[i + 1] = snapshots[i]
<1> DEFINE all == <<x>> \o snapshots
           n == IF Len(all) < Recent THEN Len(all) ELSE Recent
           new == Newest(all)
<1>1. /\ all \in Seq(Snapshot) /\ Len(all) = Len(snapshots) + 1 /\ Len(snapshots) \in Nat
      /\ all[1] = x /\ \A i \in 1..Len(snapshots) : all[i + 1] = snapshots[i]
  OBVIOUS
<1>2. Recent \in Nat /\ Recent >= 2
  BY PriceHistoryAssumption, ValidationAssumption
<1> HIDE DEF all
<1>3. n \in 1..Len(all) /\ n <= Recent /\ n <= Len(snapshots) + 1
      /\ (Len(snapshots) < Recent => n = Len(snapshots) + 1) /\ (Len(snapshots) = Recent => n = Recent)
  BY <1>1, <1>2
<1> HIDE DEF n
<1>4. /\ SubSeq(all, 1, n) \in Seq(Snapshot) /\ Len(SubSeq(all, 1, n)) = n
      /\ \A i \in 1..n : SubSeq(all, 1, n)[i] = all[i]
  BY <1>1, <1>3
<1>5. /\ new \in Seq(Snapshot) /\ Len(new) = n /\ DOMAIN new = 1..n
      /\ \A i \in 1..n : new[i] = all[i]
  BY <1>4 DEF Newest, n
<1> HIDE DEF new
<1>6. DOMAIN snapshots = 1..Len(snapshots)
  OBVIOUS
<1>7. 1 \in DOMAIN new /\ new[1] = x
  BY <1>1, <1>3, <1>5
<1>8. ASSUME NEW i \in DOMAIN new, i # 1
      PROVE  i - 1 \in DOMAIN snapshots /\ new[i] = snapshots[i - 1]
  <2>1. i - 1 \in 1..Len(snapshots) /\ (i - 1) + 1 = i
    BY <1>1, <1>3, <1>5, <1>8
  <2> QED
    BY <1>1, <1>5, <1>6, <2>1
<1>9. ASSUME NEW i \in DOMAIN snapshots, i # Recent
      PROVE  i + 1 \in DOMAIN new /\ i + 1 # 1 /\ new[i + 1] = snapshots[i]
  <2>1. i \in 1..Len(snapshots) /\ Len(snapshots) \in Nat /\ n \in Nat
    BY <1>1, <1>3, <1>6
  <2>2. i <= n - 1
    <3>1. CASE Len(snapshots) < Recent
      BY <1>2, <1>3, <2>1, <3>1
    <3>2. CASE Len(snapshots) = Recent
      BY <1>2, <1>3, <1>9, <2>1, <3>2
    <3> QED
      BY <1>2, <2>1, <3>1, <3>2
  <2>3. i + 1 \in 1..n
    BY <2>1, <2>2
  <2> QED
    BY <1>1, <1>5, <2>1, <2>3
<1> QED
  BY <1>5, <1>7, <1>8, <1>9 DEF new, all

(* One reading, however wrong, does not move the median of a product that  *)
(* has long been at one price.                                             *)
LEMMA MedianStays ==
  ASSUME MinHistory >= 2, NEW snapshots \in Seq(Snapshot), Len(snapshots) <= Recent,
         NEW price \in 1..PriceMax, LongAt(snapshots, price), NEW x \in Snapshot
  PROVE  /\ Medians(snapshots) = {2 * price}
         /\ Medians(Newest(<<x>> \o snapshots)) = {2 * price}
<1> DEFINE new == Newest(<<x>> \o snapshots)
           old == Priced(snapshots)
           P   == Priced(new)
<1>1. /\ new \in Seq(Snapshot) /\ 1 \in DOMAIN new /\ new[1] = x
      /\ \A i \in DOMAIN new : i # 1 => i - 1 \in DOMAIN snapshots /\ new[i] = snapshots[i - 1]
      /\ \A i \in DOMAIN snapshots : i # Recent =>
           i + 1 \in DOMAIN new /\ i + 1 # 1 /\ new[i + 1] = snapshots[i]
  BY Shifted
<1>2. /\ DOMAIN snapshots \subseteq Nat /\ IsFiniteSet(DOMAIN snapshots)
      /\ DOMAIN new \subseteq Nat /\ IsFiniteSet(DOMAIN new)
  <2>1. ASSUME NEW s \in Seq(Snapshot) PROVE DOMAIN s \subseteq Nat /\ IsFiniteSet(DOMAIN s)
    <3>1. DOMAIN s = 1..Len(s) /\ Len(s) \in Nat
      OBVIOUS
    <3> QED
      BY <3>1, FS_Interval
  <2> QED
    BY <1>1, <2>1
<1>3. /\ \A i \in DOMAIN snapshots : snapshots[i].price \in Nat
      /\ \A i \in DOMAIN new : new[i].price \in Nat
  <2>1. \A y \in Snapshot : y.price \in Nat
    BY QuotesAssumption DEF Snapshot
  <2> QED
    BY <1>1, <2>1
<1> HIDE DEF new
<1>4. /\ IsFiniteSet(old) /\ Cardinality(old) \in Nat /\ Cardinality(old) > MinHistory
      /\ IsFiniteSet(P) /\ Cardinality(P) \in Nat /\ MinHistory \in Nat
  BY <1>2, ValidationAssumption, FS_Subset, FS_CardinalityType DEF Priced, LongAt
<1>5. price \in Nat
  BY QuotesAssumption
<1>6. Medians(snapshots) = {2 * price}
  <2>1. \A i \in Priced(snapshots) : snapshots[i].price = price
    BY DEF LongAt
  <2>2. 0 \notin Priced(snapshots)
    <3>1. DOMAIN snapshots = 1..Len(snapshots)
      OBVIOUS
    <3> QED
      BY <3>1 DEF Priced
  <2> QED
    BY <1>2, <1>3, <1>4, <1>5, <2>1, <2>2, MedianOfEqual DEF Priced
<1>7. \A i \in P \ {1} : new[i].price = price
  BY <1>1 DEF Priced, LongAt
<1>8. Cardinality(old \ {Recent}) <= Cardinality(P \ {1})
  <2> DEFINE next == [i \in old \ {Recent} |-> i + 1]
  <2>1. \A i \in old \ {Recent} : i + 1 \in P \ {1}
    BY <1>1 DEF Priced
  <2>2. next \in Injection(old \ {Recent}, P \ {1})
    <3>1. next \in [old \ {Recent} -> P \ {1}]
      BY <2>1
    <3>2. \A i, j \in old \ {Recent} : next[i] = next[j] => i = j
      BY <1>2 DEF Priced
    <3> QED
      BY <3>1, <3>2 DEF Injection, IsInjective
  <2>3. IsFiniteSet(P \ {1})
    BY <1>4, FS_RemoveElement
  <2> QED
    BY <2>2, <2>3, FS_Injection
<1>9. /\ Cardinality(old \ {Recent}) = IF Recent \in old THEN Cardinality(old) - 1 ELSE Cardinality(old)
      /\ Cardinality(P \ {1}) = IF 1 \in P THEN Cardinality(P) - 1 ELSE Cardinality(P)
  BY <1>4, FS_RemoveElement
<1> HIDE DEF old, P
<1>10. Cardinality(P) >= MinHistory /\ (1 \in P => Cardinality(P) >= 3)
  BY <1>4, <1>8, <1>9
<1>11. Medians(new) = {2 * price}
  BY <1>2, <1>3, <1>5, <1>7, <1>10, MedianOfEqual DEF Priced, P
<1> QED
  BY <1>6, <1>11 DEF new
----------------------------------------------------------------------------
(* A reading ten times off the median is doubted twice, which is more than *)
(* an alert allows.                                                        *)
LEMMA GlitchDoubted ==
  ASSUME NEW price \in 1..PriceMax, NEW row, NEW snapshots, Medians(snapshots) = {2 * price},
         NEW reading \in Readings, reading.price # NoPrice,
         RatioExceeds(reading.price, price, MagnitudeRatio),
         NEW v \in ValidateSnapshot(reading, row, snapshots)
  PROVE  v.confidence \in 0..2
<1> DEFINE stateful == StatefulFlags(reading, row, snapshots)
           two == {"magnitude_change", "price_out_of_band"}
<1>1. reading.price \in Nat /\ price \in Nat /\ reading.flags \subseteq Flags
  BY QuotesAssumption DEF Readings
<1>2. RatioExceeds(2 * reading.price, 2 * price, MagnitudeRatio)
  BY <1>1 DEF RatioExceeds, MagnitudeRatio
<1>3. OutOfBand(reading.price, 2 * price)
  BY <1>1 DEF RatioExceeds, MagnitudeRatio, OutOfBand, BandFactor
<1>4. two \subseteq stateful
  BY <1>2, <1>3 DEF StatefulFlags
<1>5. IsFiniteSet(stateful) /\ Cardinality(stateful) \in Nat /\ Cardinality(reading.flags) \in Nat
  BY <1>1, Stateful, FlagsFinite
<1>6. Cardinality(two) = 2
  <2>1. two = {"magnitude_change"} \cup {"price_out_of_band"}
    OBVIOUS
  <2>2. "price_out_of_band" \notin {"magnitude_change"}
    OBVIOUS
  <2>3. IsFiniteSet({"magnitude_change"}) /\ Cardinality({"magnitude_change"}) = 1
    BY FS_Singleton
  <2>4. Cardinality({"magnitude_change"} \cup {"price_out_of_band"}) = Cardinality({"magnitude_change"}) + 1
    BY <2>2, <2>3, FS_AddElement
  <2> QED
    BY <2>1, <2>3, <2>4
<1>7. Cardinality(stateful) >= 2
  BY <1>4, <1>5, <1>6, FS_Subset
<1>8. v.confidence = Confidence(Cardinality(reading.flags) + Cardinality(stateful))
  BY DEF ValidateSnapshot
<1> HIDE DEF stateful
<1> QED
  BY <1>5, <1>7, <1>8 DEF Confidence

LEMMA DoubtedIsSilent ==
  ASSUME NEW base, NEW new, new.price = NoPrice \/ new.confidence \in 0..2, NEW threshold
  PROVE  Fires(base, new, threshold) = {}
  BY DEF Fires, Drops, Reaches, Restocks

(* What a recorded reading leaves on top of a history.                     *)
Atop(x, snapshots) == Newest(<<x>> \o snapshots)

LEMMA RecordedOnTop ==
  ASSUME NEW row, NEW snapshots \in Seq(Snapshot), Len(snapshots) <= Recent,
         NEW reading \in Readings, NEW out \in Recorded(row, snapshots, reading)
  PROVE  \E v \in ValidateSnapshot(reading, row, snapshots), x \in Snapshot :
           /\ out.snapshots = Atop(x, snapshots)
           /\ x.price = reading.price /\ x.confidence = v.confidence
<1>1. PICK v \in ValidateSnapshot(reading, row, snapshots) :
        out = [row |-> Updated(row, reading), decision |-> v.decision,
               snapshots |-> Appended(snapshots, reading, v.confidence)]
  BY DEF Recorded
<1> DEFINE x == [price |-> reading.price, currency |-> reading.currency, stock |-> reading.stock,
                 confidence |-> v.confidence]
<1>2. v.confidence \in 0..4
  BY Validated
<1>3. x \in Snapshot
  BY <1>2 DEF Snapshot, Readings, Currencies
<1>4. out.snapshots = Atop(x, snapshots)
  BY <1>1 DEF Appended, Atop
<1> QED
  BY <1>3, <1>4

(* A glitch recorded on a history that has long been at one price.         *)
LEMMA GlitchRecorded ==
  ASSUME MinHistory >= 2, NEW price \in 1..PriceMax, NEW row,
         NEW snapshots, Medians(snapshots) = {2 * price},
         snapshots \in Seq(Snapshot), Len(snapshots) <= Recent,
         NEW reading \in Readings, NEW out \in Recorded(row, snapshots, reading),
         RatioExceeds(out.snapshots[1].price, price, MagnitudeRatio)
  PROVE  out.snapshots[1].price = NoPrice \/ out.snapshots[1].confidence \in 0..2
<1>1. PICK v \in ValidateSnapshot(reading, row, snapshots), x \in Snapshot :
        /\ out.snapshots = Atop(x, snapshots)
        /\ x.price = reading.price /\ x.confidence = v.confidence
  BY RecordedOnTop
<1>2. out.snapshots[1] = x
  BY <1>1, NewestPrepended DEF Atop
<1>3. reading.price # NoPrice => v.confidence \in 0..2
  BY <1>1, <1>2, GlitchDoubted
<1> QED
  BY <1>1, <1>2, <1>3

(* One run on a product that has long been at one price.                   *)
LEMMA RunIsSilent ==
  ASSUME MinHistory >= 2, HistoryInv, NEW reading \in Readings, ScrapeProduct(reading),
         NEW price \in 1..PriceMax, LongAt(history, price), alert'.at # 0,
         RatioExceeds(history'[alert'.at].price, price, MagnitudeRatio)
  PROVE  alert'.fired = {}
<1>1. PICK first \in Recorded(product, history, reading) :
        Conclude(reading, first)
          \/ \E answer \in {RightAnswer} \cup (IF steady THEN {} ELSE Answers) :
               Replace(reading, first, answer)
  BY DEF ScrapeProduct
<1>2. history \in Seq(Snapshot) /\ Len(history) <= Recent /\ Agree(product, history) /\ shop \in Offers
  BY DEF HistoryInv, Agree
<1>3. Agree(first.row, first.snapshots) /\ first.snapshots \in Seq(Snapshot) /\ Len(first.snapshots) <= Recent
      /\ Len(first.snapshots) >= 1
  BY <1>2, RecordedAgrees DEF Agree
<1>4. Medians(history) = {2 * price} /\ Medians(first.snapshots) = {2 * price}
  <2>1. PICK v \in ValidateSnapshot(reading, product, history), x \in Snapshot :
          first.snapshots = Atop(x, history)
    BY <1>2, RecordedOnTop
  <2> QED
    BY <1>2, <2>1, MedianStays DEF Atop
<1>5. RatioExceeds(first.snapshots[1].price, price, MagnitudeRatio)
        => first.snapshots[1].price = NoPrice \/ first.snapshots[1].confidence \in 0..2
  BY <1>2, <1>4, GlitchRecorded
<1>6. CASE Conclude(reading, first)
  <2>1. alert' = Evaluation(first.snapshots, Fallback(reading, 1)) /\ history' = first.snapshots
    BY <1>6 DEF Conclude
  <2>2. Fallback(reading, 1) \in {0, 1}
    BY DEF Fallback
  <2>3. CASE Fallback(reading, 1) = 0
    BY <2>1, <2>3 DEF Evaluation, NoAlert
  <2>4. CASE Fallback(reading, 1) = 1
    <3>1. /\ alert'.at = 1
          /\ alert'.fired = Fires(Base(first.snapshots, 1), first.snapshots[1], Threshold)
      BY <2>1, <2>4 DEF Evaluation
    <3> QED
      BY <1>5, <2>1, <3>1, DoubtedIsSilent
  <2> QED
    BY <2>2, <2>3, <2>4
<1>7. ASSUME NEW answer \in Readings, Replace(reading, first, answer)
      PROVE  alert'.fired = {}
  <2>1. PICK result \in AiExtract(answer, first.row, first.snapshots) :
        \E second \in Recorded(first.row, first.snapshots, result) :
          /\ product' = second.row
          /\ history' = second.snapshots
          /\ alert' = Evaluation(second.snapshots,
                        IF second.decision # "arbitrate" THEN 1 ELSE Fallback(reading, 2))
    BY <1>7 DEF Replace
  <2>2. PICK second \in Recorded(first.row, first.snapshots, result) :
          /\ history' = second.snapshots
          /\ alert' = Evaluation(second.snapshots,
                        IF second.decision # "arbitrate" THEN 1 ELSE Fallback(reading, 2))
    BY <2>1
  <2>3. result \in Readings
    BY <1>7, AnswerTyped
  <2>4. PICK x \in Snapshot : second.snapshots = Atop(x, first.snapshots)
    BY <1>3, <2>3, RecordedOnTop
  <2>5. second.snapshots[2] = first.snapshots[1]
    BY <1>3, <2>4, NewestPrepended DEF Atop
  <2>6. RatioExceeds(second.snapshots[1].price, price, MagnitudeRatio)
          => second.snapshots[1].price = NoPrice \/ second.snapshots[1].confidence \in 0..2
    BY <1>3, <1>4, <2>3, GlitchRecorded
  <2> DEFINE at == IF second.decision # "arbitrate" THEN 1 ELSE Fallback(reading, 2)
  <2>7. at \in 0..2 /\ alert' = Evaluation(second.snapshots, at)
    BY <2>2 DEF Fallback
  <2> HIDE DEF at
  <2>8. at # 0 /\ alert'.at = at
        /\ alert'.fired = Fires(Base(second.snapshots, at), second.snapshots[at], Threshold)
    <3>1. CASE at = 0
      BY <2>7, <3>1 DEF Evaluation, NoAlert
    <3>2. CASE at # 0
      BY <2>7, <3>2 DEF Evaluation
    <3> QED
      BY <3>1, <3>2
  <2>9. at = 1 \/ at = 2
    BY <2>7, <2>8
  <2>10. second.snapshots[at].price = NoPrice \/ second.snapshots[at].confidence \in 0..2
    BY <1>5, <2>2, <2>5, <2>6, <2>8, <2>9
  <2> QED
    BY <2>8, <2>10, DoubtedIsSilent
<1>8. \A answer \in {RightAnswer} \cup (IF steady THEN {} ELSE Answers) : answer \in Readings
  BY <1>2, RightAnswered, PriceHistoryAssumption
<1> QED
  BY <1>1, <1>6, <1>7, <1>8

(* After a product has been seen at one price for some time, no reading    *)
(* ten times off fires an alert, whatever is misread and whatever the      *)
(* extractor answers: one more reading moves neither of the middle prices, *)
(* so both the reading and the answer are doubted twice over.  It needs a  *)
(* history of two (the code's is three): of one, the first glitch would    *)
(* itself be half of the median that judges the answer.                    *)
THEOREM GlitchIsSilent ==
  ASSUME MinHistory >= 2
  PROVE  Spec => GlitchNeverAlerts
<1>1. ASSUME HistoryInv, [Next]_vars
      PROVE  [\A price \in {o.price : o \in Offers} :
                LongAt(history, price) /\ alert'.at # 0 /\ history' # history
                    /\ RatioExceeds(history'[alert'.at].price, price, MagnitudeRatio)
                  => alert'.fired = {}]_vars
  <2> SUFFICES ASSUME NEW price \in {o.price : o \in Offers}, LongAt(history, price),
                      alert'.at # 0, history' # history,
                      RatioExceeds(history'[alert'.at].price, price, MagnitudeRatio)
               PROVE  alert'.fired = {}
    OBVIOUS
  <2>1. price \in 1..PriceMax
    BY PriceHistoryAssumption
  <2>2. PICK reading \in Readings : ScrapeProduct(reading)
    <3>1. CASE ScrapeRight
      BY <1>1, <3>1, RightReading DEF ScrapeRight, HistoryInv
    <3>2. CASE ScrapeWrong
      <4>1. PICK reading \in Misreadings \cup {Failure} : ScrapeProduct(reading)
        BY <3>2 DEF ScrapeWrong
      <4>2. reading \in Readings
        BY FailureReading, PriceHistoryAssumption
      <4> QED
        BY <4>1, <4>2
    <3>3. CASE Expire \/ ShopChanges \/ Settle \/ UNCHANGED vars
      BY <3>3 DEF Expire, ShopChanges, Settle, vars
    <3> QED
      BY <1>1, <3>1, <3>2, <3>3 DEF Next
  <2> QED
    BY <1>1, <2>1, <2>2, RunIsSilent
<1> QED
  BY <1>1, HistoryInvariant, PTL DEF Spec, GlitchNeverAlerts
=============================================================================
