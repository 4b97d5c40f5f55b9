---------------------------- MODULE PriceHistory ----------------------------
(***************************************************************************)
(* The readings of one product over time: PriceService.record_snapshot,    *)
(* the arbitration by the AI extractor and the evaluation of the rules     *)
(* (app/services/price_service.py, ai_extract.py, alert_service.py,        *)
(* app/workers/tasks/scrape.py), one run after the other as the lock of    *)
(* ScrapeRun keeps them.                                                   *)
(*                                                                         *)
(* The shop has a price; what the extractors read may be something else.   *)
(***************************************************************************)
EXTENDS Validation

CONSTANTS Offers,      \* [price, stock] of the shop that may be
          Misreadings, \* readings that may come instead of the right one
          Answers,     \* readings the AI extractor may come up with
          Threshold,   \* of the watch
          Recent       \* VALIDATION_RECENT_SNAPSHOTS

Stocks   == {"yes", "no", Unknown}
Titles   == {"ours", "other", NoTitle}
Numbers  == {"ours", "other", NoNumber}
Flags    == {"ambiguous_locale", "currency_conflict", "price_smell", "candidate_disagreement",
             "block_page_title", "stock_without_price", "cross_tier_price", "cross_tier_title",
             "cross_tier_stock", "magnitude_change", "price_out_of_band", "currency_flip",
             "identifier_drift", "title_drift", "stock_flapping"}
Readings ==
  [status : {"ok", "partial", "failed"}, price : 0..PriceMax, currency : Codes \cup {NoCurrency},
   stock : Stocks, title : Titles, number : Numbers, flags : SUBSET Flags]

ASSUME PriceHistoryAssumption ==
  /\ Recent \in Nat /\ Recent > MinHistory
  /\ Offers \subseteq [price : 1..PriceMax, stock : Stocks]
  /\ Misreadings \subseteq Readings /\ Answers \subseteq {r \in Readings : r.number = NoNumber}

VARIABLES shop,     \* its price and stock now
          steady,   \* TRUE once the shop changes no more and is read right
          product,  \* the row of the product: its currency, title and number
          history,  \* the newest snapshots, at most Recent
          cooling,  \* ai:cooldown or ai:cache is set
          alert     \* what the last run evaluated, and the rules it fired

vars == <<shop, steady, product, history, cooling, alert>>

Silent   == [price |-> NoPrice, currency |-> NoCurrency, stock |-> Unknown, confidence |-> 4]
NoAlert  == [at |-> 0, fired |-> {}]
Failure ==
  [status |-> "failed", price |-> NoPrice, currency |-> NoCurrency, stock |-> Unknown,
   title |-> NoTitle, number |-> NoNumber, flags |-> {}]

Right == [status |-> "ok", price |-> shop.price, currency |-> "USD", stock |-> shop.stock,
          title |-> "ours", number |-> "ours", flags |-> {}]

(* The extractor is not asked for identifiers. *)
RightAnswer == [Right EXCEPT !.number = NoNumber]

Init ==
  /\ shop \in Offers
  /\ steady = FALSE
  /\ product = [currency |-> NoCurrency, title |-> NoTitle, number |-> NoNumber]
  /\ history = <<>>
  /\ cooling = FALSE
  /\ alert = NoAlert
----------------------------------------------------------------------------
(* Variant of Updated: the currency is kept like the title. *)
UpdatedOnce(row, reading) ==
  [currency |-> IF row.currency = NoCurrency THEN reading.currency ELSE row.currency,
   title |-> IF row.title = NoTitle THEN reading.title ELSE row.title,
   number |-> IF row.number = NoNumber THEN reading.number ELSE row.number]

(* record_snapshot: the row keeps its first title and number, and takes    *)
(* the currency of every reading.                                          *)
Updated(row, reading) ==
  [currency |-> reading.currency,
   title |-> IF row.title = NoTitle THEN reading.title ELSE row.title,
   number |-> IF row.number = NoNumber THEN reading.number ELSE row.number]

(* Variant of Newest: the order of the query turned round. *)
Oldest(snapshots) ==
  SubSeq(snapshots, IF Len(snapshots) > Recent THEN Len(snapshots) - Recent + 1 ELSE 1, Len(snapshots))

Newest(snapshots) == SubSeq(snapshots, 1, IF Len(snapshots) < Recent THEN Len(snapshots) ELSE Recent)

Appended(snapshots, reading, confidence) ==
  Newest(<<[price |-> reading.price, currency |-> reading.currency, stock |-> reading.stock,
            confidence |-> confidence]>> \o snapshots)

(* What record_snapshot does with a reading, as a set of one outcome. *)
Recorded(row, snapshots, reading) ==
  {[row |-> Updated(row, reading), decision |-> v.decision,
    snapshots |-> Appended(snapshots, reading, v.confidence)] :
     v \in ValidateSnapshot(reading, row, snapshots)}

ShouldArbitrate(reading, decision) ==
  decision = "arbitrate" \/ reading.status \in {"failed", "partial"}

(* ai_extract validates the answer, puts the flags into it, and hands it   *)
(* to be recorded, which validates it once more.                           *)
AiExtract(answer, row, snapshots) ==
  {[answer EXCEPT !.flags = v.flags] : v \in ValidateSnapshot(answer, row, snapshots)}

(* The other of the two newest snapshots, be it older or newer. *)
Base(snapshots, at) ==
  LET other == IF at = 1 THEN 2 ELSE 1
  IN  IF other <= Len(snapshots) THEN snapshots[other] ELSE Silent

Evaluation(snapshots, at) ==
  IF at = 0 THEN NoAlert
  ELSE [at |-> at, fired |-> Fires(Base(snapshots, at), snapshots[at], Threshold)]

(* The snapshot to evaluate if the extractor has no better one. *)
Fallback(reading, at) == IF reading.status = "failed" THEN 0 ELSE at

(* The run goes by its own reading: nobody was asked, or the extractor gave *)
(* no price, if only because the page shows another product.               *)
Conclude(reading, first) ==
  /\ product' = first.row
  /\ history' = first.snapshots
  /\ alert' = Evaluation(first.snapshots, Fallback(reading, 1))

(* The extractor gave a price, which is recorded after the reading and     *)
(* evaluated unless it would be arbitrated itself.                         *)
Replace(reading, first, answer) ==
  /\ answer.price # NoPrice
  /\ \E result \in AiExtract(answer, first.row, first.snapshots) :
     \E second \in Recorded(first.row, first.snapshots, result) :
       /\ product' = second.row
       /\ history' = second.snapshots
       /\ alert' = Evaluation(second.snapshots,
                     IF second.decision # "arbitrate" THEN 1 ELSE Fallback(reading, 2))

(* One run, with the extractor asked or not.                               *)
ScrapeProduct(reading) ==
  /\ UNCHANGED <<shop, steady>>
  /\ \E first \in Recorded(product, history, reading) :
       LET asks == ShouldArbitrate(reading, first.decision) /\ ~cooling
       IN  /\ cooling' = (cooling \/ asks)
           /\ \/ Conclude(reading, first)
              \/ asks /\ \E answer \in {RightAnswer} \cup (IF steady THEN {} ELSE Answers) :
                           Replace(reading, first, answer)

ScrapeRight == ScrapeProduct(Right)

ScrapeWrong == ~steady /\ \E reading \in Misreadings \cup {Failure} : ScrapeProduct(reading)

Expire ==
  /\ cooling
  /\ cooling' = FALSE
  /\ UNCHANGED <<shop, steady, product, history, alert>>

ShopChanges ==
  /\ ~steady
  /\ shop' \in Offers
  /\ shop' # shop
  /\ UNCHANGED <<steady, product, history, cooling, alert>>

Settle ==
  /\ ~steady
  /\ steady' = TRUE
  /\ UNCHANGED <<shop, product, history, cooling, alert>>

Next == ScrapeRight \/ ScrapeWrong \/ Expire \/ ShopChanges \/ Settle

(* The beat scrapes a product again and again. *)
Spec == Init /\ [][Next]_vars /\ WF_vars(steady /\ ScrapeRight)
----------------------------------------------------------------------------
(* Every variable keeps its type. *)
TypeOK ==
  /\ shop \in Offers
  /\ product.currency \in Codes \cup {NoCurrency}
  /\ Len(history) <= Recent
  /\ \A i \in DOMAIN history : history[i].price \in 0..PriceMax /\ history[i].confidence \in 0..4
  /\ alert.at \in 0..2 /\ alert.at <= Len(history)
  /\ alert.fired # {} => alert.at # 0

(* The product has long been seen at one price. *)
LongAt(snapshots, price) ==
  /\ Cardinality(Priced(snapshots)) > MinHistory
  /\ \A i \in Priced(snapshots) : snapshots[i].price = price

(* After a product has been seen at one price for some time, no reading    *)
(* ten times off fires an alert: not at once, not through the AI extractor *)
(* that is shown the doubtful reading first, nor through the reading being *)
(* the fallback of another (scrape_validation.py 55-62, scrape.py 119-150).*)
GlitchNeverAlerts ==
  [][\A price \in {o.price : o \in Offers} :
       LongAt(history, price) /\ alert'.at # 0 /\ history' # history
           /\ RatioExceeds(history'[alert'.at].price, price, MagnitudeRatio)
         => alert'.fired = {}]_vars

(* A drop that no check doubted compares prices of one currency: the       *)
(* currency of the product row, which a reading is checked against, is     *)
(* that of the snapshot the rules compare it with                          *)
(* (scrape_validation.py 64, product_repo.py 43, alert_service.py 85).     *)
DropInOneCurrency ==
  alert.at = 1 /\ "drop" \in alert.fired /\ history[1].confidence = 4
    => \/ history[2].currency = history[1].currency
       \/ NoCurrency \in {history[1].currency, history[2].currency}

(* A new price level is accepted in the end: once the shop stays as it is  *)
(* and is read right, the readings get full confidence, also after a real  *)
(* change by more than a factor of ten, unless the title or the number the *)
(* product got with its first readings is not its own                      *)
(* (scrape_validation.py 29-35, 47-74).                                    *)
PriceLevelAccepted ==
  steady ~> ("other" \in {product.title, product.number} \/ [](history # <<>> /\ history[1].confidence = 4))
============================================================================
