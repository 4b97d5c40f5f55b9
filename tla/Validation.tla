----------------------------- MODULE Validation -----------------------------
(***************************************************************************)
(* What a reading is worth, given the product and the readings before it   *)
(* (app/services/scrape_validation.py), and which rules of a watch it      *)
(* fires (app/services/alert_service.py).                                  *)
(*                                                                         *)
(* A reading has [status, price, currency, stock, title, number, flags],   *)
(* the number standing for asin, gtin and mpn, and the flags being those   *)
(* of assess_result; a snapshot has [price, currency, stock, confidence]   *)
(* with the confidence in quarters, VALIDATION_PENALTY being one;          *)
(* snapshots are a sequence, the newest first.                             *)
(***************************************************************************)
EXTENDS Quotes, Sequences

CONSTANT MinHistory   \* VALIDATION_MIN_HISTORY

ASSUME ValidationAssumption == MinHistory \in Nat \ {0}

MagnitudeRatio == 10   \* VALIDATION_MAGNITUDE_RATIO
BandFactor     == 3    \* VALIDATION_PRICE_BAND_FACTOR
Unknown        == "unknown"
NoTitle        == "none"
NoNumber       == "none"

IdentityFlags == {"identifier_drift", "title_drift"}

(* The positions of the snapshots that have a price. *)
Priced(snapshots) == {i \in DOMAIN snapshots : snapshots[i].price # NoPrice}

(* The k-th smallest of these prices. *)
Kth(snapshots, k) ==
  LET below(p) == Cardinality({i \in Priced(snapshots) : snapshots[i].price < p})
      upto(p)  == Cardinality({i \in Priced(snapshots) : snapshots[i].price <= p})
  IN  CHOOSE p \in {snapshots[i].price : i \in Priced(snapshots)} : below(p) < k /\ k <= upto(p)

(* Twice the median, which of an even number is the mean of the two in the *)
(* middle; no element if there are too few prices.                         *)
Medians(snapshots) ==
  LET n == Cardinality(Priced(snapshots))
  IN  IF n < MinHistory THEN {}
      ELSE {Kth(snapshots, (n + 1) \div 2) + Kth(snapshots, n \div 2 + 1)}

(* Variant of OutOfBand: the upper bound only. *)
OutOfBandAbove(price, twice) == ~(2 * price <= BandFactor * twice)

OutOfBand(price, twice) == ~(twice <= BandFactor * 2 * price /\ 2 * price <= BandFactor * twice)

(* One price, but in stock and out of stock. *)
StockFlapping(snapshots) ==
  \E told \in {{i \in DOMAIN snapshots : snapshots[i].price # NoPrice /\ snapshots[i].stock # Unknown}} :
    /\ Cardinality(told) >= MinHistory
    /\ Cardinality({snapshots[i].price : i \in told}) = 1
    /\ Cardinality({snapshots[i].stock : i \in told}) > 1

Differ(known, read, empty) == known # empty /\ read # empty /\ known # read

StatefulFlags(reading, product, snapshots) ==
  {f \in {"magnitude_change", "price_out_of_band", "currency_flip", "identifier_drift",
          "title_drift", "stock_flapping"} :
     CASE f = "magnitude_change" ->
            reading.price # NoPrice
              /\ \E twice \in Medians(snapshots) : RatioExceeds(2 * reading.price, twice, MagnitudeRatio)
       [] f = "price_out_of_band" ->
            reading.price # NoPrice /\ \E twice \in Medians(snapshots) : OutOfBand(reading.price, twice)
       [] f = "currency_flip" -> Differ(product.currency, reading.currency, NoCurrency)
       [] f = "identifier_drift" -> Differ(product.number, reading.number, NoNumber)
       [] f = "title_drift" -> Differ(product.title, reading.title, NoTitle)
       [] f = "stock_flapping" -> StockFlapping(snapshots)}

(* Variant of Confidence: not kept above 0. *)
ConfidenceRaw(n) == 4 - n

Confidence(n) == IF n >= 4 THEN 0 ELSE 4 - n

Decide(confidence, flags) ==
  CASE confidence <= 1 \/ flags \cap IdentityFlags # {} -> "arbitrate"     \* below 0.3
    [] confidence = 2 /\ flags \cap IdentityFlags = {} -> "suspect"        \* below 0.6
    [] OTHER -> "trust"

(* The set of the one outcome of validate_snapshot.  Flags are a list:     *)
(* those the reading came with and raised again count twice.               *)
ValidateSnapshot(reading, product, snapshots) ==
  {[confidence |-> Confidence(Cardinality(reading.flags) + Cardinality(stateful)),
    decision |-> Decide(Confidence(Cardinality(reading.flags) + Cardinality(stateful)),
                        reading.flags \cup stateful),
    flags |-> reading.flags \cup stateful] :
     stateful \in {StatefulFlags(reading, product, snapshots)}}
----------------------------------------------------------------------------
Drops(base, new) ==
  /\ base.price # NoPrice /\ new.price # NoPrice
  /\ new.stock # "no"
  /\ new.price < base.price
  /\ 50 * (base.price - new.price) >= base.price       \* ALERT_MIN_DROP_RATIO

Reaches(threshold, new) == threshold # NoPrice /\ new.price # NoPrice /\ new.price <= threshold

Restocks(base, new) == base.stock = "no" /\ new.stock = "yes" /\ new.price # NoPrice

(* The rules a snapshot fires for a watch with all three, 0 being no       *)
(* threshold; without a base there is a snapshot that says nothing.        *)
Fires(base, new, threshold) ==
  {rule \in {"drop", "threshold", "restock"} :
     /\ new.confidence >= 3                             \* ALERT_MIN_CONFIDENCE
     /\ rule = "drop" => Drops(base, new)
     /\ rule = "threshold" => Reaches(threshold, new)
     /\ rule = "restock" => Restocks(base, new)}
============================================================================
