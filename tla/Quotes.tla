------------------------------- MODULE Quotes -------------------------------
(***************************************************************************)
(* What the scraper makes of the texts of a page: prices and currencies    *)
(* (app/scraper/normalize.py), the doubts a text raises                    *)
(* (app/scraper/validate.py) and the part of a text that the heuristics    *)
(* take for the price (app/scraper/autoextract.py).                        *)
(*                                                                         *)
(* A price text is the number it denotes and how it is written: what       *)
(* separates thousands and decimals, how many decimals, which symbol       *)
(* stands by it and whether it is the price of an instalment ("/mo").      *)
(* Amounts are in cents; 0 stands for None, PRICE_MIN being one cent.      *)
(***************************************************************************)
EXTENDS Integers, FiniteSets

CONSTANT PriceMax   \* PRICE_MAX, in cents

ASSUME QuotesAssumption == PriceMax \in Nat \ {0}

NoPrice    == 0
NoCurrency == "none"
NoRegion   == "none"
NoSymbol   == "none"

Symbols == {"$", "C$", "E"}      \* E stands for the sign of the euro
Codes   == {"USD", "EUR"}
Regions == {"US", "DE"}

PriceTexts ==
  [amount : Nat, thousands : {"", ",", ".", " "}, mark : {".", ","}, places : 0..2,
   symbol : Symbols \cup {NoSymbol}, instalment : BOOLEAN]

NoText == [amount |-> 0, thousands |-> "", mark |-> ".", places |-> 0,
           symbol |-> NoSymbol, instalment |-> FALSE]

Whole(t) == t.amount \div 100

(* How many separators of thousands the text has. *)
Separators(t) ==
  CASE t.thousands = "" \/ Whole(t) < 1000 -> 0
    [] Whole(t) < 1000000 -> 1
    [] OTHER -> 2

Groups(t, sign) == t.thousands = sign /\ Separators(t) > 0

Has(t, sign) == Groups(t, sign) \/ (t.mark = sign /\ t.places > 0)

(* quantize(Decimal("0.01")) of an amount in tenths of a cent: half to even *)
Quantized(tenths) ==
  LET cents == tenths \div 10
      rest  == tenths % 10
  IN  IF rest > 5 \/ (rest = 5 /\ cents % 2 = 1) THEN cents + 1 ELSE cents

Bounded(cents) == IF cents \in 1..PriceMax THEN cents ELSE NoPrice

(* The dots of the text. *)
Dots(t) ==
  (IF t.thousands = "." THEN Separators(t) ELSE 0)
    + (IF t.mark = "." /\ t.places > 0 THEN 1 ELSE 0)

(* 1,299,00: as one or two digits follow the last comma, every comma is    *)
(* taken for a decimal mark.                                               *)
CommasClash(t) == Groups(t, ",") /\ t.mark = "," /\ t.places > 0

(* With both signs the last one is the decimal mark, and commas alone are  *)
(* told apart by the digits after the last; dots alone are always decimal  *)
(* marks.  A number has one decimal mark at most.                          *)
ParsePrice(t) ==
  LET dotsOnly == Has(t, ".") /\ ~Has(t, ",")
  IN  IF t = NoText \/ CommasClash(t) \/ (dotsOnly /\ Dots(t) > 1) THEN NoPrice
      ELSE Bounded(IF dotsOnly /\ Groups(t, ".") THEN Quantized(Whole(t)) ELSE t.amount)

(* Variants of IsAmbiguousLocale: commas only; decimals do not settle it. *)
IsAmbiguousComma(t)  == t.thousands = "," /\ Separators(t) = 1 /\ t.places = 0
IsAmbiguousAnyway(t) == t.thousands \in {",", "."} /\ Separators(t) = 1

(* One separator with three digits after it: decimals or thousands? *)
IsAmbiguousLocale(t) ==
  /\ t.thousands \in {",", "."}
  /\ Separators(t) = 1
  /\ t.places = 0

HasPriceSmell(t) == t.instalment

(* The digits before the first space, or the first three. *)
Lead(t) ==
  LET first[n \in Nat] == IF n < 1000 THEN n ELSE first[n \div 10]
  IN  CASE t.thousands = " " /\ Separators(t) = 1 -> Whole(t) \div 1000
        [] t.thousands = " " /\ Separators(t) = 2 -> Whole(t) \div 1000000
        [] OTHER -> first[Whole(t)]

(* _PRICE_TEXT_RE finds up to three digits and then groups of three after  *)
(* a comma or a dot: of a number without separators, or with spaces, that  *)
(* is the beginning only.                                                  *)
Found(t) ==
  LET bare == [t EXCEPT !.symbol = NoSymbol, !.instalment = FALSE]
  IN  IF Whole(t) < 1000 \/ (Separators(t) > 0 /\ t.thousands # " ") THEN bare
      ELSE [bare EXCEPT !.amount = 100 * Lead(t), !.thousands = "", !.places = 0]
----------------------------------------------------------------------------
(* The table of symbols is gone through in order, and "C$" contains "$".   *)
CurrencyFromText(symbol) ==
  CASE symbol \in {"$", "C$"} -> "USD"
    [] symbol = "E" -> "EUR"
    [] OTHER -> NoCurrency

CurrencyForRegion(region) ==
  CASE region = "US" -> "USD"
    [] region = "DE" -> "EUR"
    [] OTHER -> NoCurrency

(* raw is a code, a symbol or none *)
ParseCurrency(raw, region) ==
  CASE raw \in Codes -> raw
    [] raw \in Symbols -> CurrencyFromText(raw)
    [] OTHER -> CurrencyForRegion(region)

(* currency_conflicts: the symbol of the text comes before the region *)
CurrencyConflicts(t, currency, region) ==
  /\ currency # NoCurrency
  /\ LET said == IF CurrencyFromText(t.symbol) # NoCurrency
                   THEN CurrencyFromText(t.symbol) ELSE CurrencyForRegion(region)
     IN  said # NoCurrency /\ said # currency

(* ratio_exceeds for prices, which are never negative *)
RatioExceeds(a, b, ratio) ==
  LET lo == IF a < b THEN a ELSE b
      hi == IF a < b THEN b ELSE a
  IN  hi > lo * ratio

(* candidates_disagree: the two largest different prices, ratio 2 *)
CandidatesDisagree(prices) ==
  \E a \in prices, b \in prices :
    /\ a > b
    /\ \A c \in prices : c <= b \/ c = a
    /\ RatioExceeds(a, b, 2)
============================================================================
