------------------------- MODULE PageReading_proofs -------------------------
(***************************************************************************)
(* What holds of PageReading for every page and every shop.  The argument: *)
(* whichever extractor read the page, the text it kept is one of the page, *)
(* or what the heuristics cut out of it (From); and a text that is misread *)
(* is one of those the checks look for (Misparsed).                        *)
(***************************************************************************)
EXTENDS PageReading, FiniteSetTheorems, TLAPS

Currencies == Codes \cup {NoCurrency}
SomeRegion == Regions \cup {NoRegion}

Site == [shop : Shops, tld : SomeRegion, item : {"item", "none"}]

(* What the fields of a result may be. *)
Results ==
  [status : {"ok", "partial", "failed"}, tier : {0, 1, 2, 3, 4}, price : 0..PriceMax, currency : Currencies,
   stock : Stocks, title : Titles, mpn : Numbers, region : SomeRegion,
   text : PriceTexts \cup {Found(t) : t \in PriceTexts}, candidates : SUBSET (0..PriceMax),
   flags : {{}}]

TextsOf(p) == {p.texts[name] : name \in DOMAIN p.texts} \cup {NoText}

(* Where the text of a result comes from: it is one of the page, one that  *)
(* stands by a symbol of its own, or a piece of one; or it was not kept.   *)
From(p, r) ==
  \/ r.tier # 2 /\ r.text \in TextsOf(p) /\ r.price = ParsePrice(r.text)
  \/ /\ r.tier # 2 /\ r.price = ParsePrice(r.text)
     /\ \E t \in TextsOf(p) : r.text = [t EXCEPT !.symbol = p.dom.symbol]
     /\ CurrencyFromText(p.dom.symbol) \in {NoCurrency, r.currency}
  \/ r.tier \in {2, 3} /\ r.text = NoText
  \/ r.tier = 2 /\ \E t \in TextsOf(p) : r.text = Found(t)

Good(p, r) == r \in Results /\ From(p, r) /\ (IsOk(r) => r.price # NoPrice)
----------------------------------------------------------------------------
LEMMA NoTextTyped == NoText \in PriceTexts
  BY DEF NoText, PriceTexts

LEMMA TextTyped ==
  ASSUME NEW p, IsPage(p)
  PROVE  /\ TextsOf(p) \subseteq PriceTexts
         /\ \A name : PointsIn(p, name) => TextOf(p, name) \in TextsOf(p)
  BY NoTextTyped DEF IsPage, PointsIn, TextOf, TextsOf

LEMMA Parsed == ASSUME NEW t PROVE ParsePrice(t) \in 0..PriceMax
<1>1. \A n : Bounded(n) \in 0..PriceMax /\ NoPrice \in 0..PriceMax
  BY QuotesAssumption DEF Bounded, NoPrice
<1> QED
  BY <1>1 DEF ParsePrice

LEMMA NoTextParsed == ParsePrice(NoText) = NoPrice
  BY DEF ParsePrice

(* The only texts that are misread look ambiguous. *)
LEMMA Misparsed ==
  ASSUME NEW t \in PriceTexts, ~IsAmbiguousLocale(t)
  PROVE  ParsePrice(t) \in {NoPrice, t.amount}
<1>1. t.places \in 0..2
  BY DEF PriceTexts
<1>0. t.mark \in {".", ","}
  BY DEF PriceTexts
<1>2. Separators(t) \in {0, 1, 2}
  BY DEF Separators
<1>3. \A n : Bounded(n) \in {NoPrice, n}
  BY DEF Bounded
<1>4. ASSUME Has(t, "."), ~Has(t, ","), Groups(t, ".")
      PROVE  Dots(t) > 1
  <2>1. t.thousands = "." /\ Separators(t) > 0
    BY <1>4 DEF Groups
  <2>2. CASE t.places = 0
    <3>1. Separators(t) = 2
      BY <1>2, <2>1, <2>2 DEF IsAmbiguousLocale
    <3>2. Dots(t) = 2
      BY <2>1, <2>2, <3>1 DEF Dots
    <3> QED
      BY <3>2
  <2>3. CASE t.places # 0
    <3>1. t.places > 0
      BY <1>1, <2>3
    <3>2. t.mark # ","
      BY <1>4, <3>1 DEF Has
    <3>3. t.mark = "."
      BY <1>0, <3>2
    <3>4. Dots(t) = Separators(t) + 1
      BY <2>1, <3>1, <3>3 DEF Dots
    <3> QED
      BY <1>2, <2>1, <3>4
  <2> QED
    BY <2>2, <2>3
<1> QED
  BY <1>3, <1>4 DEF ParsePrice

LEMMA CurrencyTyped ==
  ASSUME NEW raw, NEW known
  PROVE  /\ ParseCurrency(raw, known) \in Currencies
         /\ CurrencyForRegion(known) \in Currencies
         /\ raw \in Symbols => ParseCurrency(raw, known) = CurrencyFromText(raw)
         /\ raw = NoSymbol => ParseCurrency(raw, known) = CurrencyForRegion(known)
  BY DEF ParseCurrency, CurrencyFromText, CurrencyForRegion, Codes, Symbols, Currencies, NoCurrency, NoSymbol
----------------------------------------------------------------------------
(* structured.py *)

LEMMA FailedFacts ==
  ASSUME NEW tier \in {0, 1, 2, 3, 4}, NEW known \in SomeRegion
  PROVE  /\ Failed(tier, known) \in Results
         /\ Failed(tier, known).status = "failed" /\ Failed(tier, known).tier = tier
         /\ Failed(tier, known).price = NoPrice /\ Failed(tier, known).stock = "unknown"
         /\ Failed(tier, known).region = known /\ Failed(tier, known).text = NoText
         /\ Failed(tier, known).title = "none"
<1>1. NoPrice \in 0..PriceMax
  BY QuotesAssumption DEF NoPrice
<1>2. NoCurrency \in Currencies /\ "unknown" \in Stocks /\ "none" \in Titles /\ "none" \in Numbers
  BY DEF Currencies, Stocks, Titles, Numbers
<1> QED
  BY <1>1, <1>2, NoTextTyped DEF Failed, Results

LEMMA Said ==
  ASSUME NEW p, IsPage(p), NEW offer, offer.stock \in Stocks, PointsIn(p, offer.text),
         NEW title \in Titles, NEW known \in SomeRegion
  PROVE  LET r == Reading(p, offer, title, known)
             t == TextOf(p, offer.text)
         IN  /\ r \in Results /\ r.tier = 1 /\ r.region = known
             /\ r.text = t /\ r.price = ParsePrice(t) /\ t \in TextsOf(p)
<1> DEFINE t == TextOf(p, offer.text)
<1>1. t \in PriceTexts /\ t \in TextsOf(p)
  BY TextTyped
<1>2. ParsePrice(t) \in 0..PriceMax /\ ParseCurrency(offer.currency, known) \in Currencies
  BY Parsed, CurrencyTyped
<1>3. Failed(1, known) \in Results
  BY FailedFacts
<1>4. Reading(p, offer, title, known) \in Results
  BY Zenon, <1>1, <1>2, <1>3 DEF Reading, Results
<1> QED
  BY <1>1, <1>3, <1>4, FailedFacts DEF Reading, Results

LEMMA ReadingFacts ==
  ASSUME NEW p, IsPage(p), NEW offer, offer.stock \in Stocks, PointsIn(p, offer.text),
         NEW title \in Titles, NEW known \in SomeRegion, NEW complete \in BOOLEAN,
         complete => Reading(p, offer, title, known).price # NoPrice
  PROVE  LET r == Graded(Reading(p, offer, title, known), complete)
         IN  Good(p, r) /\ r.tier = 1 /\ r.region = known
<1> DEFINE said == Reading(p, offer, title, known)
           r == Graded(said, complete)
<1>1. /\ said \in Results /\ said.tier = 1 /\ said.region = known
      /\ said.text \in TextsOf(p) /\ said.price = ParsePrice(said.text)
  BY Said
<1> HIDE DEF said
<1>2. /\ r \in Results /\ r.status = IF complete THEN "ok" ELSE "partial"
      /\ r.tier = said.tier /\ r.price = said.price /\ r.region = said.region /\ r.text = said.text
  BY <1>1 DEF Graded, Results
<1> HIDE DEF r
<1>3. From(p, r)
  BY <1>1, <1>2 DEF From
<1>4. IsOk(r) => r.price # NoPrice
  BY <1>1, <1>2 DEF IsOk, said
<1> QED
  BY <1>1, <1>2, <1>3, <1>4 DEF Good, r, said

LEMMA JsonldFacts ==
  ASSUME NEW p, IsPage(p), NEW i \in DOMAIN p.nodes, NEW known \in SomeRegion,
         NEW r \in FromJsonld(p, p.nodes[i], known)
  PROVE  Good(p, r) /\ r.tier = 1 /\ r.region = known
<1> DEFINE offer == IF p.nodes[i].offers THEN p.nodes[i].offer ELSE NoOffer
           said == Reading(p, offer, p.title, known)
           graded == Graded(said, CompleteJsonld(said))
<1>1. offer.stock \in Stocks /\ PointsIn(p, offer.text) /\ p.title \in Titles /\ p.nodes[i].mpn \in Numbers
  BY DEF IsPage, IsOffer, NoOffer, Stocks, PointsIn
<1>2. r = [graded EXCEPT !.mpn = p.nodes[i].mpn]
  BY DEF FromJsonld
<1> HIDE DEF offer
<1>3. CompleteJsonld(said) \in BOOLEAN /\ (CompleteJsonld(said) => said.price # NoPrice)
  BY DEF CompleteJsonld
<1>4. Good(p, graded) /\ graded.tier = 1 /\ graded.region = known
  BY <1>1, <1>3, ReadingFacts
<1> HIDE DEF graded
<1>5. /\ r \in Results /\ r.status = graded.status /\ r.tier = graded.tier /\ r.price = graded.price
      /\ r.region = graded.region /\ r.text = graded.text /\ r.currency = graded.currency
  BY <1>1, <1>2, <1>4 DEF Good, Results
<1> QED
  BY <1>4, <1>5 DEF Good, From, IsOk

LEMMA SaidFacts ==
  ASSUME NEW a, NEW b, NEW c, NEW nothing
  PROVE  SaidOr(FirstOf(a, b, c), nothing) \in a \cup b \cup c \cup {nothing}
<1> DEFINE any == FirstOf(a, b, c)
<1>1. any \subseteq a \cup b \cup c
  BY DEF FirstOf
<1> HIDE DEF any
<1>2. SaidOr(any, nothing) \in any \cup {nothing}
  BY DEF SaidOr
<1> QED
  BY <1>1, <1>2 DEF any

LEMMA StructuredFacts ==
  ASSUME NEW p, IsPage(p), NEW known \in SomeRegion
  PROVE  LET r == ExtractStructured(p, known)
         IN  Good(p, r) /\ r.tier = 1 /\ r.region \in {known, NoRegion} /\ (IsOk(r) => r.region = known)
<1> DEFINE r == ExtractStructured(p, known)
           any == FirstJsonld(p, known) \cup FromMicrodata(p, known) \cup FromOpengraph(p, known)
<1>1. ASSUME NEW x \in any
      PROVE  Good(p, x) /\ x.tier = 1 /\ x.region = known
  <2>1. CASE x \in FirstJsonld(p, known)
    <3>1. PICK i \in DOMAIN p.nodes : x \in FromJsonld(p, p.nodes[i], known)
      BY <2>1 DEF FirstJsonld, SelectJsonldProducts
    <3> QED
      BY <3>1, JsonldFacts
  <2>2. CASE x \in FromMicrodata(p, known)
    <3> DEFINE said == Reading(p, p.micro, p.title, known)
    <3>1. p.micro.stock \in Stocks /\ PointsIn(p, p.micro.text) /\ p.title \in Titles
      BY DEF IsPage, IsOffer
    <3>2. x = Graded(said, Complete(said))
      BY <2>2 DEF FromMicrodata
    <3>3. Complete(said) \in BOOLEAN /\ (Complete(said) => said.price # NoPrice)
      BY DEF Complete
    <3> QED
      BY <3>1, <3>2, <3>3, ReadingFacts
  <2>3. CASE x \in FromOpengraph(p, known)
    <3> DEFINE said == Reading(p, p.og, p.og.title, known)
    <3>1. p.og.stock \in Stocks /\ PointsIn(p, p.og.text) /\ p.og.title \in Titles
      BY DEF IsPage, IsOffer
    <3>2. x = Graded(said, Complete(said))
      BY <2>3 DEF FromOpengraph
    <3>3. Complete(said) \in BOOLEAN /\ (Complete(said) => said.price # NoPrice)
      BY DEF Complete
    <3> QED
      BY <3>1, <3>2, <3>3, ReadingFacts
  <2> QED
    BY <2>1, <2>2, <2>3
<1>2. r \in any \/ r = Failed(1, NoRegion)
  BY SaidFacts DEF ExtractStructured
<1>3. CASE r \in any
  BY <1>1, <1>3
<1>4. CASE r = Failed(1, NoRegion)
  <2>1. /\ r \in Results /\ r.status = "failed" /\ r.tier = 1 /\ r.region = NoRegion
        /\ r.text = NoText /\ r.price = NoPrice
    BY <1>4, FailedFacts DEF SomeRegion
  <2> HIDE DEF r
  <2>2. NoText \in TextsOf(p)
    BY DEF TextsOf
  <2>3. From(p, r) /\ ~IsOk(r)
    BY <2>1, <2>2, NoTextParsed DEF From, IsOk
  <2> QED
    BY <2>1, <2>3 DEF Good, r
<1> QED
  BY <1>2, <1>3, <1>4
----------------------------------------------------------------------------
(* autoextract.py *)

(* The heuristics find the same price, whatever the region.                *)
LEMMA AutoPrice ==
  ASSUME NEW p, IsPage(p), NEW known \in SomeRegion
  PROVE  LET found == Best(p.marks)
             text  == Found(TextOf(p, (CHOOSE mark \in found : TRUE).text))
         IN  AutoExtract(p, known).price = IF found = {} THEN NoPrice ELSE ParsePrice(text)
<1> DEFINE found == Best(p.marks)
           best  == CHOOSE mark \in found : TRUE
           text  == Found(TextOf(p, best.text))
           currency == ParseCurrency(best.token, known)
           failed == Failed(2, known)
<1>1. CASE found = {} \/ ParsePrice(text) = NoPrice
  <2>1. AutoExtract(p, known) = Failed(2, NoRegion)
    BY <1>1 DEF AutoExtract
  <2>2. Failed(2, NoRegion).price = NoPrice
    BY FailedFacts DEF SomeRegion
  <2> QED
    BY <1>1, <2>1, <2>2
<1>2. CASE ~(found = {} \/ ParsePrice(text) = NoPrice)
  <2>1. AutoExtract(p, known) =
          [failed EXCEPT
             !.status = IF best.score >= 3 /\ currency # NoCurrency THEN "ok" ELSE "partial",
             !.price = ParsePrice(text), !.currency = currency, !.stock = p.signal,
             !.title = IF p.title # "none" THEN p.title ELSE p.og.title,
             !.text = text, !.candidates = Candidates(p)]
    BY <1>2 DEF AutoExtract
  <2>2. failed \in Results
    BY FailedFacts
  <2> HIDE DEF failed, currency, text
  <2>3. AutoExtract(p, known).price = ParsePrice(text)
    BY <2>1, <2>2 DEF Results
  <2> QED
    BY <1>2, <2>3 DEF text
<1> QED
  BY <1>1, <1>2

LEMMA AutoFacts ==
  ASSUME NEW p, IsPage(p), NEW known \in SomeRegion
  PROVE  LET r == AutoExtract(p, known)
         IN  /\ Good(p, r) /\ r.tier = 2 /\ r.region \in {known, NoRegion} /\ (IsOk(r) => r.region = known)
             /\ r.stock \in {p.signal, "unknown"}
             /\ p.title # "none" => r.title \in {p.title, "none"}
<1> DEFINE r == AutoExtract(p, known)
           found == Best(p.marks)
           best  == CHOOSE mark \in found : TRUE
           text  == Found(TextOf(p, best.text))
           price == ParsePrice(text)
           currency == ParseCurrency(best.token, known)
           title == IF p.title # "none" THEN p.title ELSE p.og.title
           status == IF best.score >= 3 /\ currency # NoCurrency THEN "ok" ELSE "partial"
           candidates == Candidates(p)
           failed == Failed(2, known)
<1>1. CASE found = {} \/ price = NoPrice
  <2>1. r = Failed(2, NoRegion)
    BY <1>1 DEF AutoExtract
  <2>2. /\ r \in Results /\ r.status = "failed" /\ r.tier = 2 /\ r.region = NoRegion /\ r.text = NoText
        /\ r.stock = "unknown" /\ r.title = "none"
    BY <2>1, FailedFacts DEF SomeRegion
  <2> HIDE DEF r
  <2>3. From(p, r) /\ ~IsOk(r)
    BY <2>2 DEF From, IsOk
  <2> QED
    BY <2>2, <2>3 DEF Good, r
<1>2. CASE found # {} /\ price # NoPrice
  <2>1. r = [failed EXCEPT
               !.status = status, !.price = price, !.currency = currency, !.stock = p.signal,
               !.title = title, !.text = text, !.candidates = candidates]
    BY <1>2 DEF AutoExtract
  <2>2. failed \in Results /\ failed.tier = 2 /\ failed.region = known
    BY FailedFacts
  <2>3. PointsIn(p, best.text)
    <3>1. best \in found
      BY <1>2
    <3>2. PICK i \in DOMAIN p.marks : best = p.marks[i]
      BY <3>1 DEF Best
    <3> QED
      BY <3>2 DEF IsPage, PointsIn
  <2>4. TextOf(p, best.text) \in TextsOf(p) /\ text \in {Found(t) : t \in PriceTexts}
    BY <2>3, TextTyped
  <2>5. /\ price \in 0..PriceMax /\ currency \in Currencies /\ p.signal \in Stocks
        /\ status \in {"ok", "partial", "failed"}
    BY Parsed, CurrencyTyped DEF IsPage
  <2>6. title \in Titles
    BY DEF IsPage
  <2>7. candidates \in SUBSET (0..PriceMax)
    BY Parsed DEF Candidates
  <2> HIDE DEF failed, status, currency, price, title, candidates
  <2>8. r \in Results
    BY Zenon, <2>1, <2>2, <2>4, <2>5, <2>6, <2>7 DEF Results
  <2>9. /\ r.status = status /\ r.price = price /\ r.stock = p.signal /\ r.title = title /\ r.text = text
        /\ r.tier = 2 /\ r.region = known
    BY <2>1, <2>2 DEF Results
  <2> HIDE DEF r
  <2>10. From(p, r)
    BY <2>4, <2>9 DEF From
  <2> QED
    BY <1>2, <2>8, <2>9, <2>10 DEF Good, title, r
<1> QED
  BY <1>1, <1>2
----------------------------------------------------------------------------
(* adapters/ *)

LEMMA AdapterTyped ==
  ASSUME NEW s \in Site, HasAdapter(s)
  PROVE  /\ Adapter(s).region \in SomeRegion /\ Adapter(s).currency \in Currencies
         /\ Adapter(s).item \in Numbers
<1>1. /\ Amazon(s).region = s.tld /\ Amazon(s).currency = NoCurrency /\ Amazon(s).item = "none"
      /\ Amazon(s) = [browser |-> FALSE, region |-> s.tld, currency |-> NoCurrency,
                      stock |-> TRUE, keepsText |-> TRUE, item |-> "none"]
  BY DEF Amazon
<1>2. Ebay(s).region = s.tld /\ Ebay(s).currency = NoCurrency /\ Ebay(s).item = s.item
  BY <1>1 DEF Ebay
<1>3. /\ AliExpress.region = NoRegion /\ AliExpress.currency = NoCurrency /\ AliExpress.item = "none"
      /\ AliExpress = [browser |-> TRUE, region |-> NoRegion, currency |-> NoCurrency,
                       stock |-> FALSE, keepsText |-> FALSE, item |-> "none"]
  BY DEF AliExpress
<1>4. Walmart.region = "US" /\ Walmart.currency = "USD" /\ Walmart.item = "none"
  BY <1>3 DEF Walmart
<1>5. /\ BestBuy.region = "US" /\ BestBuy.currency = "USD" /\ BestBuy.item = "none"
      /\ Target.region = "US" /\ Target.currency = "USD" /\ Target.item = "none"
  BY <1>3, <1>4 DEF Walmart, BestBuy, Target
<1>6. s.shop \in Shops \ {"none"} /\ s.tld \in SomeRegion /\ s.item \in Numbers
  BY DEF Site, HasAdapter, Numbers
<1>7. Adapter(s) \in {Amazon(s), Ebay(s), AliExpress, Walmart, BestBuy, Target}
  BY <1>6 DEF Adapter, Shops
<1>8. "US" \in SomeRegion /\ NoRegion \in SomeRegion /\ "USD" \in Currencies
      /\ NoCurrency \in Currencies /\ "none" \in Numbers
  BY DEF SomeRegion, Currencies, Regions, Codes, Numbers
<1> QED
  BY <1>1, <1>2, <1>3, <1>4, <1>5, <1>6, <1>7, <1>8

LEMMA SymbolTyped ==
  ASSUME NEW p, IsPage(p), NEW t \in TextsOf(p)
  PROVE  LET u == [t EXCEPT !.symbol = p.dom.symbol]
         IN  /\ u \in PriceTexts /\ u.symbol = p.dom.symbol
             /\ u.amount = t.amount /\ u.instalment = t.instalment
             /\ u.places = t.places /\ u.thousands = t.thousands
<1>1. t \in PriceTexts /\ p.dom.symbol \in Symbols \cup {NoSymbol}
  BY TextTyped DEF IsPage
<1>2. [t EXCEPT !.symbol = p.dom.symbol] \in PriceTexts
  BY Zenon, <1>1 DEF PriceTexts
<1> QED
  BY <1>1, <1>2 DEF PriceTexts

LEMMA AdapterFacts ==
  ASSUME NEW p, IsPage(p), NEW s \in Site, HasAdapter(s)
  PROVE  Good(p, AdapterExtract(s, p)) /\ AdapterExtract(s, p).tier = 3
<1> DEFINE own  == Adapter(s)
           data == ExtractStructured(p, own.region)
           text == IF p.dom.text = "none" THEN NoText
                   ELSE [TextOf(p, p.dom.text) EXCEPT !.symbol = p.dom.symbol]
           price == ParsePrice(text)
           currency == Chosen(ParseCurrency(text.symbol, own.region), own.currency)
           failed == Failed(3, own.region)
           about == [failed EXCEPT !.title = p.title, !.mpn = own.item]
           status == IF currency # NoCurrency THEN "ok" ELSE "partial"
           stock == IF own.stock THEN p.dom.stock ELSE "unknown"
           kept == IF own.keepsText THEN text ELSE NoText
           mpn == Chosen(own.item, data.mpn)
           r == AdapterExtract(s, p)
<1>1. own.region \in SomeRegion /\ own.currency \in Currencies /\ own.item \in Numbers
  BY AdapterTyped
<1>2. Good(p, data) /\ data.tier = 1
  BY <1>1, StructuredFacts
<1>3. /\ about \in Results /\ about.status = "failed" /\ about.tier = 3 /\ about.price = NoPrice
      /\ about.text = NoText
  <2>1. /\ failed \in Results /\ failed.status = "failed" /\ failed.tier = 3 /\ failed.price = NoPrice
        /\ failed.text = NoText
    BY <1>1, FailedFacts
  <2>2. p.title \in Titles
    BY DEF IsPage
  <2> HIDE DEF failed
  <2>3. about \in Results
    BY Zenon, <1>1, <2>1, <2>2 DEF Results
  <2> QED
    BY <2>1, <2>3 DEF Results
<1>4. CASE IsOk(data)
  <2>1. r = [data EXCEPT !.tier = 3, !.mpn = mpn]
    BY <1>4 DEF AdapterExtract
  <2>2. mpn \in Numbers /\ data \in Results
    BY <1>1, <1>2 DEF Chosen, Good, Results
  <2> HIDE DEF data, mpn, r
  <2>3. r \in Results
    BY Zenon, <2>1, <2>2 DEF Results
  <2>4. /\ r.tier = 3 /\ r.price = data.price /\ r.text = data.text /\ r.status = data.status
        /\ r.currency = data.currency
    BY <2>1, <2>2 DEF Results
  <2>5. From(p, r)
    BY <1>2, <2>4 DEF From, Good
  <2> QED
    BY <1>2, <2>3, <2>4, <2>5 DEF Good, IsOk, r
<1>5. CASE ~IsOk(data) /\ price = NoPrice
  <2>1. r = about
    BY <1>5 DEF AdapterExtract
  <2> HIDE DEF about, r
  <2>2. From(p, r) /\ ~IsOk(r)
    BY <1>3, <2>1 DEF From, IsOk
  <2> QED
    BY <1>3, <2>1, <2>2 DEF Good, r
<1>6. CASE ~IsOk(data) /\ price # NoPrice
  <2>1. r = [about EXCEPT !.status = status, !.price = price, !.currency = currency,
                          !.stock = stock, !.text = kept]
    BY <1>6 DEF AdapterExtract
  <2>2. p.dom.text # "none"
    BY <1>6, NoTextParsed
  <2>3. PICK t \in TextsOf(p) : text = [t EXCEPT !.symbol = p.dom.symbol]
    BY <2>2, TextTyped DEF IsPage
  <2>4. text \in PriceTexts /\ text.symbol = p.dom.symbol
    BY <2>3, SymbolTyped
  <2>5. /\ price \in 0..PriceMax /\ kept \in PriceTexts
        /\ status \in {"ok", "partial", "failed"} /\ stock \in Stocks
    BY <2>4, NoTextTyped, Parsed DEF IsPage, Stocks
  <2>6. currency \in Currencies /\ CurrencyFromText(p.dom.symbol) \in {NoCurrency, currency}
    <3>1. ParseCurrency(text.symbol, own.region) \in Currencies
      BY CurrencyTyped
    <3>2. currency \in Currencies
      BY <1>1, <3>1 DEF Chosen
    <3>3. CASE p.dom.symbol \in Symbols
      <4>1. ParseCurrency(text.symbol, own.region) = CurrencyFromText(p.dom.symbol)
        BY <2>4, <3>3, CurrencyTyped
      <4> HIDE DEF text, own
      <4>2. CurrencyFromText(p.dom.symbol) \in {NoCurrency, currency}
        BY <4>1 DEF Chosen, NoCurrency
      <4> QED
        BY <3>2, <4>2
    <3>4. CASE p.dom.symbol \notin Symbols
      <4>1. CurrencyFromText(p.dom.symbol) = NoCurrency
        BY <3>4 DEF CurrencyFromText, Symbols
      <4> QED
        BY <3>2, <4>1
    <3> QED
      BY <3>3, <3>4
  <2> HIDE DEF about, status, price, currency, stock, kept, text
  <2>7. r \in Results
    BY Zenon, <1>3, <2>1, <2>5, <2>6 DEF Results
  <2>8. /\ r.tier = 3 /\ r.price = price /\ r.text = kept /\ r.currency = currency
    BY <1>3, <2>1 DEF Results
  <2> HIDE DEF r
  <2>9. From(p, r)
    BY <2>3, <2>6, <2>8 DEF From, kept, price
  <2> QED
    BY <1>6, <2>7, <2>8, <2>9 DEF Good, r
<1> QED
  BY <1>4, <1>5, <1>6
----------------------------------------------------------------------------
(* validate.py *)

OwnFlags == {"ambiguous_locale", "currency_conflict", "price_smell",
             "candidate_disagreement", "block_page_title", "stock_without_price"}

LEMMA Assessed ==
  ASSUME NEW r, NEW sec
  PROVE  LET flags == AssessResult(r, sec)
         IN  /\ IsFiniteSet(flags)
             /\ IsAmbiguousLocale(r.text) => "ambiguous_locale" \in flags
             /\ HasPriceSmell(r.text) => "price_smell" \in flags
             /\ \A s \in sec : CrossTierFlags(r, s) \subseteq flags
<1> DEFINE flags == AssessResult(r, sec)
           cross == UNION {CrossTierFlags(r, s) : s \in sec}
           all == {"ambiguous_locale"} \cup {"currency_conflict"} \cup {"price_smell"}
                    \cup {"candidate_disagreement"} \cup {"block_page_title"} \cup {"stock_without_price"}
                    \cup {"cross_tier_price"} \cup {"cross_tier_title"} \cup {"cross_tier_stock"}
<1>1. IsFiniteSet(all)
  BY FS_Singleton, FS_Union
<1>2. cross \subseteq {"cross_tier_price", "cross_tier_title", "cross_tier_stock"}
  BY DEF CrossTierFlags
<1>3. flags \subseteq all
  <2>1. flags \subseteq OwnFlags \cup cross
    BY DEF AssessResult, OwnFlags
  <2> HIDE DEF flags, cross
  <2> QED
    BY <1>2, <2>1 DEF OwnFlags
<1>4. IsFiniteSet(flags)
  BY <1>1, <1>3, FS_Subset
<1>5. /\ IsAmbiguousLocale(r.text) => "ambiguous_locale" \in flags
      /\ HasPriceSmell(r.text) => "price_smell" \in flags
      /\ \A s \in sec : CrossTierFlags(r, s) \subseteq flags
  BY DEF AssessResult
<1> QED
  BY <1>4, <1>5

LEMMA CrossPrice ==
  ASSUME NEW a, NEW b, a.price # NoPrice, b.price # NoPrice, RatioExceeds(a.price, b.price, 2)
  PROVE  "cross_tier_price" \in CrossTierFlags(a, b)
  BY DEF CrossTierFlags

(* Of the flags of a reading without doubts of its own, those that the     *)
(* candidates and the second witness may raise are left.                   *)
LEMMA FewFlags ==
  ASSUME NEW r, NEW sec,
         ~IsAmbiguousLocale(r.text), ~HasPriceSmell(r.text),
         ~CurrencyConflicts(r.text, r.currency, r.region), r.title = "ours", r.price # NoPrice,
         \A s \in sec : /\ s.title \in {"ours", "none"}
                        /\ {r.stock, s.stock} # {"yes", "no"}
  PROVE  /\ r.tier # 2 => AssessResult(r, sec) \subseteq {"cross_tier_price"}
         /\ sec = {} => AssessResult(r, sec) \subseteq {"candidate_disagreement"}
<1> DEFINE cross == UNION {CrossTierFlags(r, s) : s \in sec}
<1>1. cross \subseteq {"cross_tier_price"}
  BY DEF CrossTierFlags
<1>2. AssessResult(r, sec) \subseteq {"candidate_disagreement"} \cup cross
  BY DEF AssessResult
<1>3. r.tier # 2 => AssessResult(r, sec) \subseteq cross
  BY DEF AssessResult
<1>4. sec = {} => cross = {}
  OBVIOUS
<1> QED
  BY <1>1, <1>2, <1>3, <1>4

(* A text that is misread raises a doubt.                                  *)
LEMMA Doubted ==
  ASSUME NEW p, IsPage(p), Honest(p), NEW t \in TextsOf(p),
         NEW u \in PriceTexts, u.amount = t.amount, u.instalment = t.instalment,
         ParsePrice(u) \notin {NoPrice, p.price}
  PROVE  IsAmbiguousLocale(u) \/ HasPriceSmell(u)
<1> SUFFICES ASSUME ~IsAmbiguousLocale(u) PROVE u.instalment
  BY DEF HasPriceSmell
<1>1. u.amount = ParsePrice(u)
  BY Misparsed
<1>2. t # NoText
  <2>1. NoText.amount = NoPrice
    BY DEF NoText, NoPrice
  <2> QED
    BY <1>1, <2>1
<1>3. PICK name \in DOMAIN p.texts : t = p.texts[name]
  BY <1>2 DEF TextsOf
<1> QED
  BY <1>1, <1>3 DEF Honest

LEMMA MisreadDoubted ==
  ASSUME NEW p, IsPage(p), Honest(p), NEW r, From(p, r), r.tier # 2, r.text # NoText,
         r.price \notin {NoPrice, p.price}
  PROVE  IsAmbiguousLocale(r.text) \/ HasPriceSmell(r.text)
<1>1. r.price = ParsePrice(r.text)
  BY DEF From
<1>2. PICK t \in TextsOf(p) : r.text = t \/ r.text = [t EXCEPT !.symbol = p.dom.symbol]
  BY DEF From
<1>3. r.text \in PriceTexts /\ r.text.amount = t.amount /\ r.text.instalment = t.instalment
  <2>1. CASE r.text = t
    BY <2>1, TextTyped
  <2>2. CASE r.text = [t EXCEPT !.symbol = p.dom.symbol]
    BY <2>2, SymbolTyped
  <2> QED
    BY <1>2, <2>1, <2>2
<1> QED
  BY <1>1, <1>3, Doubted

(* A text that can be read in one way only. *)
Plain(t) == (t.places # 0 \/ t.thousands = "") /\ ~t.instalment

LEMMA UnmistakablePlain == ASSUME NEW t, Unmistakable(t) PROVE Plain(t)
<1>1. t.places # 0 /\ ~t.instalment
  BY DEF Unmistakable
<1> QED
  BY <1>1 DEF Plain

LEMMA NoTextPlain == Plain(NoText) /\ CurrencyFromText(NoText.symbol) = NoCurrency
<1>1. NoText.thousands = "" /\ NoText.instalment = FALSE /\ NoText.symbol = NoSymbol
  BY DEF NoText
<1>2. CurrencyFromText(NoSymbol) = NoCurrency
  BY DEF CurrencyFromText, NoSymbol
<1> QED
  BY <1>1, <1>2 DEF Plain

LEMMA PlainIsClear == ASSUME NEW t, Plain(t) PROVE ~IsAmbiguousLocale(t) /\ ~HasPriceSmell(t)
  BY DEF Plain, IsAmbiguousLocale, HasPriceSmell

(* The heuristics cut a plain text to a plain text, without its symbol.    *)
LEMMA FoundIsPlain ==
  ASSUME NEW t \in PriceTexts, Plain(t)
  PROVE  Plain(Found(t)) /\ CurrencyFromText(Found(t).symbol) = NoCurrency
<1> DEFINE bare == [t EXCEPT !.symbol = NoSymbol, !.instalment = FALSE]
<1>1. /\ bare.symbol = NoSymbol /\ bare.instalment = FALSE
      /\ bare.places = t.places /\ bare.thousands = t.thousands
  BY DEF PriceTexts
<1>2. CurrencyFromText(NoSymbol) = NoCurrency
  BY DEF CurrencyFromText, NoSymbol
<1>3. Found(t) \in {bare, [bare EXCEPT !.amount = 100 * Lead(t), !.thousands = "", !.places = 0]}
  BY DEF Found
<1>4. bare \in PriceTexts
  BY Zenon DEF PriceTexts
<1> HIDE DEF bare
<1>5. CASE Found(t) = bare
  BY <1>1, <1>2, <1>5 DEF Plain
<1>6. CASE Found(t) = [bare EXCEPT !.amount = 100 * Lead(t), !.thousands = "", !.places = 0]
  <2>1. Found(t).symbol = NoSymbol /\ Found(t).instalment = FALSE /\ Found(t).thousands = ""
    BY <1>1, <1>4, <1>6 DEF PriceTexts
  <2> QED
    BY <1>2, <2>1 DEF Plain
<1> QED
  BY <1>3, <1>5, <1>6

LEMMA PlainFrom ==
  ASSUME NEW p, IsPage(p), NEW r, From(p, r),
         \A name \in DOMAIN p.texts : Plain(p.texts[name]) /\ Fits(p.texts[name], r.currency)
  PROVE  Plain(r.text) /\ CurrencyFromText(r.text.symbol) \in {NoCurrency, r.currency}
<1>1. \A t \in TextsOf(p) : Plain(t) /\ CurrencyFromText(t.symbol) \in {NoCurrency, r.currency}
  BY NoTextPlain DEF TextsOf, Fits
<1>2. CASE r.text \in TextsOf(p)
  BY <1>1, <1>2
<1>3. CASE /\ \E t \in TextsOf(p) : r.text = [t EXCEPT !.symbol = p.dom.symbol]
           /\ CurrencyFromText(p.dom.symbol) \in {NoCurrency, r.currency}
  <2>1. PICK t \in TextsOf(p) : r.text = [t EXCEPT !.symbol = p.dom.symbol]
    BY <1>3
  <2>2. /\ r.text.symbol = p.dom.symbol /\ r.text.instalment = t.instalment
        /\ r.text.places = t.places /\ r.text.thousands = t.thousands
    BY <2>1, SymbolTyped
  <2> QED
    BY <1>1, <1>3, <2>2 DEF Plain
<1>4. CASE r.text = NoText
  BY <1>4, NoTextPlain
<1>5. CASE \E t \in TextsOf(p) : r.text = Found(t)
  <2>1. PICK t \in TextsOf(p) : r.text = Found(t)
    BY <1>5
  <2> QED
    BY <1>1, <2>1, TextTyped, FoundIsPlain
<1> QED
  BY <1>2, <1>3, <1>4, <1>5 DEF From
----------------------------------------------------------------------------
(* router.py *)

(* Which extractor read the page, and what the second witness was.         *)
Read(s, p, r, t, sec) ==
  \/ t = ExtractStructured(p, r) /\ sec = {AutoExtract(p, r)}
  \/ t = AutoExtract(p, r) /\ sec = {}
  \/ HasAdapter(s) /\ t = AdapterExtract(s, p) /\ sec = {}
  \/ t = [ExtractStructured(p, r) EXCEPT !.tier = 4] /\ sec = {}

(* A result that carries what an extractor read.                           *)
Carries(s, res, t, sec) ==
  /\ res.status = t.status /\ res.tier = t.tier /\ res.price = t.price /\ res.currency = t.currency
  /\ res.stock = t.stock /\ res.title = t.title /\ res.region = t.region /\ res.text = t.text
  /\ res.mpn \in Numbers /\ res.flags = AssessResult(t, sec)

LEMMA SuccessCarries ==
  ASSUME NEW s \in Site, NEW t \in Results, NEW sec
  PROVE  Carries(s, Success(s, t, sec), t, sec)
<1>1. Chosen(t.mpn, s.item) \in Numbers
  BY DEF Chosen, Results, Site, Numbers
<1> DEFINE mpn == Chosen(t.mpn, s.item)
           flags == AssessResult(t, sec)
           res == Success(s, t, sec)
<1>2. res = [t EXCEPT !.mpn = mpn, !.flags = flags]
  BY DEF Success
<1> HIDE DEF mpn, flags, res
<1>3. /\ res.status = t.status /\ res.tier = t.tier /\ res.price = t.price /\ res.currency = t.currency
      /\ res.stock = t.stock /\ res.title = t.title /\ res.region = t.region /\ res.text = t.text
      /\ res.mpn = mpn /\ res.flags = flags
  BY <1>2 DEF Results
<1> QED
  BY <1>1, <1>3 DEF Carries, mpn, flags, res

LEMMA ReadIsGood ==
  ASSUME NEW s \in Site, NEW p, IsPage(p), NEW r \in SomeRegion, NEW t, NEW sec, Read(s, p, r, t, sec)
  PROVE  Good(p, t) /\ (t.tier = 1 => t = ExtractStructured(p, r) /\ sec = {AutoExtract(p, r)})
                    /\ (t.tier # 1 => sec = {})
<1>1. CASE t = ExtractStructured(p, r) /\ sec = {AutoExtract(p, r)}
  BY <1>1, StructuredFacts
<1>2. CASE t = AutoExtract(p, r) /\ sec = {}
  BY <1>2, AutoFacts
<1>3. CASE HasAdapter(s) /\ t = AdapterExtract(s, p) /\ sec = {}
  BY <1>3, AdapterFacts
<1>4. CASE t = [ExtractStructured(p, r) EXCEPT !.tier = 4] /\ sec = {}
  <2> DEFINE data == ExtractStructured(p, r)
  <2>1. Good(p, data) /\ data.tier = 1 /\ t = [data EXCEPT !.tier = 4]
    BY <1>4, StructuredFacts
  <2> HIDE DEF data
  <2>2. data \in Results
    BY <2>1 DEF Good
  <2>3. t \in Results
    BY Zenon, <2>1, <2>2 DEF Results
  <2>4. /\ t.tier = 4 /\ t.price = data.price /\ t.text = data.text /\ t.status = data.status
        /\ t.currency = data.currency
    BY <2>1, <2>2 DEF Results
  <2>5. From(p, t)
    BY <2>1, <2>4 DEF From, Good
  <2> QED
    BY <1>4, <2>1, <2>3, <2>4, <2>5 DEF Good, IsOk
<1> QED
  BY <1>1, <1>2, <1>3, <1>4 DEF Read

LEMMA UnreadFacts ==
  ASSUME NEW s
  PROVE  \E tier \in {2, 3, 4} : Unread(s) = Failed(tier, NoRegion)
  BY DEF Unread

(* What a scrape returns.                                                  *)
LEMMA ScrapeCases ==
  ASSUME NEW s \in Site, NEW p, IsPage(p), NEW r \in SomeRegion, NEW got \in BOOLEAN
  PROVE  \/ Scrape(s, p, r, got) = Unread(s)
         \/ got /\ \E t, sec : Read(s, p, r, t, sec) /\ IsOk(t) /\ Scrape(s, p, r, got) = Success(s, t, sec)
<1> DEFINE t1 == ExtractStructured(p, r)
           t2 == AutoExtract(p, r)
           t3 == AdapterExtract(s, p)
           t4 == [t1 EXCEPT !.tier = 4]
           res == Scrape(s, p, r, got)
<1>1. IsOk(t1) => IsOk(t4)
  <2>1. t1 \in Results
    BY StructuredFacts DEF Good
  <2> HIDE DEF t1
  <2> QED
    BY <2>1 DEF Results, IsOk
<1>2. CASE HasAdapter(s) /\ Adapter(s).browser
  <2>1. res = IF got /\ IsOk(t3) THEN Success(s, t3, {})
              ELSE IF got /\ IsOk(t1) THEN Success(s, t4, {}) ELSE Unread(s)
    BY <1>2 DEF Scrape, ByBrowser
  <2>2. Read(s, p, r, t3, {}) /\ Read(s, p, r, t4, {})
    BY <1>2 DEF Read
  <2> HIDE DEF t1, t2, t3, t4, res
  <2>3. res = Unread(s) \/ (got /\ IsOk(t3) /\ res = Success(s, t3, {}))
                        \/ (got /\ IsOk(t4) /\ res = Success(s, t4, {}))
    BY <1>1, <2>1
  <2> QED
    BY <2>2, <2>3 DEF res
<1>3. CASE ~(HasAdapter(s) /\ Adapter(s).browser)
  <2>1. res = IF got /\ IsOk(t1) THEN Success(s, t1, {t2})
              ELSE IF got /\ IsOk(t2) THEN Success(s, t2, {})
              ELSE IF got /\ HasAdapter(s) /\ IsOk(t3) THEN Success(s, t3, {})
              ELSE Unread(s)
    BY <1>3 DEF Scrape, ByHttp
  <2>2. /\ Read(s, p, r, t1, {t2}) /\ Read(s, p, r, t2, {})
        /\ HasAdapter(s) => Read(s, p, r, t3, {})
    BY DEF Read
  <2> HIDE DEF t1, t2, t3, t4, res
  <2>3. \/ res = Unread(s)
        \/ got /\ IsOk(t1) /\ res = Success(s, t1, {t2})
        \/ got /\ IsOk(t2) /\ res = Success(s, t2, {})
        \/ got /\ HasAdapter(s) /\ IsOk(t3) /\ res = Success(s, t3, {})
    BY <2>1
  <2> QED
    BY <2>2, <2>3 DEF res
<1> QED
  BY <1>2, <1>3
----------------------------------------------------------------------------
(* The page as the extractors have read it last, for some region the row   *)
(* had then; the region it has now is the one learned from that reading.   *)
PageInv ==
  /\ site \in Sites /\ page \in Pages /\ Honest(page)
  /\ region \in SomeRegion /\ fetched \in BOOLEAN
  /\ \/ result = Failed(0, NoRegion)
     \/ \E r \in SomeRegion, got \in BOOLEAN :
          result = Scrape(site, page, r, got) /\ region = Learned(r, result.region)

LEMMA Typed == PageInv => site \in Site /\ IsPage(page)
  BY PageAssumption DEF PageInv, Site, SomeRegion

LEMMA ScrapedRegion ==
  ASSUME NEW s \in Site, NEW p, IsPage(p), NEW r \in SomeRegion, NEW got \in BOOLEAN
  PROVE  Scrape(s, p, r, got).region \in SomeRegion
<1> DEFINE res == Scrape(s, p, r, got)
<1>1. CASE res = Unread(s)
  BY <1>1, UnreadFacts, FailedFacts DEF SomeRegion
<1>2. CASE \E t, sec : Read(s, p, r, t, sec) /\ IsOk(t) /\ res = Success(s, t, sec)
  <2>1. PICK t, sec : Read(s, p, r, t, sec) /\ res = Success(s, t, sec)
    BY <1>2
  <2>2. t \in Results
    BY <2>1, ReadIsGood DEF Good
  <2>3. res.region = t.region
    BY <2>1, <2>2, SuccessCarries DEF Carries
  <2> HIDE DEF res
  <2>4. res.region \in SomeRegion
    BY <2>2, <2>3 DEF Results
  <2> QED
    BY <2>4 DEF res
<1> QED
  BY <1>1, <1>2, ScrapeCases

LEMMA InitPage == Init => PageInv
  BY DEF Init, PageInv, SomeRegion

LEMMA PageStep == PageInv /\ [Next]_vars => PageInv'
<1> SUFFICES ASSUME PageInv, [Next]_vars PROVE PageInv'
  OBVIOUS
<1>1. ASSUME NEW got \in BOOLEAN, ScrapeAgain(got)
      PROVE  PageInv'
  <2>1. /\ fetched' = got /\ result' = Scrape(site, page, region, got)
        /\ region' = Learned(region, result'.region) /\ site' = site /\ page' = page
    BY <1>1 DEF ScrapeAgain
  <2>2. region \in SomeRegion
    BY DEF PageInv
  <2>3. result'.region \in SomeRegion
    BY <2>1, <2>2, Typed, ScrapedRegion
  <2>4. region' \in SomeRegion
    BY <2>1, <2>2, <2>3 DEF Learned
  <2>5. Honest(page)'
    BY <2>1 DEF PageInv, Honest
  <2>6. \E r \in SomeRegion, g \in BOOLEAN :
          result' = Scrape(site', page', r, g) /\ region' = Learned(r, result'.region)
    BY <2>1, <2>2
  <2> QED
    BY <2>1, <2>4, <2>5, <2>6 DEF PageInv
<1>2. CASE UNCHANGED vars
  BY <1>2 DEF vars, PageInv, Honest
<1> QED
  BY <1>1, <1>2 DEF Next

(* In every behaviour the result is one of the page. *)
THEOREM PageInvariant == Spec => []PageInv
  BY InitPage, PageStep, PTL DEF Spec

(* A good result goes back to an extractor.                                *)
LEMMA GoodResult ==
  ASSUME PageInv, IsOk(result)
  PROVE  \E r \in SomeRegion : \E t, sec :
           /\ result = Scrape(site, page, r, TRUE) /\ region = Learned(r, result.region)
           /\ Read(site, page, r, t, sec) /\ IsOk(t) /\ Good(page, t)
           /\ result = Success(site, t, sec) /\ Carries(site, result, t, sec)
<1>1. result # Failed(0, NoRegion) /\ \A tier \in {2, 3, 4} : result # Failed(tier, NoRegion)
  BY FailedFacts DEF IsOk, SomeRegion
<1>2. PICK r \in SomeRegion, got \in BOOLEAN :
        result = Scrape(site, page, r, got) /\ region = Learned(r, result.region)
  BY <1>1 DEF PageInv
<1>3. result # Unread(site)
  BY <1>1, UnreadFacts
<1>4. got /\ \E t, sec : Read(site, page, r, t, sec) /\ IsOk(t) /\ result = Success(site, t, sec)
  BY <1>2, <1>3, Typed, ScrapeCases
<1>5. PICK t, sec : Read(site, page, r, t, sec) /\ IsOk(t) /\ result = Success(site, t, sec)
  BY <1>4
<1>6. Good(page, t) /\ t \in Results
  BY <1>5, Typed, ReadIsGood DEF Good
<1>7. Carries(site, result, t, sec)
  BY <1>5, <1>6, Typed, SuccessCarries
<1> QED
  BY <1>2, <1>4, <1>5, <1>6, <1>7

(* Every variable keeps its type, whatever the page is like: a good        *)
(* reading has a price within the bounds, a failed one has none.           *)
THEOREM TypeCorrect == Spec => []TypeOK
<1>1. PageInv => TypeOK
  <2> SUFFICES ASSUME PageInv PROVE TypeOK
    OBVIOUS
  <2>1. CASE IsOk(result)
    <3>1. PICK t, sec : IsOk(t) /\ Good(page, t) /\ Carries(site, result, t, sec)
      BY <2>1, GoodResult
    <3>2. t \in Results /\ t.price # NoPrice /\ t.status = "ok"
      BY <3>1 DEF Good, IsOk
    <3>3. /\ result.status = "ok" /\ result.price \in 0..PriceMax /\ result.price # NoPrice
          /\ result.currency \in Currencies /\ result.stock \in Stocks /\ result.title \in Titles
          /\ result.mpn \in Numbers
      BY <3>1, <3>2 DEF Carries, Results
    <3> QED
      BY <2>1, <3>3 DEF TypeOK, PageInv, SomeRegion, Currencies
  <2>2. CASE ~IsOk(result)
    <3>1. \E tier \in {0, 2, 3, 4} : result = Failed(tier, NoRegion)
      <4>1. CASE result = Failed(0, NoRegion)
        BY <4>1
      <4>2. CASE result # Failed(0, NoRegion)
        <5>1. PICK r \in SomeRegion, got \in BOOLEAN : result = Scrape(site, page, r, got)
          BY <4>2 DEF PageInv
        <5>2. ASSUME NEW t, NEW sec, Read(site, page, r, t, sec), IsOk(t), result = Success(site, t, sec)
              PROVE  FALSE
          <6>1. t \in Results
            BY <5>2, Typed, ReadIsGood DEF Good
          <6>2. result.status = t.status
            BY <5>2, <6>1, Typed, SuccessCarries DEF Carries
          <6> QED
            BY <2>2, <5>2, <6>2 DEF IsOk
        <5>3. result = Unread(site)
          BY <5>1, <5>2, Typed, ScrapeCases
        <5> QED
          BY <5>3, UnreadFacts
      <4> QED
        BY <4>1, <4>2
    <3>2. result \in Results /\ result.status = "failed" /\ result.price = NoPrice
      BY <3>1, FailedFacts DEF SomeRegion
    <3>3. /\ result.price \in 0..PriceMax /\ result.currency \in Currencies /\ result.stock \in Stocks
          /\ result.title \in Titles /\ result.mpn \in Numbers
      BY <3>2 DEF Results
    <3> QED
      BY <2>2, <3>2, <3>3 DEF TypeOK, PageInv, SomeRegion, Currencies
  <2> QED
    BY <2>1, <2>2
<1> QED
  BY <1>1, PageInvariant, PTL

(* On no page is a text misread without a doubt: the only rules of         *)
(* parse_price that go wrong are about texts that look ambiguous.          *)
THEOREM MisreadsAreFlagged == Spec => []MisreadIsFlagged
<1>1. PageInv => MisreadIsFlagged
  <2> SUFFICES ASSUME PageInv, IsOk(result), result.tier # 2, result.text # NoText,
                      result.price # page.price
               PROVE  result.flags # {}
    BY DEF MisreadIsFlagged
  <2>1. PICK t, sec : IsOk(t) /\ Good(page, t) /\ Carries(site, result, t, sec)
    BY GoodResult
  <2>2. /\ t.tier # 2 /\ t.text # NoText /\ t.price \notin {NoPrice, page.price}
        /\ result.flags = AssessResult(t, sec) /\ From(page, t)
    BY <2>1 DEF Carries, Good
  <2>3. IsAmbiguousLocale(t.text) \/ HasPriceSmell(t.text)
    BY <2>2, Typed, MisreadDoubted DEF PageInv
  <2> QED
    BY <2>2, <2>3, Assessed
<1> QED
  BY <1>1, PageInvariant, PTL

(* Whenever the second witness reads the price right and the first is off  *)
(* by more than a factor of two, the witness adds a flag to the doubt the  *)
(* text has raised already.                                                *)
THEOREM WitnessesDoubt == Spec => []TwoWitnesses
<1>1. PageInv => TwoWitnesses
  <2> SUFFICES ASSUME PageInv, IsOk(result), result.tier = 1,
                      AutoExtract(page, region).price = page.price,
                      RatioExceeds(result.price, page.price, 2)
               PROVE  Cardinality(result.flags) >= 2
    BY DEF TwoWitnesses
  <2>1. PICK r \in SomeRegion : \E t, sec :
          /\ Read(site, page, r, t, sec) /\ IsOk(t) /\ Good(page, t) /\ Carries(site, result, t, sec)
    BY GoodResult
  <2>2. PICK t, sec :
          /\ Read(site, page, r, t, sec) /\ IsOk(t) /\ Good(page, t) /\ Carries(site, result, t, sec)
    BY <2>1
  <2>3. /\ t.tier = 1 /\ t.price = result.price /\ t.price # NoPrice
        /\ result.flags = AssessResult(t, sec) /\ From(page, t) /\ t \in Results
    BY <2>2 DEF Carries, Good
  <2>4. sec = {AutoExtract(page, r)}
    BY <2>2, <2>3, Typed, ReadIsGood
  <2>5. AutoExtract(page, r).price = page.price
    BY Typed, AutoPrice DEF PageInv
  <2>6. page.price \in Nat \ {0}
    BY Typed DEF IsPage
  <2>7. "cross_tier_price" \in result.flags
    <3>1. "cross_tier_price" \in CrossTierFlags(t, AutoExtract(page, r))
      BY <2>3, <2>5, <2>6, CrossPrice DEF NoPrice
    <3> QED
      BY <2>3, <2>4, <3>1, Assessed
  <2>8. t.price # page.price
    <3>1. t.price \in Nat
      BY <2>3, QuotesAssumption DEF Results
    <3> QED
      BY <2>3, <2>6, <3>1 DEF RatioExceeds
  <2>9. t.text # NoText
    BY <2>3, NoTextParsed DEF From
  <2>10. IsAmbiguousLocale(t.text) \/ HasPriceSmell(t.text)
    BY <2>3, <2>8, <2>9, Typed, MisreadDoubted DEF PageInv
  <2>11. PICK doubt \in {"ambiguous_locale", "price_smell"} : doubt \in result.flags
    BY <2>3, <2>10, Assessed
  <2>12. /\ IsFiniteSet({doubt}) /\ Cardinality({doubt}) = 1
    BY FS_Singleton
  <2>13. Cardinality({doubt} \cup {"cross_tier_price"}) = Cardinality({doubt}) + 1
    BY <2>12, FS_AddElement
  <2>14. {doubt} \cup {"cross_tier_price"} \in SUBSET result.flags
    BY <2>7, <2>11
  <2>15. IsFiniteSet(result.flags) /\ Cardinality(result.flags) \in Nat
    BY <2>3, Assessed, FS_CardinalityType
  <2>16. Cardinality({doubt} \cup {"cross_tier_price"}) <= Cardinality(result.flags)
    BY <2>14, <2>15, FS_Subset
  <2> QED
    BY <2>12, <2>13, <2>15, <2>16
<1> QED
  BY <1>1, PageInvariant, PTL

(* A page that gives no reason for doubt gets at most the one flag that    *)
(* the heuristics may raise.                                               *)
THEOREM ClearPagesAlert == Spec => []ClearPageMayAlert
<1>1. PageInv => ClearPageMayAlert
  <2> SUFFICES ASSUME PageInv, IsOk(result),
                      \A name \in DOMAIN page.texts :
                        Unmistakable(page.texts[name]) /\ Fits(page.texts[name], result.currency),
                      page.title = "ours", result.title = "ours",
                      {page.signal, result.stock} # {"yes", "no"},
                      result.currency = CurrencyForRegion(result.region)
               PROVE  Cardinality(result.flags) <= 1
    BY DEF ClearPageMayAlert
  <2>1. PICK r \in SomeRegion : \E t, sec :
          /\ Read(site, page, r, t, sec) /\ IsOk(t) /\ Good(page, t) /\ Carries(site, result, t, sec)
    BY GoodResult
  <2>2. PICK t, sec :
          /\ Read(site, page, r, t, sec) /\ IsOk(t) /\ Good(page, t) /\ Carries(site, result, t, sec)
    BY <2>1
  <2>3. /\ t.currency = result.currency /\ t.region = result.region /\ t.title = "ours"
        /\ t.stock = result.stock /\ t.price # NoPrice
        /\ result.flags = AssessResult(t, sec) /\ From(page, t)
    BY <2>2 DEF Carries, Good
  <2>4. \A name \in DOMAIN page.texts : Plain(page.texts[name]) /\ Fits(page.texts[name], t.currency)
    BY <2>3, UnmistakablePlain
  <2>5. Plain(t.text) /\ CurrencyFromText(t.text.symbol) \in {NoCurrency, t.currency}
    BY <2>3, <2>4, Typed, PlainFrom
  <2>6. ~CurrencyConflicts(t.text, t.currency, t.region)
    BY <2>3, <2>5 DEF CurrencyConflicts
  <2>7. \A s \in sec : s.title \in {"ours", "none"} /\ {t.stock, s.stock} # {"yes", "no"}
    <3>1. sec = {} \/ sec = {AutoExtract(page, r)}
      BY <2>2, Typed, ReadIsGood
    <3>2. /\ AutoExtract(page, r).stock \in {page.signal, "unknown"}
          /\ AutoExtract(page, r).title \in {"ours", "none"}
      BY Typed, AutoFacts
    <3> QED
      BY <2>3, <3>1, <3>2
  <2>8. t.tier # 2 \/ sec = {}
    BY <2>2, Typed, ReadIsGood
  <2>9. PICK flag : result.flags \in SUBSET {flag}
    BY <2>3, <2>5, <2>6, <2>7, <2>8, PlainIsClear, FewFlags
  <2>10. IsFiniteSet({flag}) /\ Cardinality({flag}) = 1
    BY FS_Singleton
  <2> QED
    BY <2>9, <2>10, FS_Subset
<1> QED
  BY <1>1, PageInvariant, PTL
----------------------------------------------------------------------------
(* The adapter of the shop does not ask what region the row has.           *)
LEMMA AdapterReadsAlways ==
  ASSUME NEW s \in Site, NEW p, IsPage(p), NEW r \in SomeRegion,
         HasAdapter(s), IsOk(AdapterExtract(s, p))
  PROVE  Scrape(s, p, r, TRUE) # Unread(s)
<1> DEFINE t1 == ExtractStructured(p, r)
           t2 == AutoExtract(p, r)
           t3 == AdapterExtract(s, p)
<1>1. t1 \in Results /\ t2 \in Results /\ t3 \in Results
  BY StructuredFacts, AutoFacts, AdapterFacts DEF Good
<1>2. ASSUME NEW t \in Results, NEW sec, IsOk(t)
      PROVE  Success(s, t, sec) # Unread(s)
  <2>1. Success(s, t, sec).status = "ok"
    BY <1>2, SuccessCarries DEF Carries, IsOk
  <2>2. Unread(s).status = "failed"
    BY UnreadFacts, FailedFacts DEF SomeRegion
  <2> QED
    BY <2>1, <2>2
<1>3. CASE Adapter(s).browser
  <2>1. Scrape(s, p, r, TRUE) = Success(s, t3, {})
    BY <1>3 DEF Scrape, ByBrowser
  <2> QED
    BY <1>1, <1>2, <2>1
<1>4. CASE ~Adapter(s).browser
  <2>1. Scrape(s, p, r, TRUE) \in {IF IsOk(t1) THEN Success(s, t1, {t2})
                                    ELSE IF IsOk(t2) THEN Success(s, t2, {}) ELSE Success(s, t3, {})}
    BY <1>4 DEF Scrape, ByHttp
  <2> HIDE DEF t1, t2, t3
  <2>2. \/ IsOk(t1) /\ Scrape(s, p, r, TRUE) = Success(s, t1, {t2})
        \/ IsOk(t2) /\ Scrape(s, p, r, TRUE) = Success(s, t2, {})
        \/ Scrape(s, p, r, TRUE) = Success(s, t3, {})
    BY <2>1
  <2> QED
    BY <1>1, <1>2, <2>2 DEF t3
<1> QED
  BY <1>3, <1>4

(* With the region learned from a good reading the page is read again: it  *)
(* is the region of before, or the adapter has read it, which will do so   *)
(* unless an earlier extractor does.                                       *)
LEMMA ReadAgain ==
  ASSUME PageInv, IsOk(result)
  PROVE  IsOk(Scrape(site, page, region, TRUE))
<1>1. PICK r \in SomeRegion : \E t, sec :
        /\ result = Scrape(site, page, r, TRUE) /\ region = Learned(r, result.region)
        /\ Read(site, page, r, t, sec) /\ IsOk(t) /\ Good(page, t) /\ Carries(site, result, t, sec)
  BY GoodResult
<1>2. PICK t, sec :
        /\ result = Scrape(site, page, r, TRUE) /\ region = Learned(r, result.region)
        /\ Read(site, page, r, t, sec) /\ IsOk(t) /\ Good(page, t) /\ Carries(site, result, t, sec)
  BY <1>1
<1>3. region \in SomeRegion /\ result.region = t.region
  BY <1>2 DEF PageInv, Carries
<1>4. CASE region = r
  BY <1>2, <1>4
<1>5. CASE region # r
  <2>1. r = NoRegion /\ t.region # NoRegion
    BY <1>2, <1>3, <1>5 DEF Learned
  <2>2. t # ExtractStructured(page, r) /\ t # AutoExtract(page, r)
    BY <2>1, Typed, StructuredFacts, AutoFacts
  <2>3. t # [ExtractStructured(page, r) EXCEPT !.tier = 4]
    <3> DEFINE data == ExtractStructured(page, r)
    <3>1. data \in Results /\ data.region = NoRegion
      BY <2>1, Typed, StructuredFacts DEF Good
    <3> HIDE DEF data
    <3>2. [data EXCEPT !.tier = 4].region = NoRegion
      BY <3>1 DEF Results
    <3> QED
      BY <2>1, <3>2 DEF data
  <2>4. HasAdapter(site) /\ IsOk(AdapterExtract(site, page))
    BY <1>2, <2>2, <2>3 DEF Read
  <2>5. Scrape(site, page, region, TRUE) # Unread(site)
    BY <1>3, <2>4, Typed, AdapterReadsAlways
  <2>6. PICK u, second : /\ Read(site, page, region, u, second) /\ IsOk(u)
                         /\ Scrape(site, page, region, TRUE) = Success(site, u, second)
    BY <1>3, <2>5, Typed, ScrapeCases
  <2>7. u \in Results
    BY <1>3, <2>6, Typed, ReadIsGood DEF Good
  <2>8. Carries(site, Success(site, u, second), u, second)
    BY <2>7, Typed, SuccessCarries
  <2>9. Success(site, u, second).status = u.status
    BY <2>8 DEF Carries
  <2> QED
    BY <2>6, <2>9 DEF IsOk
<1> QED
  BY <1>4, <1>5

(* A page that could be read stays readable, whatever region is learned.   *)
THEOREM PageStaysReadable == Spec => StaysReadable
<1>1. PageInv /\ [Next]_vars => [IsOk(result) /\ fetched' => IsOk(result')]_vars
  <2> SUFFICES ASSUME PageInv, Next, IsOk(result), fetched' PROVE IsOk(result')
    BY DEF vars
  <2>1. PICK got \in BOOLEAN : ScrapeAgain(got)
    BY DEF Next
  <2>2. result' = Scrape(site, page, region, TRUE)
    BY <2>1 DEF ScrapeAgain
  <2>3. IsOk(Scrape(site, page, region, TRUE))
    BY ReadAgain
  <2> QED
    BY <2>2, <2>3 DEF IsOk
<1> QED
  BY <1>1, PageInvariant, PTL DEF Spec, StaysReadable
=============================================================================
