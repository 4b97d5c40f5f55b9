----------------------------- MODULE Extraction -----------------------------
(***************************************************************************)
(* From a page to a reading: the cascade of TierRouter.scrape              *)
(* (app/scraper/router.py) over structured data (structured.py),           *)
(* heuristics (autoextract.py) and the adapters of single shops            *)
(* (app/scraper/adapters/).                                                *)
(*                                                                         *)
(* A page has some price texts and parts that point at them: each source   *)
(* of structured data, the elements that look like prices, and the element *)
(* the adapter of the shop looks for.  A part has at most one text, one    *)
(* currency and one sign of stock; finding them in the markup is left out. *)
(* The elements are those with a score and a number in their text.         *)
(***************************************************************************)
EXTENDS Quotes, Sequences

Stocks == {"yes", "no", "unknown"}
Numbers == {"maker", "item", "none"}      \* what an mpn may be
Titles == {"ours", "other", "block", "none"}

NoOffer == [text |-> "none", currency |-> NoCurrency, stock |-> "unknown"]

TextOf(page, name) == IF name = "none" THEN NoText ELSE page.texts[name]

(* A ScrapeResult; text is raw_fingerprint["price_text"], candidates is    *)
(* ["price_candidates"].  A field that is None is empty here.              *)
Failed(tier, region) ==
  [status |-> "failed", tier |-> tier, price |-> NoPrice, currency |-> NoCurrency,
   stock |-> "unknown", title |-> "none", mpn |-> "none", region |-> region,
   text |-> NoText, candidates |-> {}, flags |-> {}]

IsOk(r) == r.status = "ok"
----------------------------------------------------------------------------
(* structured.py *)

(* What an offer says, with the currency of the region if it names none.   *)
Reading(page, offer, title, region) ==
  [Failed(1, region) EXCEPT
     !.price = ParsePrice(TextOf(page, offer.text)),
     !.currency = ParseCurrency(offer.currency, region),
     !.stock = offer.stock,
     !.title = title,
     !.text = TextOf(page, offer.text)]

Says(r) == r.price # NoPrice \/ r.currency # NoCurrency

Graded(r, complete) == [r EXCEPT !.status = IF complete THEN "ok" ELSE "partial"]

Complete(r) == r.price # NoPrice /\ r.currency # NoCurrency

(* Variant of CompleteJsonld: stock or currency alone will do. *)
CompleteJsonldUnpriced(r) == r.stock # "unknown" \/ r.currency # NoCurrency

CompleteJsonld(r) == r.price # NoPrice /\ (r.stock # "unknown" \/ r.currency # NoCurrency)

(* The nodes to look at: those without offers only if no node has any.     *)
SelectJsonldProducts(nodes) ==
  LET with == {i \in DOMAIN nodes : nodes[i].offers}
  IN  IF with # {} THEN with ELSE DOMAIN nodes

FromJsonld(page, node, region) ==
  LET r == Reading(page, IF node.offers THEN node.offer ELSE NoOffer, page.title, region)
  IN  IF Says(r) THEN {[Graded(r, CompleteJsonld(r)) EXCEPT !.mpn = node.mpn]} ELSE {}

FromMicrodata(page, region) ==
  LET r == Reading(page, page.micro, page.title, region)
  IN  IF page.micro.scope /\ Says(r) THEN {Graded(r, Complete(r))} ELSE {}

FromOpengraph(page, region) ==
  LET r == Reading(page, page.og, page.og.title, region)
  IN  IF Says(r) \/ page.og.title # "none" THEN {Graded(r, Complete(r))} ELSE {}

(* What the first node says that says anything. *)
FirstJsonld(page, region) ==
  LET talking == {i \in SelectJsonldProducts(page.nodes) : FromJsonld(page, page.nodes[i], region) # {}}
  IN  UNION {FromJsonld(page, page.nodes[i], region) : i \in {k \in talking : \A j \in talking : k <= j}}

FirstOf(a, b, c) == IF a # {} THEN a ELSE IF b # {} THEN b ELSE c

SaidOr(any, nothing) == IF any = {} THEN nothing ELSE CHOOSE r \in any : TRUE

(* The first source that says anything, complete or not. *)
ExtractStructured(page, region) ==
  SaidOr(FirstOf(FirstJsonld(page, region), FromMicrodata(page, region), FromOpengraph(page, region)),
         Failed(1, NoRegion))
----------------------------------------------------------------------------
(* autoextract.py *)

(* The first of the elements with the highest score, if there are any. *)
Best(marks) ==
  LET top == {i \in DOMAIN marks : \A j \in DOMAIN marks : marks[j].score <= marks[i].score}
  IN  {marks[i] : i \in {k \in top : \A j \in top : k <= j}}

Candidates(page) ==
  {ParsePrice(Found(TextOf(page, page.marks[i].text))) : i \in DOMAIN page.marks} \ {NoPrice}

AutoExtract(page, region) ==
  LET found == Best(page.marks)
      best  == CHOOSE mark \in found : TRUE
      text  == Found(TextOf(page, best.text))
      price == ParsePrice(text)
      currency == ParseCurrency(best.token, region)
  IN  IF found = {} \/ price = NoPrice THEN Failed(2, NoRegion)
      ELSE [Failed(2, region) EXCEPT
              !.status = IF best.score >= 3 /\ currency # NoCurrency THEN "ok" ELSE "partial",
              !.price = price,
              !.currency = currency,
              !.stock = page.signal,
              !.title = IF page.title # "none" THEN page.title ELSE page.og.title,
              !.text = text,
              !.candidates = Candidates(page)]
----------------------------------------------------------------------------
(* adapters/ *)

(* The adapters differ in whether they need a browser, in where the region *)
(* comes from, in the currency of a price without any, in the stock they   *)
(* look for and in whether they keep the price text for the checks.  Only  *)
(* ebay's writes the number of the item where the maker's may stand.       *)
Amazon(site) ==
  [browser |-> FALSE, region |-> site.tld, currency |-> NoCurrency,
   stock |-> TRUE, keepsText |-> TRUE, item |-> "none"]

Ebay(site) == [Amazon(site) EXCEPT !.keepsText = FALSE, !.item = site.item]

AliExpress ==
  [browser |-> TRUE, region |-> NoRegion, currency |-> NoCurrency,
   stock |-> FALSE, keepsText |-> FALSE, item |-> "none"]

Walmart == [AliExpress EXCEPT !.region = "US", !.currency = "USD", !.stock = TRUE]

BestBuy == [Walmart EXCEPT !.browser = FALSE]

Target == [Walmart EXCEPT !.browser = FALSE]

(* find_adapter, for hosts that have one *)
Adapter(site) ==
  CASE site.shop = "amazon" -> Amazon(site)
    [] site.shop = "ebay" -> Ebay(site)
    [] site.shop = "aliexpress" -> AliExpress
    [] site.shop = "walmart" -> Walmart
    [] site.shop = "bestbuy" -> BestBuy
    [] site.shop = "target" -> Target

HasAdapter(site) == site.shop # "none"

Chosen(first, second) == IF first # "none" THEN first ELSE second

AdapterExtract(site, page) ==
  LET own  == Adapter(site)
      data == ExtractStructured(page, own.region)
      text == IF page.dom.text = "none" THEN NoText
              ELSE [TextOf(page, page.dom.text) EXCEPT !.symbol = page.dom.symbol]
      price    == ParsePrice(text)
      currency == Chosen(ParseCurrency(text.symbol, own.region), own.currency)
      about    == [Failed(3, own.region) EXCEPT !.title = page.title, !.mpn = own.item]
  IN  IF IsOk(data) THEN [data EXCEPT !.tier = 3, !.mpn = Chosen(own.item, data.mpn)]
      ELSE IF price = NoPrice THEN about
      ELSE [about EXCEPT
              !.status = IF currency # NoCurrency THEN "ok" ELSE "partial",
              !.price = price,
              !.currency = currency,
              !.stock = IF own.stock THEN page.dom.stock ELSE "unknown",
              !.text = IF own.keepsText THEN text ELSE NoText]
----------------------------------------------------------------------------
(* validate.py *)

CrossTierFlags(a, b) ==
  {f \in {"cross_tier_price", "cross_tier_title", "cross_tier_stock"} :
     CASE f = "cross_tier_price" ->
            a.price # NoPrice /\ b.price # NoPrice /\ RatioExceeds(a.price, b.price, 2)
       [] f = "cross_tier_title" -> a.title # b.title /\ "none" \notin {a.title, b.title}
       [] f = "cross_tier_stock" -> {a.stock, b.stock} = {"yes", "no"}}

(* assess_result; the confidence is 1 less a quarter for each flag.        *)
AssessResult(r, secondary) ==
  {f \in {"ambiguous_locale", "currency_conflict", "price_smell",
          "candidate_disagreement", "block_page_title", "stock_without_price"} :
     CASE f = "ambiguous_locale" -> IsAmbiguousLocale(r.text)
       [] f = "currency_conflict" -> CurrencyConflicts(r.text, r.currency, r.region)
       [] f = "price_smell" -> HasPriceSmell(r.text)
       [] f = "candidate_disagreement" -> r.tier = 2 /\ CandidatesDisagree(r.candidates)
       [] f = "block_page_title" -> r.title \in {"block", "none"}
       [] f = "stock_without_price" -> r.stock = "yes" /\ r.price = NoPrice}
    \cup UNION {CrossTierFlags(r, s) : s \in secondary}
----------------------------------------------------------------------------
(* router.py: the tiers in order; the circuit is RedisCircuit's.           *)

(* The number of the item in the address is taken if the page names none.  *)
Success(site, r, secondary) ==
  [r EXCEPT !.mpn = Chosen(r.mpn, site.item), !.flags = AssessResult(r, secondary)]

(* What is returned if no extractor read the page. *)
Unread(site) ==
  Failed(CASE ~HasAdapter(site) -> 2
           [] HasAdapter(site) /\ Adapter(site).browser -> 4
           [] OTHER -> 3, NoRegion)

(* Variants of ByHttp: no second witness; structured data that say         *)
(* anything settle it.                                                     *)
ByHttpAlone(site, page, region, fetched) ==
  LET t1 == ExtractStructured(page, region)
      t2 == AutoExtract(page, region)
      t3 == AdapterExtract(site, page)
  IN  IF fetched /\ IsOk(t1) THEN Success(site, t1, {})
      ELSE IF fetched /\ IsOk(t2) THEN Success(site, t2, {})
      ELSE IF fetched /\ HasAdapter(site) /\ IsOk(t3) THEN Success(site, t3, {})
      ELSE Unread(site)

ByHttpTalked(site, page, region, fetched) ==
  LET t1 == ExtractStructured(page, region)
      t2 == AutoExtract(page, region)
      t3 == AdapterExtract(site, page)
      silent == t1.status = "failed"
  IN  IF fetched /\ IsOk(t1) THEN Success(site, t1, {t2})
      ELSE IF fetched /\ silent /\ IsOk(t2) THEN Success(site, t2, {})
      ELSE IF fetched /\ silent /\ HasAdapter(site) /\ IsOk(t3) THEN Success(site, t3, {})
      ELSE Unread(site)

(* Pages that need no browser; nothing was fetched if fetched is FALSE.    *)
ByHttp(site, page, region, fetched) ==
  LET t1 == ExtractStructured(page, region)
      t2 == AutoExtract(page, region)
      t3 == AdapterExtract(site, page)
  IN  IF fetched /\ IsOk(t1) THEN Success(site, t1, {t2})
      ELSE IF fetched /\ IsOk(t2) THEN Success(site, t2, {})
      ELSE IF fetched /\ HasAdapter(site) /\ IsOk(t3) THEN Success(site, t3, {})
      ELSE Unread(site)

ByBrowser(site, page, region, fetched) ==
  LET t4 == AdapterExtract(site, page)
      data == ExtractStructured(page, region)
  IN  IF fetched /\ IsOk(t4) THEN Success(site, t4, {})
      ELSE IF fetched /\ IsOk(data) THEN Success(site, [data EXCEPT !.tier = 4], {})
      ELSE Unread(site)

Scrape(site, page, region, fetched) ==
  IF HasAdapter(site) /\ Adapter(site).browser THEN ByBrowser(site, page, region, fetched)
  ELSE ByHttp(site, page, region, fetched)
============================================================================
