---------------------------- MODULE PageReading ----------------------------
(***************************************************************************)
(* One product page, scraped again and again: TierRouter.scrape with the   *)
(* region of the product row, which PriceService.record_snapshot learns    *)
(* from the readings (app/services/price_service.py).  The page is honest: *)
(* its parts speak of one product, whose price is page.price; what the     *)
(* scraper makes of it depends on how they are written and on which parts  *)
(* there are.                                                              *)
(***************************************************************************)
EXTENDS Extraction

CONSTANTS Sites,    \* of [shop, tld, item]
          Pages     \* what pages may look like

Shops == {"amazon", "ebay", "aliexpress", "walmart", "bestbuy", "target", "none"}

(* A part of a page points at a text of it, or at none; what the           *)
(* heuristics look at are the elements that have one.                      *)
PointsIn(p, name) == name \in DOMAIN p.texts \cup {"none"}

IsOffer(p, offer) ==
  /\ PointsIn(p, offer.text)
  /\ offer.currency \in Codes \cup Symbols \cup {NoCurrency}
  /\ offer.stock \in Stocks

IsPage(p) ==
  /\ p.price \in Nat \ {0}
  /\ \A name \in DOMAIN p.texts : p.texts[name] \in PriceTexts
  /\ \A i \in DOMAIN p.nodes :
       IsOffer(p, p.nodes[i].offer) /\ p.nodes[i].offers \in BOOLEAN /\ p.nodes[i].mpn \in Numbers
  /\ IsOffer(p, p.micro) /\ p.micro.scope \in BOOLEAN
  /\ IsOffer(p, p.og) /\ p.og.title \in Titles
  /\ \A i \in DOMAIN p.marks : p.marks[i].text \in DOMAIN p.texts
  /\ PointsIn(p, p.dom.text) /\ p.dom.symbol \in Symbols \cup {NoSymbol} /\ p.dom.stock \in Stocks
  /\ p.title \in Titles /\ p.signal \in Stocks

ASSUME PageAssumption ==
  /\ Sites \subseteq [shop : Shops, tld : Regions \cup {NoRegion}, item : {"item", "none"}]
  /\ \A p \in Pages : IsPage(p)

VARIABLES site, page,
          region,   \* Product.region
          fetched,  \* whether the last scrape got the page
          result    \* what it returned

vars == <<site, page, region, fetched, result>>

(* Every text is a writing of the price, or of an instalment. *)
Honest(p) == \A name \in DOMAIN p.texts : p.texts[name].amount = p.price \/ p.texts[name].instalment

Init ==
  /\ site \in Sites
  /\ page \in {p \in Pages : Honest(p)}
  /\ region \in Regions \cup {NoRegion}     \* region_default of the server
  /\ fetched = FALSE
  /\ result = Failed(0, NoRegion)

(* The row keeps the first region it hears of. *)
Learned(known, heard) == IF known = NoRegion THEN heard ELSE known

ScrapeAgain(got) ==
  /\ fetched' = got
  /\ result' = Scrape(site, page, region, got)
  /\ region' = Learned(region, result'.region)
  /\ UNCHANGED <<site, page>>

Next == \E got \in BOOLEAN : ScrapeAgain(got)

Spec == Init /\ [][Next]_vars
----------------------------------------------------------------------------
(* Every variable keeps its type; a good reading has a price within the    *)
(* bounds, a failed one has none.                                          *)
TypeOK ==
  /\ site \in Sites /\ page \in Pages /\ Honest(page)
  /\ region \in Regions \cup {NoRegion}
  /\ fetched \in BOOLEAN
  /\ result.status \in {"ok", "failed"}
  /\ result.price \in 0..PriceMax
  /\ result.price = NoPrice <=> ~IsOk(result)
  /\ result.currency \in Codes \cup {NoCurrency}
  /\ result.stock \in Stocks /\ result.title \in Titles /\ result.mpn \in Numbers

(* A price read from a text of the page and not the product's is doubted:  *)
(* structured data and the amazon adapter leave the text to assess_result, *)
(* and whatever makes parse_price go wrong (1.299 for 1299, the instalment *)
(* for the whole) is something the checks look for (validate.py 60-69).    *)
(* Heuristics cut the text and the other adapters drop it: not stated      *)
(* for those.                                                              *)
MisreadIsFlagged ==
  IsOk(result) /\ result.tier # 2 /\ result.text # NoText /\ result.price # page.price
    => result.flags # {}

(* When structured data are misread by more than a factor of two and the   *)
(* heuristics, run as a second witness, read the price right, at least two *)
(* flags are raised, and two take the reading below the confidence at      *)
(* which alerts fire (router.py 54-57, alert_service.py 105).              *)
TwoWitnesses ==
  IsOk(result) /\ result.tier = 1
      /\ AutoExtract(page, region).price = page.price
      /\ RatioExceeds(result.price, page.price, 2)
    => Cardinality(result.flags) >= 2

Unmistakable(t) == t.places = 2 /\ ~t.instalment

(* The symbol by a text is that of the currency, if there is one. *)
Fits(t, currency) == CurrencyFromText(t.symbol) \in {NoCurrency, currency}

(* The checks do not silence a page that gives no reason for doubt: with   *)
(* prices that can be read in one way only, one title, one currency that   *)
(* is the region's and no two signs of stock, at most one flag is raised,  *)
(* whatever prices the heuristics make of the elements of the page, and    *)
(* one flag still lets alerts fire (limits.py 61, alert_service.py 105).   *)
ClearPageMayAlert ==
  IsOk(result)
      /\ (\A name \in DOMAIN page.texts :
            Unmistakable(page.texts[name]) /\ Fits(page.texts[name], result.currency))
      /\ page.title = "ours" /\ result.title = "ours"
      /\ {page.signal, result.stock} # {"yes", "no"}
      /\ result.currency = CurrencyForRegion(result.region)
    => Cardinality(result.flags) <= 1

(* A page that could be read stays readable: learning the region from a    *)
(* reading, after which other extractors see more in the same page and may *)
(* come first, never turns the next fetched reading into a failure         *)
(* (price_service.py 83-84, router.py 49-91).                              *)
StaysReadable ==
  [][IsOk(result) /\ fetched' => IsOk(result')]_vars
============================================================================
