--------------------------- MODULE MCPageReading ---------------------------
(* Pages of several shops that write a price of 1299, or of 19.99, in the  *)
(* ways of several countries, with some parts missing.                     *)
EXTENDS PageReading, TLC

MCSites ==
  {[shop |-> "none", tld |-> NoRegion, item |-> "none"],
   [shop |-> "amazon", tld |-> "DE", item |-> "none"],
   [shop |-> "ebay", tld |-> "US", item |-> "item"],
   [shop |-> "walmart", tld |-> NoRegion, item |-> "none"],
   [shop |-> "bestbuy", tld |-> NoRegion, item |-> "none"]}

Written(amount, thousands, mark, places) ==
  [NoText EXCEPT !.amount = amount, !.thousands = thousands, !.mark = mark, !.places = places]

(* $19.99, 1299.00, 1,299.00, 1.299,00, 1.299, 1 299,00 and 19.99/mo *)
Texts ==
  {[Written(1999, "", ".", 2) EXCEPT !.symbol = "$"], Written(129900, "", ".", 2), Written(129900, ",", ".", 2),
   Written(129900, ".", ",", 2), Written(129900, ".", ".", 0), Written(129900, " ", ",", 2),
   [Written(1999, "", ".", 2) EXCEPT !.instalment = TRUE]}

Named(currencies) == {[NoOffer EXCEPT !.text = "data", !.currency = c] : c \in currencies}

Bare        == [offers |-> FALSE, offer |-> NoOffer, mpn |-> "none"]
With(offer) == [offers |-> TRUE, offer |-> offer, mpn |-> "maker"]
Nodes ==
  {<<>>, <<Bare>>}
    \cup UNION {{<<With(o)>>, <<Bare, With([o EXCEPT !.stock = "yes"])>>} :
                  o \in Named({"EUR", NoCurrency})}

Micros ==
  {[scope |-> o # NoOffer] @@ o : o \in {NoOffer} \cup Named({"USD", NoCurrency})}

Graphs ==
  {[title |-> IF o = NoOffer THEN "none" ELSE "ours"] @@ o : o \in {NoOffer} \cup Named({"$"})}

Mark(score, text, token) == [score |-> score, text |-> text, token |-> token]
Marks ==
  {<<>>, <<Mark(5, "shown", NoCurrency)>>,
   <<Mark(2, "data", "$"), Mark(3, "shown", "$")>>}

(* Whole pages; where it matters, the sign of stock may be another.         *)
PagesWith(titles, signals) ==
  [price : {1999, 129900}, texts : [{"data", "shown"} -> Texts], title : titles,
   nodes : Nodes, micro : Micros, og : Graphs, marks : Marks, signal : signals,
   dom : {[text |-> "shown", symbol |-> s, stock |-> "yes"] : s \in {"E", NoSymbol}}]

MCPages ==
  PagesWith({"ours", "none"}, {"yes"})
    \cup {p \in PagesWith({"ours"}, {"no"}) : p.marks # <<>> /\ ~p.micro.scope}
============================================================================
