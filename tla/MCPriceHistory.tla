--------------------------- MODULE MCPriceHistory ---------------------------
(* A price of 100 that rises to 2000 and falls again, read a hundred times *)
(* too low, in the wrong currency, or from another product's page.         *)
EXTENDS PriceHistory

MCOffers ==
  {[price |-> 100, stock |-> "yes"], [price |-> 100, stock |-> "no"], [price |-> 2000, stock |-> "yes"]}

Read(price, currency, title, number) ==
  [status |-> "ok", price |-> price, currency |-> currency, stock |-> "yes",
   title |-> title, number |-> number, flags |-> {}]

MCMisreadings ==
  {Read(1, "USD", "ours", "ours"),
   Read(90, "EUR", "ours", "none"),
   Read(70, "USD", "other", "other")}

MCAnswers == {Read(2000, "USD", "ours", "none")}
============================================================================
