---------------------------- MODULE CheckoutPanel ----------------------------
(***************************************************************************)
(* One visit at the checkout panel of the Floor page, from the first query *)
(* of the panel to the sale, and the checkout of payments.service.ts that  *)
(* prices what the panel sent.  The panel keeps the row it was opened on,  *)
(* one key for all its attempts, and prices out of tables that arrive one  *)
(* by one; the server trusts it for services and taxability, and for       *)
(* products, codes and the premium looks again.  The transactions under a  *)
(* checkout are Checkout's: here a request is served in one step.          *)
(***************************************************************************)
EXTENDS Integers, FiniteSets, Functions

CONSTANTS
  Menu, Goods, Codes, \* services, products, discount codes
  NoCode,             \* no code was typed
  Gone,               \* what a table says of a row that is not in it
  Sitting,            \* the visit as the board showed it: main, extras with their prices, asked, by
  Deputy,             \* a barber another tablet may hand the visit to
  Tariff,             \* the shop's tables at first
  Revisions,          \* what they may become, a bound on the model
  MaxTouches          \* edits and attempts, a bound on the model

Queries == {"services", "goods", "codes", "premium", "taxes", "features"}

\* What the settings page lets into the tables: no price is negative, and no percentage more than all.
Tables ==
  {t \in {Tariff} \cup Revisions :
     /\ DOMAIN t = Queries /\ t["premium"] \in Nat
     /\ t["services"] \in [Menu -> Nat \cup {Gone}] /\ t["goods"] \in [Goods -> Nat \cup {Gone}]
     /\ \A c \in Codes : t["codes"][c] # Gone =>
          /\ t["codes"][c].type \in {"percent", "flat"} /\ t["codes"][c].value \in Nat
          /\ t["codes"][c].type = "percent" => t["codes"][c].value <= 100}

ASSUME CheckoutPanelConstants ==
  /\ {Tariff} \cup Revisions \subseteq Tables
  /\ Gone \notin Nat /\ IsFiniteSet(Menu) /\ IsFiniteSet(Goods)
  /\ Sitting.main \in Menu /\ \E S \in SUBSET Menu : Sitting.extras \in [S -> Nat]
  /\ Sitting.by # Gone /\ MaxTouches \in Nat

VARIABLES
  tariff,   \* the shop's tables: prices, codes, the premium of the barber asked for, what is taxed
  doing,    \* who does the visit; Gone when it is not in service any more
  answered, \* the answer of each query of the panel, empty before there is one
  sheet,    \* what the panel's controls hold
  window,   \* "open", "sending", "done" or "left"
  edits, sends,
  underway, \* requests on their way to the server, and answers on their way back
  booked,   \* the sale of this panel's key, or none
  unheard   \* an answer or a request of the panel was lost

panelVars == <<tariff, doing, answered, sheet, window, edits, sends, underway, booked, unheard>>

NoSale == <<>>

\* useState and useQuery: at most one of the tables is still missing when somebody reads the panel.
CheckoutPanelInit ==
  /\ tariff = Tariff /\ doing = Sitting.by
  /\ \E slow \in SUBSET Queries :
       Cardinality(slow) <= 1 /\ answered = [q \in Queries |-> IF q \in slow THEN <<>> ELSE <<Tariff[q]>>]
  /\ sheet = [main |-> Sitting.main, extras |-> Sitting.extras, goods |-> <<>>, tip |-> 0, code |-> NoCode]
  /\ window = "open" /\ edits = 0 /\ sends = 0
  /\ underway = {} /\ booked = NoSale /\ unheard = FALSE

-----------------------------------------------------------------------------
(* What the panel shows. *)

SumOf(f) == FoldFunction(+, 0, f)

Loaded(q)  == answered[q] # <<>>
Listed(q)  == answered[q][1]
Priced(s)  == IF Loaded("services") /\ Listed("services")[s] # Gone THEN Listed("services")[s] ELSE 0
Earned(by) == Sitting.asked # Gone /\ Sitting.asked = by

BarberPremium == IF Earned(Sitting.by) /\ Loaded("premium") THEN Listed("premium") ELSE 0
BeforeTip     == Priced(sheet.main) + SumOf(sheet.extras) + SumOf(sheet.goods) + BarberPremium

\* A feature counts as on until the settings say otherwise.
FeatureShown(f) == Loaded("features") => f \in Listed("features")

\* A code takes off a percentage, or a sum up to the whole.
Off(code, amount) ==
  CASE code.type = "percent"                        -> (amount * code.value) \div 100
    [] code.type = "flat" /\ code.value >= amount   -> amount
    [] OTHER                                        -> code.value

\* The preview asks whether a code is active and not whether it has expired.
DiscountShown ==
  IF /\ sheet.code # NoCode /\ FeatureShown("discounts")
     /\ Loaded("codes") /\ Listed("codes")[sheet.code] # Gone /\ Listed("codes")[sheet.code].state # "inactive"
  THEN Off(Listed("codes")[sheet.code], BeforeTip) ELSE 0

TotalDue == BeforeTip - DiscountShown + sheet.tip

-----------------------------------------------------------------------------
(* What the desk does at it. *)

\* A query answers, or fetches again what has changed.  Once the key has sold nothing is priced
\* any more, and neither this nor a change of the tables matters.
Load ==
  /\ window \in {"open", "sending"} /\ booked = NoSale
  /\ \E q \in Queries : answered[q] # <<tariff[q]>> /\ answered' = [answered EXCEPT ![q] = <<tariff[q]>>]
  /\ UNCHANGED <<tariff, doing, sheet, window, edits, sends, underway, booked, unheard>>

Edited(new) ==
  /\ window = "open" /\ edits + sends < MaxTouches
  /\ edits' = edits + 1 /\ sheet' = new
  /\ UNCHANGED <<tariff, doing, answered, window, sends, underway, booked, unheard>>

PickMain ==
  \E s \in Menu \ {sheet.main} :
    Loaded("services") /\ Listed("services")[s] # Gone /\ Edited([sheet EXCEPT !.main = s])

\* A service or a product is added with the price the list shows of it.
AddLine ==
  \/ \E s \in Menu \ (DOMAIN sheet.extras \cup {sheet.main}) :
       /\ Loaded("services") /\ Listed("services")[s] # Gone
       /\ Edited([sheet EXCEPT !.extras = [x \in DOMAIN sheet.extras \cup {s} |->
                                            IF x = s THEN Listed("services")[s] ELSE sheet.extras[x]]])
  \/ \E g \in Goods \ DOMAIN sheet.goods :
       /\ FeatureShown("retail") /\ Loaded("goods") /\ Listed("goods")[g] # Gone
       /\ Edited([sheet EXCEPT !.goods = [x \in DOMAIN sheet.goods \cup {g} |->
                                           IF x = g THEN Listed("goods")[g] ELSE sheet.goods[x]]])

RemoveLine ==
  \/ \E s \in DOMAIN sheet.extras : Edited([sheet EXCEPT !.extras = Restrict(@, DOMAIN sheet.extras \ {s})])
  \/ \E g \in DOMAIN sheet.goods  : Edited([sheet EXCEPT !.goods = Restrict(@, DOMAIN sheet.goods \ {g})])

Adjust ==
  \/ \E t \in {0, 2} \ {sheet.tip} : Edited([sheet EXCEPT !.tip = t])
  \/ FeatureShown("discounts") /\ \E c \in Codes \ {sheet.code} : Edited([sheet EXCEPT !.code = c])

\* checkout.mutate.  What the panel knew and showed goes along for the properties.
Submit ==
  /\ window = "open" /\ edits + sends < MaxTouches
  /\ window' = "sending" /\ sends' = sends + 1
  /\ underway' = underway \cup
       {[nth |-> sends + 1, main |-> sheet.main, mainPrice |-> Priced(sheet.main),
         services |-> Priced(sheet.main) + SumOf(sheet.extras), goods |-> sheet.goods,
         premium |-> BarberPremium, taxable |-> Loaded("taxes") /\ Listed("taxes"), tip |-> sheet.tip,
         code |-> IF FeatureShown("discounts") THEN sheet.code ELSE NoCode,
         shown |-> TotalDue, sheet |-> sheet, knew |-> answered]}
  /\ UNCHANGED <<tariff, doing, answered, sheet, edits, booked, unheard>>

Leave ==
  /\ window = "open" /\ window' = "left"
  /\ UNCHANGED <<tariff, doing, answered, sheet, edits, sends, underway, booked, unheard>>

-----------------------------------------------------------------------------
(* What the server makes of a request. *)

RefusesSale(q) ==
  \/ doing = Gone
  \/ q.main # Sitting.main /\ tariff["services"][q.main] = Gone
  \/ \E g \in DOMAIN q.goods : tariff["goods"][g] = Gone \/ "retail" \notin tariff["features"]
  \/ /\ q.code # NoCode
     /\ \/ "discounts" \notin tariff["features"] \/ tariff["codes"][q.code] = Gone
        \/ tariff["codes"][q.code].state # "active"

PremiumDue_Twice(q) == (IF Earned(doing) THEN tariff["premium"] ELSE 0) + q.premium

\* The premium is the server's; a line of that name which the panel sent is dropped.
PremiumDue(q) == IF Earned(doing) THEN tariff["premium"] ELSE 0

RawSubtotal(q) ==
  q.services + SumOf([g \in DOMAIN q.goods |-> tariff["goods"][g]]) + PremiumDue(q)

\* due: the total before tax.  taxed: what tax is laid on before the discount, the products aside,
\* which are always taxed.
SaleOf(q) ==
  [due     |-> RawSubtotal(q) - (IF q.code = NoCode THEN 0 ELSE Off(tariff["codes"][q.code], RawSubtotal(q)))
               + q.tip,
   taxed   |-> IF q.taxable THEN q.services + PremiumDue(q) ELSE 0,
   request |-> q, by |-> doing, under |-> tariff]

Answers(q, sale) ==
  /\ booked' = sale
  /\ doing' = IF sale = NoSale THEN doing ELSE Gone
  /\ underway' = underway \ {q}
  /\ \/ /\ window = "sending" /\ q.nth = sends
        /\ window' = IF sale = NoSale THEN "open" ELSE "done"
        /\ UNCHANGED unheard
     \/ /\ window' = IF window = "sending" /\ q.nth = sends THEN "open" ELSE window
        /\ unheard' = TRUE
  /\ UNCHANGED <<tariff, answered, sheet, edits, sends>>

\* A key that has sold is answered with its sale, whatever is asked under it now.
Serve ==
  \E q \in underway :
    \/ booked # NoSale /\ Answers(q, booked)
    \/ booked = NoSale /\ RefusesSale(q) /\ Answers(q, NoSale)
    \/ booked = NoSale /\ ~RefusesSale(q) /\ Answers(q, SaleOf(q))

\* The connection breaks under a request that may arrive all the same.
Break ==
  /\ window = "sending" /\ window' = "open" /\ unheard' = TRUE
  /\ \E lost \in SUBSET {q \in underway : q.nth = sends} : underway' = underway \ lost
  /\ UNCHANGED <<tariff, doing, answered, sheet, edits, sends, booked>>

-----------------------------------------------------------------------------
(* What others do meanwhile. *)

Revise ==
  /\ tariff = Tariff /\ booked = NoSale /\ tariff' \in Revisions
  /\ UNCHANGED <<doing, answered, sheet, window, edits, sends, underway, booked, unheard>>

HandOver ==
  /\ doing = Sitting.by /\ doing' \in {Deputy, Gone}
  /\ UNCHANGED <<tariff, answered, sheet, window, edits, sends, underway, booked, unheard>>

CheckoutPanelNext ==
  \/ Load \/ PickMain \/ AddLine \/ RemoveLine \/ Adjust \/ Submit \/ Leave
  \/ Serve \/ Break \/ Revise \/ HandOver

CheckoutPanelSpec == CheckoutPanelInit /\ [][CheckoutPanelNext]_panelVars

-----------------------------------------------------------------------------
CheckoutPanelTypeOK ==
  /\ DOMAIN tariff = Queries /\ DOMAIN answered = Queries
  /\ sheet.main \in Menu /\ DOMAIN sheet.extras \subseteq Menu /\ DOMAIN sheet.goods \subseteq Goods
  /\ sheet.code \in Codes \cup {NoCode}
  /\ window \in {"open", "sending", "done", "left"}
  /\ \A q \in underway : q.nth \in 1..sends
  /\ booked # NoSale => booked.due >= 0 /\ doing = Gone

\* The sale is what the panel showed, before tax, unless a product's price, the code, the premium
\* or the barber changed behind it: nothing is counted twice and nothing is forgotten.
SoldAsShown ==
  booked # NoSale =>
    LET q == booked.request
        Fresh(t) == q.knew[t] = <<booked.under[t]>>
    IN  /\ \A g \in DOMAIN q.goods : q.goods[g] = booked.under["goods"][g]
        /\ Earned(Sitting.by) => Fresh("premium")
        /\ Earned(Sitting.by) <=> Earned(booked.by)
        /\ q.code # NoCode => Fresh("codes")
        => booked.due = q.shown

\* A visit is given away that has a price, or its services go untaxed where the shop taxes them, only
\* when a table was missing on the panel or changed.
NothingGivenAway ==
  booked # NoSale =>
    LET q == booked.request
        premium == IF Earned(booked.by) THEN booked.under["premium"] ELSE 0
    IN  /\ q.mainPrice = 0 => q.knew["services"] = <<>> \/ q.knew["services"][1][q.main] \in {Gone, 0}
        /\ booked.under["taxes"] /\ booked.taxed # q.services + premium => q.knew["taxes"] # <<TRUE>>

\* A panel that closes on a success closes on the sale of what it shows, and one that is left
\* leaves no sale behind, unless an answer was lost on the way.
ClosesOnItsSale ==
  ~unheard => /\ window = "done" => booked # NoSale /\ booked.request.sheet = sheet
              /\ window = "left" => booked = NoSale

CheckoutTells == SoldAsShown /\ NothingGivenAway /\ ClosesOnItsSale
=============================================================================
