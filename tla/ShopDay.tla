------------------------------ MODULE ShopDay ------------------------------
(***************************************************************************)
(* The drawer that opens and closes the shop's day: openShop, closeShop,   *)
(* their summaries and shopStatus of payments.service.ts, and the two      *)
(* panels of the Floor page that ask for the counts.  The sales and        *)
(* refunds that move cash meanwhile ask nobody whether the shop is open.   *)
(***************************************************************************)
EXTENDS Integers, FiniteSets

CONSTANTS
  StartFloat, \* payment_processor_config.starting_cash_float
  LastDay,    \* days, a bound on the model
  LastSale,   \* cash sales of a day and cash refunds of a day, a bound on the model
  LastStamp   \* submissions of the opening and closing forms, a bound on the model

Days == 1..LastDay

ASSUME ShopDayConstants ==
  /\ StartFloat \in Nat /\ LastSale \in Nat
  /\ LastDay \in Nat \ {0} /\ LastStamp \in Nat

VARIABLES
  drawer,    \* the cash that is in the drawer
  day,       \* the shop's local date
  stamp,     \* the clock that created_at is taken from
  opening,   \* shop_openings of each day: a stamp, 0 for no row, and the float that was counted
  closings,  \* shop_closings rows
  closing,   \* the closing panel, and the form it has submitted
  takings    \* what happened to the drawer today

shopDayVars == <<drawer, day, stamp, opening, closings, closing, takings>>

\* sold: cash sales of the day; before: those among them that the last opening count already
\* had in it; back: cash given back since that count; off: what that count missed.
Takings   == [sold: Nat, before: Nat, back: Nat, off: Int]
NoTakings == [sold |-> 0, before |-> 0, back |-> 0, off |-> 0]

\* shown: what the panel said was to be expected, with sold on the books and opened the opening;
\* under: the opening the closing itself went by.
\* known: the takings when the drawer was counted, on the day on.
Closing   == [day: Days, at: Nat, counted: Int, expected: Int, on: Days, known: Takings, late: Nat,
              shown: Int, sold: Nat, opened: Nat, asked: Days, under: Nat]
NoClosing == [step |-> "none"]

ShopDayInit ==
  /\ drawer = StartFloat /\ day = 1 /\ stamp = 1
  /\ opening = [d \in Days |-> [at |-> 0, float |-> 0]]
  /\ closings = {} /\ closing = NoClosing /\ takings = NoTakings

-----------------------------------------------------------------------------
\* resolveShopState over the rows of today.
ShopState ==
  LET today == {c \in closings : c.day = day}
  IN  IF opening[day].at = 0 THEN "not_opened"
      ELSE IF \E c \in today : c.at >= opening[day].at THEN "closed" ELSE "open"

ExpectedCash == (IF opening[day].at = 0 THEN StartFloat ELSE opening[day].float) + takings.sold

\* A cash checkout commits.  Nothing asks whether the shop is open.
CashSale ==
  /\ takings.sold < LastSale
  /\ drawer' = drawer + 1
  /\ takings' = [takings EXCEPT !.sold = @ + 1]
  /\ UNCHANGED <<day, stamp, opening, closings, closing>>

\* A cash refund commits and the manager hands out the money.
CashRefund ==
  /\ takings.back < LastSale
  /\ drawer' = drawer - 1
  /\ takings' = [takings EXCEPT !.back = @ + 1]
  /\ UNCHANGED <<day, stamp, opening, closings, closing>>

\* OpenShopPanel offers the default float, and the desk leaves it or counts the drawer.  The
\* opening, or the reopening that writes over it, takes what the panel holds.
OpenShop ==
  /\ stamp < LastStamp /\ ShopState # "open" /\ closing.step \in {"none", "panel"}
  /\ stamp' = stamp + 1
  /\ \E float \in {StartFloat, drawer} \cap Nat :
       /\ opening' = [opening EXCEPT ![day] = [at |-> stamp + 1, float |-> float]]
       /\ takings' = [takings EXCEPT !.before = takings.sold, !.back = 0, !.off = drawer - float]
  /\ UNCHANGED <<drawer, day, closings, closing>>

\* CloseShopPanel is there once the summary it asked for is.
OpenClosingPanel ==
  /\ ShopState = "open" /\ closing = NoClosing
  /\ closing' = [step |-> "panel", shown |-> ExpectedCash, sold |-> takings.sold,
                 opened |-> opening[day].at, asked |-> day]
  /\ UNCHANGED <<drawer, day, stamp, opening, closings, takings>>

LeaveClosingPanel ==
  /\ closing.step = "panel"
  /\ closing' = NoClosing
  /\ UNCHANGED <<drawer, day, stamp, opening, closings, takings>>

\* The form moves on with what the next step adds to it.
Filled(step, more) ==
  [f \in DOMAIN closing \cup DOMAIN more |->
     IF f = "step" THEN step ELSE IF f \in DOMAIN more THEN more[f] ELSE closing[f]]

\* The manager counts the drawer, sees the difference and presses the button, which only asks for
\* the tasks and a count, whatever the shop's state is by then; the transaction starts.
CountDrawer ==
  /\ stamp < LastStamp /\ closing.step = "panel"
  /\ stamp' = stamp + 1
  /\ closing' = Filled("summary", [at |-> stamp + 1, counted |-> drawer, on |-> day, known |-> takings])
  /\ UNCHANGED <<drawer, day, opening, closings, takings>>

ReadSummary_LessRefunds ==
  /\ closing.step = "summary"
  /\ closing' = Filled("insert", [expected |-> ExpectedCash - takings.back, day |-> day,
                                late |-> takings.sold, under |-> opening[day].at])
  /\ UNCHANGED <<drawer, day, stamp, opening, closings, takings>>

\* closeShop computes the summary again.
ReadSummary ==
  /\ closing.step = "summary"
  /\ closing' = Filled("insert", [expected |-> ExpectedCash, day |-> day,
                                late |-> takings.sold, under |-> opening[day].at])
  /\ UNCHANGED <<drawer, day, stamp, opening, closings, takings>>

NewClosing == [f \in DOMAIN closing \ {"step"} |-> closing[f]]

\* One row per location and date: a second closing of a day fails.
InsertClosing ==
  /\ closing.step = "insert"
  /\ closings' = IF \E c \in closings : c.day = closing.day THEN closings
                 ELSE closings \cup {NewClosing}
  /\ closing' = NoClosing
  /\ UNCHANGED <<drawer, day, stamp, opening, takings>>

Midnight ==
  /\ day < LastDay
  /\ day' = day + 1
  /\ takings' = NoTakings
  /\ UNCHANGED <<drawer, stamp, opening, closings, closing>>

-----------------------------------------------------------------------------
ShopDayNext ==
  \/ CashSale \/ CashRefund \/ OpenShop \/ OpenClosingPanel \/ LeaveClosingPanel \/ CountDrawer
  \/ ReadSummary \/ InsertClosing \/ Midnight

ShopDaySpec == ShopDayInit /\ [][ShopDayNext]_shopDayVars

ShopDayTypeOK ==
  /\ drawer \in Int /\ day \in Days /\ stamp \in Nat
  /\ opening \in [Days -> [at: Nat, float: Int]]
  /\ \A c \in closings : c \in Closing
  /\ closing.step \in {"none", "panel", "summary", "insert"}
  /\ takings \in Takings

\* A closing of a day that was opened, counted on that day, is short by exactly what the expected cash leaves
\* out: the refunds since the opening, the sales a reopening counted again, what the opening left
\* uncounted, and the sales between the count and the summary.  What the panel showed to be
\* expected differs from what is written down by the sales since, of the same day and opening.
VarianceExplained ==
  \A c \in closings :
    /\ c.on = c.day /\ c.under # 0 =>
         c.counted - c.expected =
           c.known.off - c.known.back - c.known.before - (c.late - c.known.sold)
    /\ c.asked = c.day /\ c.opened = c.under => c.expected - c.shown = c.late - c.sold

=============================================================================
