------------------------------ MODULE Reports ------------------------------
(***************************************************************************)
(* The reports of reports.service.ts over the shop's sales, and the pay    *)
(* runs it logs from them.  A sale is stamped with the time its request    *)
(* began and can be read once that has committed; a pay run reads sales,   *)
(* refunds and rates in statements of their own (READ COMMITTED) and keeps *)
(* a snapshot that never changes.                                          *)
(***************************************************************************)
EXTENDS Shop, Integers, Sequences, FiniteSets, FiniteSetsExt, Functions

CONSTANTS
  Sales,       \* transactions
  Ticket,      \* who sold what to whom in each
  Items, Item, \* transaction_items
  Premium,     \* the name of the line "Requested barber premium"
  PremiumToStaff, \* credit_surcharge_to_staff
  Unsold,
  Pays,        \* what a compensation row may say: a model and its figure
  Hired,       \* the row each person began with
  Weekly,      \* hours each person works on the days of the week, if any
  Excepted,    \* hours on the dates that have an exception of their own
  Periods,     \* the periods a manager logs, from one day to another
  DayLength, LastClock, MaxRates, MaxRuns, \* bounds on the model
  Wests        \* how late the server's midnight is by UTC, in ticks; none in deployment

Models == {"salary", "hourly", "booth_rent", "commission"}
Line == [sale: Sales, type: {"service", "retail"}, name: STRING, price: Nat]

\* A discount takes a code, and no more than what it is taken off.
ASSUME ReportConstants ==
  /\ Unsold \notin Int
  /\ IsFiniteSet(Sales) /\ IsFiniteSet(Items) /\ IsFiniteSet(Barbers)
  /\ Item \in [Items -> Line]
  /\ \A s \in Sales : /\ Ticket[s].barber \in Barbers \cup {Nobody}
                      /\ {Ticket[s].discount, Ticket[s].tax, Ticket[s].tip} \subseteq Nat
                      /\ Ticket[s].cash \in BOOLEAN
                      /\ Ticket[s].code = "none" => Ticket[s].discount = 0
  /\ Pays \subseteq [model: Models \cup {"not_configured"}, figure: Nat]
  /\ \A b \in Barbers : /\ Hired[b] \in Pays /\ Weekly[b] \in [0 .. 6 -> Int]
                        /\ \A d \in DOMAIN Excepted[b] : Excepted[b][d] \in Int
  /\ Periods \subseteq Int \X Int
  /\ DayLength \in Nat \ {0} /\ Wests \subseteq 0 .. DayLength - 1 /\ LastClock \in Nat

VARIABLES
  west,      \* the server's time zone
  clock,
  created,   \* transactions.created_at
  sold,      \* the sales that have committed
  refunded,  \* what was paid back of each
  payRates,  \* staff_compensation_history of each person, oldest first
  run,       \* the pay run being logged, its step and what it has read
  logged     \* staff_pay_runs

reportVars == <<west, clock, created, sold, refunded, payRates, run, logged>>

-----------------------------------------------------------------------------
(* A sale and its items. *)

ItemsOf(s, type) == {i \in Items : Item[i].sale = s /\ Item[i].type = type}
Billed(s, type)  == SumFunction([i \in ItemsOf(s, type) |-> Item[i].price])
Total(s)         == Billed(s, "service") + Billed(s, "retail")
                      - Ticket[s].discount + Ticket[s].tax + Ticket[s].tip

ASSUME DiscountsFit ==
  \A s \in Sales : Ticket[s].discount <= Billed(s, "service") + Billed(s, "retail")

\* parseRange: from the server's midnight to a day past that of the last day; days are UTC's.
Start(d) == d * DayLength + west

InRange(p, s) == Start(p[1]) <= created[s] /\ created[s] < Start(p[2]) + DayLength

SalesOf(p) == {s \in sold : InRange(p, s)}
DayKey(t)  == t \div DayLength
DayKeys(p) == {DayKey(Start(p[1]) + k * DayLength) : k \in 0 .. p[2] - p[1]}
SalesOn(p, d) == {s \in SalesOf(p) : DayKey(created[s]) = d}

-----------------------------------------------------------------------------
(* The reports. *)

RevenueTrend(p) ==
  [d \in DayKeys(p) |->
     LET S == SalesOn(p, d)
         services == SumFunction([s \in S |-> Billed(s, "service")])
         products == SumFunction([s \in S |-> Billed(s, "retail")])
         discount == SumFunction([s \in S |-> Ticket[s].discount])
     IN  [services |-> services, products |-> products, total |-> SumFunction([s \in S |-> Total(s)]),
          transactions |-> Cardinality(S), revenue |-> services + products - discount]]

PaymentMix(p) ==
  [d \in DayKeys(p) |->
     [cash |-> SumFunction([s \in {s \in SalesOn(p, d) : Ticket[s].cash} |-> Total(s)]),
      card |-> SumFunction([s \in {s \in SalesOn(p, d) : ~Ticket[s].cash} |-> Total(s)])]]

\* Sales with a code, by code; the days do not matter.
DiscountUsage(p) ==
  LET used == {s \in SalesOf(p) : Ticket[s].code # "none"}
  IN  [c \in {Ticket[s].code : s \in used} |->
         LET S == {s \in used : Ticket[s].code = c}
         IN  [timesUsed |-> Cardinality(S),
              totalDiscount |-> SumFunction([s \in S |-> Ticket[s].discount])]]

\* A client is new on the day of the first sale ever, before the range or in it.
FirstSeen_InRange(p, c) == Min({created[s] : s \in {x \in SalesOf(p) : Ticket[x].client = c}})

FirstSeen(p, c) ==
  Min({created[s] : s \in {x \in sold : Ticket[x].client = c /\ created[x] < Start(p[2]) + DayLength}})

NewVsReturning(p) ==
  [d \in DayKeys(p) |->
     LET seen == {Ticket[s].client : s \in SalesOn(p, d)} \ {"none"}
         new  == {c \in seen : DayKey(FirstSeen(p, c)) = d}
     IN  [new |-> new, returning |-> seen \ new]]

\* The best 25 are shown; all of them here.
TopClients(p) ==
  LET known == {s \in SalesOf(p) : Ticket[s].client # "none"}
  IN  [c \in {Ticket[s].client : s \in known} |->
         LET S == {s \in known : Ticket[s].client = c}
         IN  [visits |-> Cardinality(S), spent |-> SumFunction([s \in S |-> Total(s)]), last |-> Max({created[s] : s \in S})]]

TopServicesAndProducts(p) ==
  LET lines  == {i \in Items : Item[i].sale \in SalesOf(p)}
      key(i) == <<Item[i].type, Item[i].name>>
  IN  [k \in {key(i) : i \in lines} |->
         LET L == {i \in lines : key(i) = k}
         IN  [unitsSold |-> Cardinality(L), revenue |-> SumFunction([i \in L |-> Item[i].price])]]

-----------------------------------------------------------------------------
(* Revenue by staff, the pay review. *)

\* A premium that stays with the shop is no revenue of the barber's.
Credited(s, type) ==
  SumFunction([i \in {i \in ItemsOf(s, type) : PremiumToStaff \/ Item[i].name # Premium} |-> Item[i].price])

\* The week's pattern, unless the date has an exception.
ScheduledHours(p, b) ==
  SumFunction([d \in DayKeys(p) |-> IF d \in DOMAIN Excepted[b] THEN Excepted[b][d] ELSE Weekly[b][d % 7]])

Overlapping_Latest(p, b) ==
  {k \in DOMAIN payRates[b] : payRates[b][k].from < Start(p[2]) + DayLength /\ payRates[b][k].to = Unsold}

\* The rates in effect at any time of the period; one that ended as it began counts.
Overlapping(p, b) ==
  {k \in DOMAIN payRates[b] : /\ payRates[b][k].from < Start(p[2]) + DayLength
                              /\ payRates[b][k].to = Unsold \/ payRates[b][k].to >= Start(p[1])}

\* What the model pays before tips, and what the chair costs.
Base(p, b, pay, netServices) ==
  CASE pay.model = "commission" -> (netServices * pay.figure) \div 100
    [] pay.model = "hourly"     -> pay.figure * ScheduledHours(p, b)
    [] pay.model = "salary"     -> (pay.figure * Cardinality(DayKeys(p))) \div 365
    [] OTHER                    -> 0

BoothRent(p, pay) == (pay.figure * Cardinality(DayKeys(p))) \div 7

\* Refunds lower services and products in proportion, to nothing at most; the newest rate of the
\* period is applied to all of it, and more than one is flagged.
StaffRow(p, b, S, back) ==
  LET mine     == {s \in S : Ticket[s].barber = b}
      services == SumFunction([s \in mine |-> Credited(s, "service")])
      products == SumFunction([s \in mine |-> Credited(s, "retail")])
      gross    == services + products
      net      == gross - Min({gross, SumFunction([s \in mine |-> back[s]])})
      tips     == SumFunction([s \in mine |-> Ticket[s].tip])
      rates    == Overlapping(p, b)
      pay      == IF rates = {} THEN [model |-> "not_configured", figure |-> 0]
                  ELSE payRates[b][Max(rates)].pay
      base     == Base(p, b, pay, IF gross = 0 THEN 0 ELSE (services * net) \div gross)
  IN  [clients |-> Cardinality(mine), gross |-> gross, netRevenue |-> net, tips |-> tips,
       collected |-> SumFunction([s \in mine |-> Total(s)]), pay |-> pay, basePay |-> base,
       estimatedPay |-> CASE pay.model = "not_configured" -> 0
                          [] pay.model = "booth_rent" -> net + tips - BoothRent(p, pay)
                          [] OTHER -> base + tips,
       changedMidPeriod |-> Cardinality(rates) > 1]

RevenueByStaff(p, S, back) == [b \in Barbers |-> StaffRow(p, b, S, back)]

\* What the shop owes its people, and those who rent a chair the shop.
PayableToStaff(rows) == SumFunction([b \in DOMAIN rows |-> Max({rows[b].estimatedPay, 0})])
DueToShop(rows)      == SumFunction([b \in DOMAIN rows |-> Max({-rows[b].estimatedPay, 0})])

-----------------------------------------------------------------------------
(* The till, and the people who set the rates. *)

Idle == [step |-> "idle"]

ReportInit ==
  /\ west \in Wests /\ clock = 0
  /\ created = [s \in Sales |-> Unsold] /\ sold = {}
  /\ refunded = [s \in Sales |-> 0]
  /\ payRates = [b \in Barbers |-> <<[pay |-> Hired[b], from |-> -1, to |-> Unsold]>>]
  /\ run = Idle /\ logged = {}

ClockTick ==
  /\ clock < LastClock
  /\ clock' = clock + 1
  /\ UNCHANGED <<west, created, sold, refunded, payRates, run, logged>>

BeginSale(s) ==
  /\ created[s] = Unsold
  /\ created' = [created EXCEPT ![s] = clock]
  /\ UNCHANGED <<west, clock, sold, refunded, payRates, run, logged>>

CommitSale(s) ==
  /\ created[s] # Unsold /\ s \notin sold
  /\ sold' = sold \cup {s}
  /\ UNCHANGED <<west, clock, created, refunded, payRates, run, logged>>

PayBack(s) ==
  /\ s \in sold /\ refunded[s] = 0
  /\ refunded' = [refunded EXCEPT ![s] = Total(s)]
  /\ UNCHANGED <<west, clock, created, sold, payRates, run, logged>>

\* MaxRates bounds the rows of everybody. One request at a time: the old row ends where the new one begins.
ChangeRate(b, pay) ==
  LET n == Len(payRates[b]) IN
  /\ SumFunction([x \in Barbers |-> Len(payRates[x])]) < MaxRates
  /\ payRates[b][n].pay # pay /\ payRates[b][n].from < clock
  /\ payRates' = [payRates EXCEPT ![b] = Append([@ EXCEPT ![n].to = clock],
                                          [pay |-> pay, from |-> clock, to |-> Unsold])]
  /\ UNCHANGED <<west, clock, created, sold, refunded, run, logged>>

-----------------------------------------------------------------------------
(* logStaffPayRun, in the three statements whose tables change.  It only adds a row, so two of them
   at once do no more than one after the other. *)

ReadSales(p) ==
  /\ run = Idle /\ Cardinality(logged) < MaxRuns
  /\ run' = [step |-> "refunds", period |-> p, sales |-> SalesOf(p)]
  /\ UNCHANGED <<west, clock, created, sold, refunded, payRates, logged>>

ReadRefunds ==
  /\ run.step = "refunds"
  /\ run' = [step |-> "rates", period |-> run.period, sales |-> run.sales,
             back |-> [s \in run.sales |-> refunded[s]]]
  /\ UNCHANGED <<west, clock, created, sold, refunded, payRates, logged>>

\* The snapshot is RevenueByStaff of what was read; of its figures, which PayIsReviewed looks at as
\* they are written, only the sales they come from are kept.
LogRun ==
  /\ run.step = "rates"
  /\ run' = Idle
  /\ logged' = logged \cup {[period |-> run.period, sales |-> run.sales]}
  /\ UNCHANGED <<west, clock, created, sold, refunded, payRates>>

ReportNext ==
  \/ ClockTick
  \/ \E s \in Sales : BeginSale(s) \/ CommitSale(s) \/ PayBack(s)
  \/ \E b \in Barbers, pay \in Pays : ChangeRate(b, pay)
  \/ \E p \in Periods : ReadSales(p)
  \/ ReadRefunds \/ LogRun

ReportSpec == ReportInit /\ [][ReportNext]_reportVars

ReportTypeOK ==
  /\ west \in Wests /\ clock \in 0 .. LastClock
  /\ created \in [Sales -> (0 .. LastClock) \cup {Unsold}] /\ sold \subseteq Sales
  /\ refunded \in [Sales -> Nat]
  /\ \A b \in Barbers : payRates[b] \in Seq([pay: Pays, from: Int, to: Int \cup {Unsold}])
  /\ run = Idle \/ (run.step \in {"refunds", "rates"} /\ run.period \in Periods /\ run.sales \subseteq sold)
  /\ \A r \in logged : r.period \in Periods /\ r.sales \subseteq sold

-----------------------------------------------------------------------------
\* On a server that keeps UTC no report loses a sale to another's way of counting days: the trend,
\* the mix, the pay review with the sales in nobody's name, and the items tell of the same money.
ReportsAgree ==
  west = 0 => \A p \in Periods :
    LET trend == RevenueTrend(p)
        mix   == PaymentMix(p)
        staff == RevenueByStaff(p, SalesOf(p), refunded)
        items == TopServicesAndProducts(p)
        total == SumFunction([d \in DOMAIN trend |-> trend[d].total])
    IN  /\ total = SumFunction([d \in DOMAIN mix |-> mix[d].cash + mix[d].card])
        /\ total = SumFunction([b \in Barbers |-> staff[b].collected])
                     + SumFunction([s \in {s \in SalesOf(p) : Ticket[s].barber = Nobody} |-> Total(s)])
        /\ SumFunction([k \in DOMAIN items |-> items[k].revenue])
             = SumFunction([d \in DOMAIN trend |-> trend[d].services + trend[d].products])
        /\ SumFunction([d \in DOMAIN trend |-> trend[d].services + trend[d].products - trend[d].revenue])
             = SumFunction([c \in DOMAIN DiscountUsage(p) |-> DiscountUsage(p)[c].totalDiscount])
        /\ \A c \in DOMAIN TopClients(p) :
             TopClients(p)[c].visits >= Cardinality({d \in DayKeys(p) :
               c \in NewVsReturning(p)[d].new \cup NewVsReturning(p)[d].returning})

\* Nobody is a new client on two days, in one report or in the reports of two periods.
NewOnlyOnce ==
  \A p, q \in Periods : \A d \in DayKeys(p), e \in DayKeys(q) :
    d # e => NewVsReturning(p)[d].new \cap NewVsReturning(q)[e].new = {}

\* The reports contradict neither each other nor themselves.  A pay run changes no table they read, so
\* what they tell of some sales is looked at before the first run.
ReportsTell == sold # {} /\ run = Idle /\ logged = {} => ReportsAgree /\ NewOnlyOnce

\* No sale is paid in the runs of two periods that share no day.
PaidInOnePeriod ==
  \A r, t \in logged : r.period[2] < t.period[1] => r.sales \cap t.sales = {}

\* The rates in effect at some tick of the period that had begun.
RatesIn(p, b, until) ==
  {k \in DOMAIN payRates[b] : \E t \in Start(p[1]) .. Min({Start(p[2]) + DayLength - 1, until}) :
      payRates[b][k].from <= t /\ (payRates[b][k].to = Unsold \/ t < payRates[b][k].to)}

\* Two rates in one period never pass into a run unflagged ("the estimate can silently over/under-pay
\* and must be reviewed"), nobody is paid on more than was kept, and what is owed either way is the sum.
PayIsReviewed ==
  run.step = "rates" =>
    LET rows == RevenueByStaff(run.period, run.sales, run.back) IN
    /\ PayableToStaff(rows) - DueToShop(rows) = SumFunction([b \in Barbers |-> rows[b].estimatedPay])
    /\ \A b \in Barbers :
         /\ Cardinality(RatesIn(run.period, b, clock)) > 1 => rows[b].changedMidPeriod
         /\ rows[b].netRevenue \in 0 .. rows[b].gross
         /\ rows[b].pay.model = "commission" /\ rows[b].pay.figure <= 100 => rows[b].basePay <= rows[b].netRevenue

\* The pay runs' promise: each sale in one of them, each rate reviewed.
PayRunsSound == PaidInOnePeriod /\ PayIsReviewed
=============================================================================
