---------------------------- MODULE MCManagement ----------------------------
(***************************************************************************)
(* Values for Management: who saves, asks, works and looks, and what.      *)
(***************************************************************************)
EXTENDS Management, TLC

CONSTANTS
  s1, s2, s3, payRow, week, mon, tue, dflt, date, ch1, ch2, \* saves and what they save
  cut, wash, dye, shave,                 \* services
  e1, e2, e3, k1, k2, h1, h2, h3,        \* edits, columns and hands
  q1, q2, q3, d1, d2, x1, x2,            \* requests, connections and shops
  m1, m2, m3, m4, u1, u2, u3,            \* assignments and people
  b1, b2, o1, o2, t1, t2,                \* barbers, sales of a week and of a day
  wax, ten                               \* a product and a discount code

-----------------------------------------------------------------------------
MCOrder(k, C, L, a, q, ok) ==
  [kind |-> k, covers |-> C, lays |-> L, article |-> a, change |-> q, sound |-> ok]
Pay(ok)         == MCOrder("pay", {payRow}, {payRow}, NoArticle, NoChange, ok)
Publish         == MCOrder("publish", {week}, {week}, NoArticle, NoChange, TRUE)
Week(L)         == MCOrder("week", {mon, tue}, L, NoArticle, NoChange, TRUE)
Recur(L, q, ok) == MCOrder("recurring", {mon}, L, NoArticle, q, ok)
OneTime(q)      == MCOrder("oneTime", {}, {date}, NoArticle, q, TRUE)
Deny(q)         == MCOrder("deny", {}, {}, NoArticle, q, TRUE)
Default(a)      == MCOrder("default", {dflt}, {dflt}, a, NoChange, TRUE)
RemoveIt(a)      == MCOrder("removeService", {}, {}, a, NoChange, TRUE)

Three(a, b, c) == [s \in Savers |-> CASE s = s1 -> a [] s = s2 -> b [] OTHER -> c]

\* What may meet: rates and weeks, forms of one week, decisions, and defaults.
MCOrders ==
  {Three(Pay(TRUE), Pay(TRUE), Pay(ok)) : ok \in BOOLEAN} \cup
  {Three(Publish, Publish, Pay(TRUE)),
   Three(Week({mon}), Week({tue}), Recur({mon}, ch1, TRUE)),
   Three(Week({mon, tue}), Week({}), Week({tue})),
   Three(Recur({}, ch1, TRUE), Deny(ch1), Recur({mon}, ch2, FALSE)),
   Three(OneTime(ch1), Deny(ch1), OneTime(ch2)),
   Three(Default(wash), Default(dye), RemoveIt(wash)),
   Three(Default(wash), RemoveIt(cut), RemoveIt(wash)),
   Three(Default(cut), Default(wash), RemoveIt(dye))}

MCStanding ==
  {[slot |-> k, by |-> First, article |-> NoArticle] : k \in {payRow, week, mon}}
    \cup {[slot |-> dflt, by |-> First, article |-> cut]}

-----------------------------------------------------------------------------
MCEdit(kind, shop, asks) == [kind |-> kind, shop |-> shop, asks |-> asks]

\* Two saves of a shop beside a push to all; and two pushes of one column beside a save.
MCEdits ==
  {[e \in Editors |-> CASE e = e1 -> MCEdit("save", x1, k1 :> 1)
                        [] e = e2 -> MCEdit(l, x1, c :> 2)
                        [] OTHER  -> MCEdit("all", x2, k2 :> 1)]
     : l \in {"save", "strictSave", "patch"}, c \in {k1, k2}}
  \cup
  {[e \in Editors |-> CASE e = e1 -> MCEdit("all", x1, k1 :> 1)
                        [] e = e2 -> MCEdit("all", x1, k1 :> 2)
                        [] OTHER  -> MCEdit(l, x2, k2 :> 2)] : l \in {"save", "strictSave", "future"}}

MCFactory == [c \in Columns |-> 0]
MCStarts  == {[s \in Shops |-> MCFactory], [s \in Shops |-> IF s = x1 THEN MCFactory ELSE NoRow]}

MCDuty(k, e, i) == [kind |-> k, enabled |-> e, interval |-> i]
MCDuties ==
  {[h \in Hands |-> CASE h = h1 -> MCDuty("set", e, i)
                      [] h = h2 -> MCDuty("complete", "unasked", 0)
                      [] OTHER  -> d]
     : e \in {"on", "off", "unasked"}, i \in {0, 3},
       d \in {MCDuty("snooze", "unasked", 0), MCDuty("push", "on", 0), MCDuty("push", "unasked", 3)}}

-----------------------------------------------------------------------------
MCPerson(as, home, wants, nests) == [role |-> as, home |-> home, wants |-> wants, nests |-> nests]
MCOwner(wants, nests) == MCPerson("owner", x1, wants, nests)
MCTrio(a, b, c) == [v \in Requests |-> CASE v = q1 -> a [] v = q2 -> b [] OTHER -> c]

\* An owner who looks into a shop beside another owner, beside staff and beside a visitor.
MCBatches ==
  {MCTrio(MCOwner(x2, {x1}), MCOwner(x1, {x1, x2}), MCPerson("visitor", NoPlace, NoPlace, {})),
   MCTrio(MCOwner(x2, {x1}), MCPerson("staff", x1, x1, {}), MCPerson("staff", x1, x2, {})),
   MCTrio(MCOwner(x2, {}), MCPerson("staff", x1, x1, {}), MCPerson("visitor", NoPlace, x2, {}))}

MCPersonOf  == m1 :> u1 @@ m2 :> u2 @@ m3 :> u3 @@ m4 :> u3
MCBranchOf  == m1 :> x1 @@ m2 :> x1 @@ m3 :> x1 @@ m4 :> x2
MCFirstRole == m1 :> "org_owner" @@ m2 :> "location_manager" @@ m3 :> "staff" @@ m4 :> "staff"

-----------------------------------------------------------------------------
MCRoster  == <<b1, b2>>
MCCatalog == cut :> 2 @@ shave :> 3

MCParty(work, at, asked, fond) ==
  [work |-> work, present |-> TRUE, ready |-> TRUE, late |-> FALSE, at |-> at, asked |-> asked,
   visits |-> [b \in Barber |-> IF b = fond THEN 2 ELSE 0]]

\* An appointment among walk-ins, due soon or late, in lines of three and four.
MCLines ==
  {<<MCParty(cut, Never, x, b2), MCParty(shave, 1, NoBarber, b1), MCParty(cut, 3, y, NoBarber)>>
     : x, y \in {NoBarber, b1}}
  \cup
  {<<MCParty(shave, 3, b1, b1), [MCParty(cut, Never, NoBarber, b2) EXCEPT !.late = l],
     MCParty(shave, Never, b2, b2), MCParty(cut, 1, NoBarber, b1)>> : l \in BOOLEAN}

MCChair(clk, since) == [clock |-> clk, since |-> since, work |-> cut]
MCFloors ==
  {b1 :> MCChair("available", Never) @@ b2 :> MCChair("busy", -1),
   b1 :> MCChair("off", Never) @@ b2 :> MCChair("available", Never),
   b1 :> MCChair("available", Never) @@ b2 :> MCChair("break", Never)}

MCReading(b, w, m) == [barber |-> b, work |-> w, minutes |-> m]
MCHistories ==
  {<<MCReading(b1, cut, 1), MCReading(b1, cut, 9), MCReading(b1, cut, 2),
     MCReading(b2, shave, 4), MCReading(b2, shave, 6)>>}

MCOpen    == 0 :> [from |-> 0, to |-> 4]
MCSpecial == 1 :> NoShift
MCShifts  == {[from |-> 0, to |-> 2], [from |-> 2, to |-> 3]}
MCReservations == <<[day |-> 0, minutes |-> 1], [day |-> 0, minutes |-> 1], [day |-> 1, minutes |-> 1]>>

-----------------------------------------------------------------------------
MCTicket ==
  o1 :> [barber |-> b1, discount |-> 5, tax |-> 0, tip |-> 4, cash |-> FALSE, code |-> "ten", client |-> "c1"]
  @@ o2 :> [barber |-> b2, discount |-> 0, tax |-> 1, tip |-> 0, cash |-> TRUE, code |-> "none", client |-> "c1"]

MCLine(sale, type, name, price) == [sale |-> sale, type |-> type, name |-> name, price |-> price]
MCItem == <<MCLine(o1, "service", "cut", 20), MCLine(o1, "service", "premium", 5),
            MCLine(o2, "service", "cut", 20), MCLine(o2, "retail", "wax", 5), MCLine(o2, "retail", "wax", 5)>>
MCItems == DOMAIN MCItem

MCPays    == {[model |-> "commission", figure |-> 60], [model |-> "booth_rent", figure |-> 700]}
MCHired   == [b \in Barbers |-> CHOOSE p \in MCPays : (p.model = "commission") = (b = b1)]
MCPeriods == {<<0, 0>>, <<1, 2>>}
MCWeekly  == [b \in Barbers |-> [d \in 0 .. 6 |-> IF d = 6 THEN 0 ELSE 8]]
MCExcepted == [b \in Barbers |-> IF b = b1 THEN (1 :> 4) ELSE <<>>]

MCBill ==
  t1 :> [shop |-> x1, post |-> m1, services |-> 20, retail |-> 10, discount |-> 5]
  @@ t2 :> [shop |-> x2, post |-> NoPost, services |-> 30, retail |-> 10, discount |-> 0]
MCPostOf == m1 :> [person |-> u1, shop |-> x1] @@ m2 :> [person |-> u1, shop |-> x2]
              @@ m3 :> [person |-> u2, shop |-> x1]
MCEmployed == [role |-> "staff", classification |-> "w2", employmentStatus |-> "active", pay |-> "commission"]
MCTerms == {MCEmployed, [role |-> "location_manager", classification |-> "1099",
                         employmentStatus |-> "active", pay |-> "not_configured"]}
MCFirstTerms   == [p \in Posts |-> MCEmployed]
MCShiftMinutes == [p \in Posts |-> IF p = m1 THEN 20 ELSE 0]

MCSitting == [main |-> cut, extras |-> wash :> 2, asked |-> b1, by |-> b1]
MCCode(type, value, state) == ten :> [type |-> type, value |-> value, state |-> state]
MCTariff ==
  [services |-> cut :> 6 @@ wash :> 2, goods |-> wax :> 4, codes |-> MCCode("flat", 12, "active"),
   premium |-> 2, taxes |-> TRUE, features |-> {"retail", "discounts"}]
MCRevisions ==
  {[MCTariff EXCEPT !.services = cut :> 4 @@ wash :> Gone], [MCTariff EXCEPT !.goods = wax :> 2],
   [MCTariff EXCEPT !.codes = MCCode("percent", 50, "active")],
   [MCTariff EXCEPT !.codes = MCCode("flat", 12, "expired")],
   [MCTariff EXCEPT !.premium = 0], [MCTariff EXCEPT !.features = {}]}
=============================================================================
