----------------------------- MODULE Dashboard -----------------------------
(***************************************************************************)
(* The dashboards of dashboard.service.ts.  A look at a shop is a series   *)
(* of statements that each see what has committed by then (READ            *)
(* COMMITTED); an owner looks into every shop of the organization, each in *)
(* a transaction of its own, and adds up what they say.                    *)
(***************************************************************************)
EXTENDS Integers, Sequences, FiniteSets, FiniteSetsExt, SequencesExt

CONSTANTS
  Branchs,     \* the organization's shops
  DaySales,    \* sales of today
  Bill,        \* where, in whose name and for what each was
  Posts,       \* assignments of people to shops
  PostOf,      \* whose and where each assignment is
  NoPost,      \* a sale in nobody's name
  Terms,       \* what an assignment may say of role, classification, employment and pay
  FirstTerms,
  ShiftMinutes, \* minutes each assignment is scheduled for today
  MaxTermChanges \* a bound on the model

Mixed == "mixed"
TermFields == {"role", "classification", "employmentStatus"}

\* A discount is no more than what it is taken off (a percentage is at most 100, settings.service.ts;
\* a flat one is capped, payments.service.ts), and who looks at a shop works there.
ASSUME DashboardConstants ==
  /\ IsFiniteSet(Branchs) /\ IsFiniteSet(Posts)
  /\ \A p \in Posts : PostOf[p].shop \in Branchs
  /\ \A b \in Branchs : \E p \in Posts : PostOf[p].shop = b
  /\ NoPost \notin Posts /\ FirstTerms \in [Posts -> Terms] /\ ShiftMinutes \in [Posts -> Nat]
  /\ \A s \in DaySales : /\ Bill[s].shop \in Branchs /\ Bill[s].post \in Posts \cup {NoPost}
                         /\ {Bill[s].services, Bill[s].retail, Bill[s].discount} \subseteq Nat
                         /\ Bill[s].discount <= Bill[s].services + Bill[s].retail
                         /\ Bill[s].post # NoPost => PostOf[Bill[s].post].shop = Bill[s].shop
  /\ \A t \in Terms : Mixed \notin {t[f] : f \in TermFields}

VARIABLES
  takings,  \* the sales that have committed
  terms,    \* location_staff and the open row of staff_compensation_history
  looker,   \* who looks: an owner at every shop, or a role at one
  lookAt,   \* the shops looked into
  seen,     \* what each statement so far saw of each shop
  moved     \* the assignments that have changed since the look began

dashboardVars == <<takings, terms, looker, lookAt, seen, moved>>

Lookers == {"org_owner", "location_manager", "front_desk", "staff"}
canViewClassification(as) == as \in {"org_owner", "location_manager"}

Statements(owner) ==
  IF owner THEN <<"transactions", "staff", "services", "retail", "compensation">>
  ELSE <<"transactions", "services", "retail", "staff", "staffSales">>

Owner == Cardinality(lookAt) > 1
Finished == lookAt # {} /\ \A b \in lookAt : Len(seen[b]) = Len(Statements(Owner))

\* What the statement of that name saw.
Seen(b, statement) == seen[b][CHOOSE k \in DOMAIN seen[b] : Statements(Owner)[k] = statement]

-----------------------------------------------------------------------------
(* The figures of one shop. *)

Subtotal(s) == Bill[s].services + Bill[s].retail - Bill[s].discount

Figures(b) ==
  LET txns == Seen(b, "transactions").sales IN
  [revenue        |-> SumFunction([s \in txns |-> Subtotal(s)]),
   discount       |-> SumFunction([s \in txns |-> Bill[s].discount]),
   clientsServed  |-> Cardinality(txns),
   serviceRevenue |-> SumFunction([s \in Seen(b, "services").sales |-> Bill[s].services]),
   retailRevenue  |-> SumFunction([s \in Seen(b, "retail").sales |-> Bill[s].retail])]

\* The owner's totals.
Totals == [f \in {"revenue", "discount", "clientsServed", "serviceRevenue", "retailRevenue"} |->
             SumFunction([b \in lookAt |-> Figures(b)[f]])]

\* staffToday: each person's sales are read in statements of their own, the last ones.
StaffToday(b) ==
  LET txns == Seen(b, "staffSales").sales IN
  [p \in {p \in Posts : PostOf[p].shop = b} |->
     [clients |-> Cardinality({s \in txns : Bill[s].post = p}),
      revenue |-> SumFunction([s \in {s \in txns : Bill[s].post = p} |-> Subtotal(s)]),
      classification |-> IF canViewClassification(looker)
                         THEN {Seen(b, "staff").terms[p].classification} ELSE {},
      scheduledMinutes |-> ShiftMinutes[p]]]

\* Half an hour a client, of the minutes of those who have a shift.
Utilization(b) ==
  LET rows == StaffToday(b)
      scheduled == SumFunction([p \in DOMAIN rows |-> rows[p].scheduledMinutes])
      served == 30 * SumFunction([p \in DOMAIN rows |-> rows[p].clients])
  IN  IF scheduled = 0 THEN 0 ELSE Min({100, (100 * served) \div scheduled})

\* What a role that does not manage gets to see of the money.
ManagerFigures(b) == IF canViewClassification(looker) THEN {Figures(b)} ELSE {}

-----------------------------------------------------------------------------
(* The owner's team: a field of a person is told only if all assignments agree. *)

PeopleSeen == {PostOf[p].person : p \in {p \in Posts : PostOf[p].shop \in lookAt}}
AssignmentsOf(who) == {p \in Posts : PostOf[p].person = who /\ PostOf[p].shop \in lookAt}

PersonField_First(who, field) ==
  LET p == CHOOSE p \in AssignmentsOf(who) : TRUE IN Seen(PostOf[p].shop, "staff").terms[p][field]

SaidOf(who, field) == {Seen(PostOf[p].shop, "staff").terms[p][field] : p \in AssignmentsOf(who)}

PersonField(who, field) ==
  IF Cardinality(SaidOf(who, field)) = 1 THEN CHOOSE v \in SaidOf(who, field) : TRUE ELSE Mixed

\* Shops with somebody whose pay is not set up.
PayIncomplete ==
  {b \in lookAt : \E p \in Posts : /\ PostOf[p].shop = b
                                   /\ Seen(b, "compensation").terms[p].pay = "not_configured"}

-----------------------------------------------------------------------------
DashboardInit ==
  /\ takings = {} /\ terms = FirstTerms
  /\ looker \in Lookers /\ lookAt = {}
  /\ seen = [b \in Branchs |-> <<>>] /\ moved = {}

SellToday(s) ==
  /\ s \notin takings
  /\ takings' = takings \cup {s}
  /\ UNCHANGED <<terms, looker, lookAt, seen, moved>>

ChangeTerms(p, t) ==
  /\ terms[p] # t /\ Cardinality(moved) < MaxTermChanges
  /\ terms' = [terms EXCEPT ![p] = t]
  /\ moved' = moved \cup {p}
  /\ UNCHANGED <<takings, looker, lookAt, seen>>

\* locationDashboard, for anybody of the shop, and orgDashboard, for owners (requireOwner).
StartLook ==
  /\ lookAt = {}
  /\ \/ \E b \in Branchs : lookAt' = {b}
     \/ looker = "org_owner" /\ lookAt' = Branchs
  /\ moved' = {}
  /\ UNCHANGED <<takings, terms, looker, seen>>

\* The shops of an owner's look are read beside one another (Promise.all).
ReadNext(b) ==
  /\ b \in lookAt /\ Len(seen[b]) < Len(Statements(Owner))
  /\ seen' = [seen EXCEPT ![b] =
       Append(@, [sales |-> {s \in takings : Bill[s].shop = b},
                  terms |-> [p \in {p \in Posts : PostOf[p].shop = b} |-> terms[p]]])]
  /\ UNCHANGED <<takings, terms, looker, lookAt, moved>>

DashboardNext ==
  \/ \E s \in DaySales : SellToday(s)
  \/ \E p \in Posts, t \in Terms : ChangeTerms(p, t)
  \/ StartLook
  \/ \E b \in Branchs : ReadNext(b)

DashboardSpec == DashboardInit /\ [][DashboardNext]_dashboardVars

DashboardTypeOK ==
  /\ takings \subseteq DaySales /\ terms \in [Posts -> Terms]
  /\ looker \in Lookers /\ lookAt \subseteq Branchs /\ moved \subseteq Posts
  /\ \A b \in Branchs : \A k \in DOMAIN seen[b] : seen[b][k].sales \subseteq takings

-----------------------------------------------------------------------------
\* "serviceRevenue + retailRevenue looks like it should equal revenue": it does up to the discounts
\* and to what the sales that committed between the statements add, in one shop and in the totals.
MoneyIsExplained ==
  Finished =>
    LET late(b, statement) == Seen(b, statement).sales \ Seen(b, "transactions").sales
        gap == SumFunction([b \in lookAt |-> SumFunction([s \in late(b, "services") |-> Bill[s].services])
                                      + SumFunction([s \in late(b, "retail") |-> Bill[s].retail])])
    IN  Totals.serviceRevenue + Totals.retailRevenue = Totals.revenue + Totals.discount + gap

\* The rows of the staff tell of the shop's revenue, of what nobody's name is on, and of sales later
\* than that; the chairs are never used more than they are there.
StaffAddUp ==
  (Finished /\ ~Owner) => \A b \in lookAt :
    LET rows == StaffToday(b)
        named == {s \in Seen(b, "transactions").sales : Bill[s].post # NoPost}
    IN  /\ SumFunction([p \in DOMAIN rows |-> rows[p].revenue]) >= SumFunction([s \in named |-> Subtotal(s)])
        /\ Utilization(b) \in 0 .. 100
        /\ ManagerFigures(b) # {} <=> \A p \in DOMAIN rows : rows[p].classification # {}

\* "A person-level value is now only reported when every assignment agrees": of somebody whose
\* assignments stood still during the look, it is what all of them still say, and mixed if they differ.
PeopleAreToldWhole ==
  (Finished /\ Owner) =>
    /\ \A who \in PeopleSeen, f \in TermFields :
         AssignmentsOf(who) \cap moved = {} =>
           LET say  == {terms[p][f] : p \in AssignmentsOf(who)}
               told == PersonField(who, f)
           IN  IF told = Mixed THEN Cardinality(say) > 1 ELSE say = {told}
    /\ \A p \in Posts \ moved :
         terms[p].pay = "not_configured" => PostOf[p].shop \in PayIncomplete

\* The dashboards' promise: money, staff and people.
DashboardTells == MoneyIsExplained /\ StaffAddUp /\ PeopleAreToldWhole
=============================================================================
