------------------------------ MODULE Sessions ------------------------------
(***************************************************************************)
(* Who may do what: the session cookie with the claims of the moment of    *)
(* login, the shop an owner's request may be moved to, the guard of each   *)
(* route, and the rule for a colleague's contact details.  A change of a   *)
(* staff member's role reaches no cookie.                                  *)
(***************************************************************************)
EXTENDS Integers, FiniteSets

CONSTANTS
  Members,       \* rows of location_staff: a person at a shop
  People,        \* users
  Branches,      \* the shops of the organization
  PersonOf,      \* the user of each member
  BranchOf,      \* the shop of each member
  FirstRole,     \* the roles at first
  Movable,       \* the members whose role managers change, and
  NewRoles,      \* to what, bounds on the model
  SessionLength, \* twelve hours
  LastHour,      \* a bound on the model
  NoToken        \* nobody is logged in

Roles == {"org_owner", "location_manager", "front_desk", "staff"}

ASSUME SessionConstants ==
  /\ PersonOf \in [Members -> People] /\ BranchOf \in [Members -> Branches]
  /\ FirstRole \in [Members -> Roles]
  /\ Movable \subseteq Members /\ NewRoles \subseteq Roles
  /\ SessionLength \in Nat \ {0} /\ LastHour \in Nat

VARIABLES
  role,     \* location_staff.role
  token,    \* the cookie of each person's browser
  hour,     \* the clock
  lastHeld  \* the hour until which each member had each role, or none

sessionVars == <<role, token, hour, lastHeld>>

NoHour == -1
Claims == [member: Members, role: Roles, at: Nat]

SessionInit ==
  /\ role = FirstRole
  /\ token = [p \in People |-> NoToken]
  /\ hour = 0
  /\ lastHeld = [m \in Members |-> [r \in Roles |-> IF role[m] = r THEN 0 ELSE NoHour]]

-----------------------------------------------------------------------------
\* The routes by what they need.  settings.controller.ts: everybody reads the settings the floor
\* works with and answers the sanitation reminder; pay, roles and documents are for managers, and
\* so is every change.
SettingsRead == {"feature-settings", "store-hours", "communication-settings", "sanitation-reminders",
                 "special-hours", "services", "products", "tax-config", "queue-config"}
SettingsReadToo == {"matching-policy", "location-goals", "payment-processor-config", "staff",
                    "service-performance", "discount-codes", "scheduling-policy", "pricing-policy"}
ManagersRead == {"payroll-settings", "pay-models", "job-roles", "compliance-documents"}
AnyoneWrites == {"snooze", "complete"}

\* org-settings.controller.ts
OwnersRoutes == {"org-settings", "org-location-address"}
ManagersRoutes == {"staff-contact"}

\* The other controllers, by who may ask: whoever has a session, the front desk and up, managers
\* and owners, owners.
FloorRoutes    == [any |-> {"board", "activity", "accuracy", "check-in", "start", "end", "reassign",
                            "eligible", "service", "reorder", "present", "ready", "notes", "late",
                            "return", "undo", "clock"}]
TillRoutes     == [any |-> {"config", "shop-status", "checkout", "open-shop"},
                   managers |-> {"close-summary", "close-shop", "refund"}]
ScheduleRoutes == [any |-> {"grid", "publication", "submit"},
                   managers |-> {"requests", "publish", "approve", "deny"}]
ReportRoutes   == [any |-> {"favorites"}, managers |-> {"pay-runs", "log-run", "export", "report"}]
ClientRoutes   == [any |-> {"search", "profile", "consents", "rebook", "cancel-appointment"}]
CalendarRoutes == [any |-> {"appointments", "arrive"}, desk |-> {"create", "move", "miss", "call-off"}]
ComplaintRoutes == [desk |-> {"complaints", "complaint-status"}]
DashboardRoutes == [any |-> {"dashboard"}, desk |-> {"sales"}, owners |-> {"org-dashboard"}]

Controllers == {FloorRoutes, TillRoutes, ScheduleRoutes, ReportRoutes, ClientRoutes, CalendarRoutes,
                ComplaintRoutes, DashboardRoutes}
For(who) == UNION {c[who] : c \in {d \in Controllers : who \in DOMAIN d}}

Routes == SettingsRead \cup SettingsReadToo \cup ManagersRead \cup AnyoneWrites
            \cup OwnersRoutes \cup ManagersRoutes
            \cup UNION {For(who) : who \in {"any", "desk", "managers", "owners"}}
Uses == {"read", "write"}

Managing == {"org_owner", "location_manager"}
AtDesk   == Managing \cup {"front_desk"}

\* requireAuth, requireFrontDeskOrManager, requireManager, requireOwner
Entitled(route, use) ==
  CASE route \in OwnersRoutes \cup For("owners") -> {"org_owner"}
    [] route \in AnyoneWrites \cup For("any")    -> Roles
    [] route \in For("desk")                     -> AtDesk
    [] route \in ManagersRoutes \cup ManagersRead \cup For("managers") \/ use = "write" -> Managing
    [] OTHER -> Roles

\* verifySessionToken
Valid(p) == token[p] # NoToken /\ hour < token[p].at + SessionLength

\* The shop a request works in: that of the claims, or for an owner the one in the URL.
WorksIn(p) ==
  IF token[p].role = "org_owner" THEN Branches ELSE {BranchOf[token[p].member]}

\* A request gets past the session, the guard of its route and the check of its shop.
Granted(p, entitled, b) == Valid(p) /\ token[p].role \in entitled /\ b \in WorksIn(p)

\* Who the guards let in, guard by guard.
Guards == {Entitled(route, use) : route \in Routes, use \in Uses}

-----------------------------------------------------------------------------
LogIn(p) ==
  /\ token[p] = NoToken
  /\ \E m \in Members : /\ PersonOf[m] = p
                        /\ token' = [token EXCEPT ![p] = [member |-> m, role |-> role[m], at |-> hour]]
  /\ UNCHANGED <<role, hour, lastHeld>>

LogOut(p) ==
  /\ token[p] # NoToken
  /\ token' = [token EXCEPT ![p] = NoToken]
  /\ UNCHANGED <<role, hour, lastHeld>>

\* updateStaffJobRole, by a manager
ChangeRole(p, m, r) ==
  /\ Valid(p) /\ token[p].role \in Managing /\ BranchOf[m] \in WorksIn(p)
  /\ r # role[m]
  /\ role' = [role EXCEPT ![m] = r]
  /\ lastHeld' = [lastHeld EXCEPT ![m][r] = hour]
  /\ UNCHANGED <<token, hour>>

PassHour ==
  /\ hour < LastHour
  /\ hour' = hour + 1
  /\ lastHeld' = [m \in Members |-> [lastHeld[m] EXCEPT ![role[m]] = hour + 1]]
  /\ UNCHANGED <<role, token>>

SessionNext ==
  \/ \E p \in People : \/ LogIn(p) \/ LogOut(p)
                       \/ \E m \in Movable, r \in NewRoles : ChangeRole(p, m, r)
  \/ PassHour

SessionSpec == SessionInit /\ [][SessionNext]_sessionVars

-----------------------------------------------------------------------------
\* canSeeStaffContact: oneself; an owner everybody of the organization; a manager who works in the
\* shop he works in.
SeesContact(p, b, q, branches) ==
  \/ p = q
  \/ token[p].role = "org_owner"
  \/ token[p].role = "location_manager" /\ b \in branches

MembersAt(q, B) == {m \in Members : PersonOf[m] = q /\ BranchOf[m] \in B}

\* The roster of shop b shows p the contact details of q.
RosterShows(p, b, q) == MembersAt(q, {b}) # {} /\ SeesContact(p, b, q, {b})

Assigned_There(q, b) == {BranchOf[m] : m \in MembersAt(q, {b})}

\* Every shop the person is assigned to, one scoped transaction each.
Assigned(q, b) == {BranchOf[m] : m \in MembersAt(q, Branches)}

\* StaffContactController.update, from shop b
MayEditContact(p, b, q) ==
  /\ token[p].role \in Managing
  /\ Assigned(q, b) # {}
  /\ SeesContact(p, b, q, Assigned(q, b))

-----------------------------------------------------------------------------
SessionTypeOK ==
  /\ role \in [Members -> Roles]
  /\ token \in [People -> Claims \cup {NoToken}]
  /\ hour \in 0..LastHour
  /\ lastHeld \in [Members -> [Roles -> Nat \cup {NoHour}]]

\* Whatever a request is granted, its member was entitled to it, in that shop, at some hour of the
\* session: rights outlive a change of role by no more than the cookie.
RightsTrailByASession ==
  \A p \in People, entitled \in Guards, b \in Branches :
    Granted(p, entitled, b) =>
      \E r \in entitled :
        /\ r # "org_owner" => b = BranchOf[token[p].member]
        /\ lastHeld[token[p].member][r] # NoHour
        /\ hour < lastHeld[token[p].member][r] + SessionLength

\* A manager or owner may edit the contact details of exactly the people some roster he can open
\* shows them of, wherever he works at the time; only his own he may see without it being so.
EditsWhatItSees ==
  \A p, q \in People :
    (Valid(p) /\ token[p].role \in Managing /\ p # q) =>
      ((\E b \in WorksIn(p) : MayEditContact(p, b, q)) <=> (\E b \in WorksIn(p) : RosterShows(p, b, q)))
      /\ \A b \in WorksIn(p) : RosterShows(p, b, q) => \A c \in WorksIn(p) : MayEditContact(p, c, q)

\* What a session may do and what it is shown go by one rule.
SessionsKeepToTheirRights == RightsTrailByASession /\ EditsWhatItSees
=============================================================================
