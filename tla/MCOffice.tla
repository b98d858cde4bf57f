------------------------------ MODULE MCOffice ------------------------------
(***************************************************************************)
(* Values for Office: who asks for what, and who uses which tablet.        *)
(***************************************************************************)
EXTENDS Office, MCJoinPage

CONSTANTS
  r1, r2, r3, card, cash,          \* refunds and sales
  t1, t2, t3, v1, v2,              \* tablets and visits
  c1, c2, c3, a1, a2, a3, cut, wash, \* callers, appointments and services
  b1, b2,                          \* barbers
  i1, i2, i3, p1, p2, n1, n2, n3,  \* intakes, clients and numbers
  g1, g2, g3                       \* walk-in rows

-----------------------------------------------------------------------------
\* Two refunds of one sale, one of them perhaps sent again with its key, and a third.
MCAsks ==
  {[r \in Refunds |-> CASE r = r1 -> [key |-> 1, sale |-> s, amount |-> 2]
                        [] r = r2 -> [key |-> k, sale |-> s, amount |-> 2]
                        [] OTHER  -> [key |-> 2, sale |-> s, amount |-> 1]] : s \in Sales, k \in {1, 3}}
MCTotal == [s \in Sales |-> 3]

-----------------------------------------------------------------------------
MCJob(kind, v, b) == [kind |-> kind, visit |-> v, barber |-> b]

\* A start beside each other request for its visit, beside a second visit; and the beginning,
\* the end and a second start of one visit.
MCJobs ==
  {[t \in Tablets |-> CASE t = t1 -> MCJob("start", v1, b1)
                        [] t = t2 -> MCJob(k, v1, b2)
                        [] OTHER  -> MCJob(l, v2, b1)] : k \in FloorKinds, l \in {"start", "reassign"}}
  \cup
  {[t \in Tablets |-> CASE t = t1 -> MCJob("start", v1, b1)
                        [] t = t2 -> MCJob(k, v1, b1)
                        [] OTHER  -> MCJob(l, v1, b2)]
     : k \in {"return", "reassign", "start"}, l \in {"complete", "cancel"}}

-----------------------------------------------------------------------------
MCCall(kind, a, b, t, S) == [kind |-> kind, appt |-> a, barber |-> b, start |-> t, services |-> S]

\* Two bookings that may overlap beside a move; three requests about one appointment; and a
\* booking across midnight.
MCCalls ==
  {[r \in Callers |-> CASE r = c1 -> MCCall(k, a1, b1, 1, {cut, wash})
                        [] r = c2 -> MCCall(l, a2, AnyBarber, 2, {cut})
                        [] OTHER  -> MCCall("move", a3, b1, 2, {cut})]
     : k \in {"book", "create", "rebook"}, l \in {"book", "rebook"}}
  \cup
  {[r \in Callers |-> CASE r = c1 -> MCCall(k, a3, b1, 0, {})
                        [] r = c2 -> MCCall(l, a3, b1, 3, {cut})
                        [] OTHER  -> MCCall(m, a3, b1, 0, {})]
     : k \in {"surface", "arrive", "noShow"}, l \in {"cancel", "arrive", "move"},
       m \in {"clientCancel", "surface"}}
  \cup
  {[r \in Callers |-> CASE r = c1 -> MCCall("create", a1, b1, 3, {cut, wash})
                        [] r = c2 -> MCCall("create", a2, b1, 4, {cut})
                        [] OTHER  -> MCCall("move", a3, b1, 4, {cut})]}

MCCalendars ==
  {[a \in Appointments |->
      [status |-> IF a = a3 THEN Booked ELSE "none", barber |-> b2, start |-> 1, end |-> 2,
       services |-> {cut}, length |-> 1]]}

MCRecurring    == [b \in Barbers |-> IF b = b1 THEN [from |-> 1, to |-> 4] ELSE [from |-> 0, to |-> 3]]
MCExceptions   == (<<b2, 0>> :> [from |-> 2, to |-> 4])
MCSpecialHours == (0 :> [from |-> 0, to |-> 3])

-----------------------------------------------------------------------------
MCWish(kind, c, name, n) == [kind |-> kind, client |-> c, name |-> name, number |-> n]

\* Two profiles for one household beside a third or an edit; and edits of one client at a time.
MCWishes ==
  {[r \in Intakes |-> CASE r = i1 -> MCWish(k, p1, ann, n)
                        [] r = i2 -> MCWish(l, p1, ann, n)
                        [] OTHER  -> w]
     : k \in {"intake", "another"}, l \in {"intake", "another"}, n \in {n2, n3},
       w \in {MCWish("another", p1, bob, n3), MCWish("edit", p2, Unasked, n3), MCWish("edit", p2, ann, Unasked)}}
  \cup
  {[r \in Intakes |-> CASE r = i1 -> MCWish("edit", p1, Unasked, n)
                        [] r = i2 -> MCWish("edit", p1, bob, m)
                        [] OTHER  -> MCWish("edit", p2, Unasked, o)]
     : n \in {n2, n3}, m \in {Unasked, NoNumber, n3}, o \in {n1, Unasked}}

MCDirectory ==
  [c \in Regulars |-> IF c = p1 THEN [name |-> ann, number |-> n1] ELSE [name |-> bob, number |-> n2]]

-----------------------------------------------------------------------------
MCSeat(status, barber, kit, present, place) ==
  [status |-> status, barber |-> barber, kit |-> kit, present |-> present, ready |-> "auto",
   place |-> place, first |-> place, turn |-> 0]

\* Two walk-ins that wait and one still to come; and one in service and one waiting for her.
MCWaiting ==
  [seat |-> [g \in Guests |-> CASE g = g1 -> MCSeat("waiting", Nobody, <<cut, wash>>, TRUE, 0)
                                [] g = g2 -> MCSeat("waiting", Nobody, <<cut>>, FALSE, 1)
                                [] OTHER  -> MCSeat("none", Nobody, <<cut>>, TRUE, 0)], busy |-> {}]
MCServing ==
  [seat |-> [g \in Guests |-> CASE g = g1 -> MCSeat("in_service", b1, <<cut, wash>>, TRUE, 0)
                                [] g = g2 -> MCSeat("waiting", b1, <<cut>>, TRUE, 1)
                                [] OTHER  -> MCSeat("none", Nobody, <<cut>>, TRUE, 0)], busy |-> {b1}]

MCShift(b, c, d) == [board |-> b, chores |-> [t \in Tabs |-> IF t = t1 THEN c ELSE d]]

\* What two tablets do at once.
MCShifts ==
  {MCShift(MCWaiting, <<"start">>, <<"service">>), MCShift(MCWaiting, <<"drag", "drag">>, <<>>),
   MCShift(MCWaiting, <<"drag">>, <<"checkIn">>),  MCShift(MCWaiting, <<"noShow">>, <<"ready">>),
   MCShift(MCWaiting, <<"arrive">>, <<"abandon">>), MCShift(MCServing, <<"checkout">>, <<"unready">>),
   MCShift(MCServing, <<"reassign">>, <<"top">>),   MCShift(MCServing, <<"cancel">>, <<"original">>)}

MCKits     == {<<cut>>, <<cut, wash>>}
MCFavoured == [g \in Guests |-> IF g = g1 THEN b1 ELSE Nobody]
=============================================================================
