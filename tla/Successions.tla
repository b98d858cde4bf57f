---------------------------- MODULE Successions ----------------------------
(***************************************************************************)
(* The rows that succeed each other: pay rates, published weeks, weekly    *)
(* schedules, dated exceptions and the default service.  Each handler      *)
(* takes away the current rows of its slots and lays new ones in one READ  *)
(* COMMITTED transaction; a unique index allows one current row a slot.    *)
(* schedule.service.ts and settings.service.ts; a schedule change is       *)
(* submitted first and approved or denied by a manager.                    *)
(***************************************************************************)
EXTENDS Integers, FiniteSets

CONSTANTS
  Savers,    \* the requests; each is sent once
  Slots,     \* a barber's rate, a week's publication, a barber's day, the shop's default
  Articles,  \* the services of the shop
  NoArticle, \* a row that names no service
  Changes,   \* submitted rows of schedule_change_requests
  NoChange,  \* a request that decides none
  Orders,    \* what the requests may ask, a bound on the model
  Standing   \* the rows there are at first

Kinds  == {"pay", "publish", "week", "default", "removeService", "oneTime", "recurring", "deny"}
Order  == [kind: Kinds, covers: SUBSET Slots, lays: SUBSET Slots, article: Articles \cup {NoArticle},
           change: Changes \cup {NoChange}, sound: BOOLEAN]
First  == "first"
Row    == [slot: Slots, by: Savers \cup {First}, article: Articles \cup {NoArticle}]

Touches(o) == o.covers \cup o.lays

\* Rates, publications, the default and the schedule are columns and tables of their own.
Table(o) == IF o.kind \in {"week", "oneTime", "recurring"} THEN "schedule" ELSE o.kind

ASSUME SuccessionConstants ==
  /\ Orders \subseteq [Savers -> Order] /\ Orders # {}
  /\ Standing \subseteq Row /\ First \notin Savers
  /\ \A x, y \in Standing : x.slot = y.slot => x = y
  /\ \A x \in Standing : x.by = First
  /\ NoArticle \notin Articles /\ NoChange \notin Changes

\* A week's form covers the barber's whole week, and the shop has a default service at first.
ASSUME OrdersFitTheTables ==
  \A o \in Orders : \A s, u \in Savers :
    /\ o[s].kind \in {"pay", "publish", "default"} => o[s].lays = o[s].covers
    /\ o[s].kind = "week" => o[s].lays \subseteq o[s].covers
    /\ o[s].kind \in {"default", "removeService"} <=> o[s].article \in Articles
    /\ o[s].kind \in {"oneTime", "recurring", "deny"} <=> o[s].change \in Changes
    /\ o[s].kind \in {"deny", "removeService"} => Touches(o[s]) = {}
    /\ Touches(o[s]) \cap Touches(o[u]) # {} =>
         /\ Table(o[s]) = Table(o[u])
         /\ o[s].kind = "week" /\ o[u].kind = "week" => o[s].covers = o[u].covers
    /\ o[s].kind # "default" => \A x \in Standing : x.slot \in Touches(o[s]) => x.article = NoArticle
    /\ o[s].kind = "default" => \E x \in Standing : x.slot \in o[s].covers

VARIABLES
  order,     \* what each request asks; sound: its pay model is active, its weekly change confirmed
  savePc,    \* the statement each handler is about to execute
  before,    \* the requests that were done when each took its snapshot
  sought,    \* the rows its update has found in that snapshot
  taken,     \* the rows each transaction has taken away and so holds locked
  laid,      \* the rows each transaction has laid
  current,   \* the committed current rows
  decided,   \* the committed status of each schedule change
  gone,      \* the services removed
  now,       \* the clock
  stampOf,   \* the time each pay handler has read
  rates      \* staff_compensation_history

successionVars == <<order, savePc, before, sought, taken, laid, current, decided, gone, now, stampOf, rates>>

Open == 0

SuccessionInit ==
  /\ order \in Orders
  /\ savePc = [s \in Savers |-> "idle"]
  /\ before = [s \in Savers |-> {}] /\ sought = [s \in Savers |-> {}]
  /\ taken = [s \in Savers |-> {}] /\ laid = [s \in Savers |-> {}]
  /\ current = Standing
  /\ decided = [q \in Changes |-> "pending"]
  /\ gone = {} /\ now = 2
  /\ stampOf = [s \in Savers |-> 0]
  /\ rates = {[slot |-> x.slot, by |-> First, from |-> 1, to |-> Open] : x \in Standing}

-----------------------------------------------------------------------------
SaveGoto(s, step) == savePc' = [savePc EXCEPT ![s] = step]

Undecided(s) == decided[order[s].change] = "pending"

\* What each handler reads and asks before it writes.  A weekly change must be confirmed.
Refuses(s) ==
  CASE order[s].kind = "default"   -> order[s].article \in gone
    [] order[s].kind = "oneTime"   -> ~Undecided(s)
    [] order[s].kind = "recurring" -> ~Undecided(s) \/ ~order[s].sound
    [] OTHER -> FALSE

FirstWrite(s) ==
  CASE order[s].kind = "oneTime"       -> "lay"
    [] order[s].kind = "deny"          -> "decide"
    [] order[s].kind = "removeService" -> "strike"
    [] OTHER                           -> "seek"

BeginSave(s) ==
  /\ savePc[s] = "idle"
  /\ SaveGoto(s, IF Refuses(s) THEN "refused" ELSE FirstWrite(s))
  /\ IF order[s].kind = "pay" THEN stampOf' = [stampOf EXCEPT ![s] = now] /\ now' = now + 1
                              ELSE UNCHANGED <<stampOf, now>>
  /\ UNCHANGED <<order, before, sought, taken, laid, current, decided, gone, rates>>

Sought_OnlyLaid(s) == {x \in current : x.slot \in order[s].lays}

Sought(s) == {x \in current : x.slot \in order[s].covers}

\* An update or delete works on the rows of its snapshot, ...
Seek(s) ==
  /\ savePc[s] = "seek"
  /\ before' = [before EXCEPT ![s] = {u \in Savers : savePc[u] = "done"}]
  /\ sought' = [sought EXCEPT ![s] = Sought(s)]
  /\ SaveGoto(s, "take")
  /\ UNCHANGED <<order, taken, laid, current, decided, gone, now, stampOf, rates>>

RollBackSave(s) ==
  /\ SaveGoto(s, "refused")
  /\ taken' = [taken EXCEPT ![s] = {}]
  /\ laid' = [laid EXCEPT ![s] = {}]

Refuse_Keeps(s) == SaveGoto(s, "commit") /\ UNCHANGED <<taken, laid>>

\* An exception after a write makes the middleware roll everything back.
Refuse(s) == RollBackSave(s)

\* ... waits for those another transaction has taken, and passes over those no longer current.
TakeRows(s) ==
  /\ savePc[s] = "take"
  /\ \A u \in Savers \ {s} : sought[s] \cap taken[u] = {}
  /\ taken' = [taken EXCEPT ![s] = sought[s] \cap current]
  /\ SaveGoto(s, IF order[s].kind = "pay" THEN "model" ELSE "lay")
  /\ UNCHANGED <<order, before, sought, laid, current, decided, gone, now, stampOf, rates>>

\* The pay model is looked up when the rate in force is closed already.
FindModel(s) ==
  /\ savePc[s] = "model"
  /\ IF order[s].sound THEN SaveGoto(s, "lay") /\ UNCHANGED <<taken, laid>> ELSE Refuse(s)
  /\ UNCHANGED <<order, before, sought, current, decided, gone, now, stampOf, rates>>

Lays(s) ==
  {[slot |-> k, by |-> s, article |-> order[s].article] :
     k \in IF order[s].article \in gone THEN {} ELSE order[s].lays}

\* The unique index waits for whoever lays or takes a row of the slot, and refuses a second row.
\* A dated exception is an upsert; the update of a service that is gone changes nothing.
LayRows(s) ==
  LET others == {x \in current \ taken[s] : x.slot \in order[s].lays}
  IN  /\ savePc[s] = "lay"
      /\ \A u \in Savers \ {s} :
           /\ \A x \in taken[u] \cup laid[u] : x.slot \notin order[s].lays
           /\ savePc[u] = "commit" => order[u].kind # "removeService" \/ order[u].article # order[s].article
      /\ IF others # {} /\ order[s].kind # "oneTime" /\ Lays(s) # {}
         THEN Refuse(s)
         ELSE /\ taken' = [taken EXCEPT ![s] = @ \cup IF order[s].kind = "oneTime" THEN others ELSE {}]
              /\ laid' = [laid EXCEPT ![s] = Lays(s)]
              /\ SaveGoto(s, IF order[s].change = NoChange THEN "commit" ELSE "decide")
      /\ UNCHANGED <<order, before, sought, current, decided, gone, now, stampOf, rates>>

\* denyRequest updates the change only where it is pending; approveRequest whatever it is by now.
Denied(s) == Undecided(s)

Decide(s) ==
  /\ savePc[s] = "decide"
  /\ \A u \in Savers \ {s} : ~(savePc[u] = "commit" /\ order[u].change = order[s].change)
  /\ SaveGoto(s, IF order[s].kind # "deny" \/ Denied(s) THEN "commit" ELSE "refused")
  /\ UNCHANGED <<order, before, sought, taken, laid, current, decided, gone, now, stampOf, rates>>

\* removeService deletes the row, whichever service it is.
Strike(s) ==
  /\ savePc[s] = "strike"
  /\ \A u \in Savers \ {s} : \A x \in taken[u] \cup laid[u] : x.article # order[s].article
  /\ SaveGoto(s, "commit")
  /\ UNCHANGED <<order, before, sought, taken, laid, current, decided, gone, now, stampOf, rates>>

\* The time a pay handler closes a rate at, which is the one it opens the next at.
ClosedAt(s) == stampOf[s]

CommitSave(s) ==
  /\ savePc[s] = "commit"
  /\ gone' = gone \cup IF order[s].kind = "removeService" THEN {order[s].article} ELSE {}
  /\ current' = {x \in (current \ taken[s]) \cup laid[s] : x.article \notin gone'}
  /\ decided' = [q \in Changes |-> IF q # order[s].change THEN decided[q]
                                   ELSE IF order[s].kind = "deny" THEN "denied" ELSE "approved"]
  /\ rates' = IF order[s].kind # "pay" THEN rates
              ELSE {[p EXCEPT !.to = IF \E x \in taken[s] : x.slot = p.slot /\ x.by = p.by
                                     THEN ClosedAt(s) ELSE @] : p \in rates}
                     \cup {[slot |-> k, by |-> s, from |-> stampOf[s], to |-> Open] : k \in order[s].lays}
  /\ SaveGoto(s, "done")
  /\ taken' = [taken EXCEPT ![s] = {}]
  /\ laid' = [laid EXCEPT ![s] = {}]
  /\ UNCHANGED <<order, before, sought, now, stampOf>>

\* The client hangs up, the server stops, or two transactions wait for each other.
DropSave(s) ==
  /\ savePc[s] \in {"seek", "take", "model", "lay", "decide", "strike", "commit"}
  /\ RollBackSave(s)
  /\ UNCHANGED <<order, before, sought, current, decided, gone, now, stampOf, rates>>

SuccessionNext ==
  \E s \in Savers :
    \/ BeginSave(s) \/ Seek(s) \/ TakeRows(s) \/ FindModel(s) \/ LayRows(s) \/ Decide(s)
    \/ Strike(s) \/ CommitSave(s) \/ DropSave(s)

SuccessionSpec == SuccessionInit /\ [][SuccessionNext]_successionVars

-----------------------------------------------------------------------------
SuccessionTypeOK ==
  /\ order \in [Savers -> Order]
  /\ savePc \in [Savers -> {"idle", "seek", "take", "model", "lay", "decide", "strike", "commit", "done", "refused"}]
  /\ \A s \in Savers : sought[s] \cup taken[s] \cup laid[s] \subseteq Row
                       /\ before[s] \subseteq Savers /\ stampOf[s] \in Nat
  /\ current \subseteq Row
  /\ decided \in [Changes -> {"pending", "approved", "denied"}]
  /\ gone \subseteq Articles /\ now \in Nat
  /\ \A p \in rates : p.slot \in Slots /\ p.from \in Nat /\ p.to \in Nat

AskedFor(kinds) == {s \in Savers : order[s].kind \in kinds}

\* A rate or a published week is only ever succeeded: whatever requests overlap, are refused or
\* break off, the slot has a row in force.
NeverWithout ==
  \A x \in Standing :
    (\E s \in AskedFor({"pay", "publish"}) : x.slot \in order[s].covers) =>
      \E y \in current : y.slot = x.slot

\* The pay history gives one rate for each moment, unless a request whose clock was read first
\* commits last: then it closes a rate before that rate began.
OneRateAtATime ==
  \/ \E p \in rates : p.to # Open /\ p.to < p.from
  \/ \A p, q \in rates :
       (p # q /\ p.slot = q.slot /\ p.from <= q.from) => (p.to # Open /\ p.to <= q.from)

\* A barber's week is one of the forms saved, but for days approved singly, unless two saves
\* overlapped: neither began to write after the other was done.
WeekIsOneForm ==
  \A x, y \in current :
    ({x.by, y.by} \subseteq AskedFor({"week"}) /\ {x.slot, y.slot} \subseteq order[x.by].covers)
      => x.by \notin before[y.by] /\ y.by \notin before[x.by]

\* The shop loses its default service only by a removal: of a service that was the default, or
\* that a request found there and made the default when it was gone.
DefaultLostOnlyByRemoval ==
  \A s \in AskedFor({"default"}) :
    (~\E x \in current : x.slot \in order[s].covers) =>
      \/ \E x \in Standing : x.article \in gone
      \/ \E u \in AskedFor({"default"}) : savePc[u] = "done" /\ order[u].article \in gone

\* A change that reads denied is not in the schedule, and one that reads approved has been applied:
\* its days carry it or what succeeded it.
DecisionIsApplied ==
  \A s \in AskedFor({"oneTime", "recurring"}) :
    /\ decided[order[s].change] = "denied" => \A x \in current : x.by # s
    /\ savePc[s] = "done" => decided[order[s].change] = "approved"

\* What is succeeded leaves its successor and nothing else: the rates, the weeks and the default.
RatesSucceed == NeverWithout /\ OneRateAtATime /\ DefaultLostOnlyByRemoval

\* The schedule is what was saved and what was approved.
ScheduleIsAsDecided == WeekIsOneForm /\ DecisionIsApplied
=============================================================================
