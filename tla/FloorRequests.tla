---------------------------- MODULE FloorRequests ----------------------------
(***************************************************************************)
(* The floor's handlers of queue.service.ts when tablets use them at the   *)
(* same time.  Each runs in a READ COMMITTED transaction: it reads the     *)
(* queue entry without a lock, decides, writes rows by their id, draws the *)
(* event's number from the location's counter row, and commits after the   *)
(* answer.  A written row stays locked until the transaction ends.         *)
(***************************************************************************)
EXTENDS Shop, Integers, Sequences, FiniteSets

CONSTANTS
  Tablets,  \* requests, each of which is sent once
  Visits,   \* walk-in rows of queue_entries
  Jobs      \* what the requests may ask for, a bound on the model

FloorKinds == {"start", "complete", "cancel", "return", "reassign"}
Job    == [kind: FloorKinds, visit: Visits, barber: Barbers]
VisitStates == {"waiting", "in_service", "completed", "cancelled"}
Entry  == [status: VisitStates, barber: Barbers \cup {Nobody}]
Member == [status: {"available", "busy"}]

ASSUME FloorConstants ==
  /\ Jobs \subseteq [Tablets -> Job] /\ Jobs # {}
  /\ Visits \cap Barbers = {}
  /\ "counter" \notin Visits \cup Barbers

VARIABLES
  job,      \* what each request asks for
  floorPc,  \* the statement each handler is about to execute
  saw,      \* the queue entry each handler has read
  done,     \* how many of its writes each transaction has made
  number,   \* the event number each transaction has drawn, 0 before
  row,      \* the committed rows
  counter,  \* location_sequence_counters.next_value, committed
  events,   \* the committed events, by their number
  met       \* the requests that committed between the read and the end of each

floorVars == <<job, floorPc, saw, done, number, row, counter, events, met>>

FloorInit ==
  /\ job \in Jobs
  /\ floorPc = [t \in Tablets |-> "idle"]
  /\ saw = [t \in Tablets |-> [status |-> "waiting", barber |-> Nobody]]
  /\ done = [t \in Tablets |-> 0]
  /\ number = [t \in Tablets |-> 0]
  /\ row = [x \in Visits \cup Barbers |-> IF x \in Visits THEN [status |-> "waiting", barber |-> Nobody]
                                         ELSE [status |-> "available"]]
  /\ counter = 1
  /\ events = <<>>
  /\ met = [t \in Tablets |-> {}]

-----------------------------------------------------------------------------
Put(x, fields) == [on |-> x, set |-> fields]
Frees(b)       == IF b = Nobody THEN <<>> ELSE <<Put(b, [status |-> "available"])>>

Seating(v, b) == <<Put(v, [status |-> "in_service", barber |-> b]), Put(b, [status |-> "busy"])>>

StartWrites_BarberFirst(v, b) == <<Seating(v, b)[2], Seating(v, b)[1]>>

StartWrites(v, b) == Seating(v, b)

CancelWrites_KeepsBarber(v, seen) == <<Put(v, [status |-> "cancelled"])>>

CancelWrites(v, seen) ==
  <<Put(v, [status |-> "cancelled"])>>
    \o (IF seen.status = "in_service" THEN Frees(seen.barber) ELSE <<>>)

\* The updates of each handler in the order it makes them, given the entry it read.
Writes(t) ==
  LET v == job[t].visit
      b == job[t].barber
      freed == IF saw[t].status = "in_service" THEN Frees(saw[t].barber) ELSE <<>>
  IN CASE job[t].kind = "start"    -> StartWrites(v, b)
       [] job[t].kind = "complete" -> <<Put(v, [status |-> "completed"])>> \o Frees(saw[t].barber)
       [] job[t].kind = "cancel"   -> CancelWrites(v, saw[t])
       [] job[t].kind = "return"   -> freed \o <<Put(v, [status |-> "waiting", barber |-> Nobody])>>
       [] job[t].kind = "reassign" ->
            <<Put(v, [barber |-> b])>>
              \o (IF saw[t].status = "in_service" THEN freed \o <<Put(b, [status |-> "busy"])>>
                  ELSE <<>>)

\* The statuses each handler works on.
Accepts(kind, status) ==
  CASE kind = "start"    -> status = "waiting"
    [] kind = "complete" -> status = "in_service"
    [] kind = "cancel"   -> status \in {"waiting", "in_service"}
    [] OTHER -> TRUE

Made(t) == {Writes(t)[i] : i \in 1..done[t]}
Held(t)  == {w.on : w \in Made(t)} \cup (IF number[t] > 0 THEN {"counter"} ELSE {})
Wants(t) == IF floorPc[t] = "write" THEN {Writes(t)[done[t] + 1].on}
            ELSE IF floorPc[t] = "event" THEN {"counter"} ELSE {}
Waits(t, u)  == t # u /\ Wants(t) \cap Held(u) # {}
Unlocked(t)  == \A u \in Tablets : ~Waits(t, u)
Ended        == {"committed", "refused", "dropped"}
UnderWay     == {t \in Tablets : floorPc[t] \notin Ended \cup {"idle"}}

FloorGoto(t, step) == floorPc' = [floorPc EXCEPT ![t] = step]

ReadVisit(t) ==
  /\ floorPc[t] = "idle"
  /\ saw' = [saw EXCEPT ![t] = row[job[t].visit]]
  /\ FloorGoto(t, IF ~Accepts(job[t].kind, row[job[t].visit].status) THEN "refused"
                  ELSE IF job[t].kind \in {"start", "reassign"} THEN "eligible" ELSE "write")
  /\ UNCHANGED <<job, done, number, row, counter, events, met>>

\* A barber takes a walk-in when he is available.
CheckBarber(t) ==
  /\ floorPc[t] = "eligible"
  /\ FloorGoto(t, IF row[job[t].barber].status = "available" THEN "write" ELSE "refused")
  /\ UNCHANGED <<job, saw, done, number, row, counter, events, met>>

WriteRow(t) ==
  /\ floorPc[t] = "write" /\ Unlocked(t)
  /\ done' = [done EXCEPT ![t] = @ + 1]
  /\ FloorGoto(t, IF done[t] + 1 = Len(Writes(t)) THEN "event" ELSE "write")
  /\ UNCHANGED <<job, saw, number, row, counter, events, met>>

AppendEvent_Unlocked(t) ==
  /\ floorPc[t] = "event"
  /\ number' = [number EXCEPT ![t] = counter]
  /\ FloorGoto(t, "commit")
  /\ UNCHANGED <<job, saw, done, row, counter, events, met>>

\* appendEvent: the update locks the counter row, whose new value commits with the rest.
AppendEvent(t) ==
  /\ floorPc[t] = "event" /\ Unlocked(t)
  /\ number' = [number EXCEPT ![t] = counter]
  /\ FloorGoto(t, "commit")
  /\ UNCHANGED <<job, saw, done, row, counter, events, met>>

Written(t) ==
  LET Apply(x, i, j) == IF i \in 1..done[t] /\ Writes(t)[i].on = x THEN Onto(Writes(t)[i].set, j) ELSE j
  IN  [x \in DOMAIN row |-> Apply(x, 3, Apply(x, 2, Apply(x, 1, row[x])))]

CommitFloor(t) ==
  /\ floorPc[t] = "commit"
  /\ row' = Written(t)
  /\ counter' = number[t] + 1
  /\ events' = [n \in DOMAIN events \cup {number[t]} |-> IF n = number[t] THEN t ELSE events[n]]
  /\ done' = [done EXCEPT ![t] = 0]
  /\ number' = [number EXCEPT ![t] = 0]
  /\ met' = [u \in Tablets |-> IF u \in UnderWay \ {t} THEN met[u] \cup {t} ELSE met[u]]
  /\ FloorGoto(t, "committed")
  /\ UNCHANGED <<job, saw>>

RollBack_KeepsLocks(t) ==
  /\ FloorGoto(t, "dropped")
  /\ UNCHANGED <<job, saw, done, number, row, counter, events, met>>

RollBack(t) ==
  /\ FloorGoto(t, "dropped")
  /\ done' = [done EXCEPT ![t] = 0]
  /\ number' = [number EXCEPT ![t] = 0]
  /\ UNCHANGED <<job, saw, row, counter, events, met>>

\* The client hangs up, the server stops, or the COMMIT fails.
DropFloor(t) == t \in UnderWay /\ RollBack(t)

Cycle(T) == /\ T # {} /\ \A t \in T : \E u \in T : Waits(t, u)
            /\ \A S \in SUBSET T \ {{}, T} : \E t \in S : \A u \in S : ~Waits(t, u)

\* PostgreSQL ends one of the transactions that wait for each other.
BreakCycle(t) == Wants(t) # {} /\ (\E T \in SUBSET Tablets : t \in T /\ Cycle(T)) /\ RollBack(t)

-----------------------------------------------------------------------------
Handle(t) == ReadVisit(t) \/ CheckBarber(t) \/ WriteRow(t) \/ AppendEvent(t) \/ CommitFloor(t)

FloorNext == \E t \in Tablets : Handle(t) \/ DropFloor(t) \/ BreakCycle(t)

\* A handler that was started goes on, and the database looks for deadlocks.
FloorFairness ==
  \A t \in Tablets : WF_floorVars(floorPc[t] # "idle" /\ Handle(t)) /\ WF_floorVars(BreakCycle(t))

FloorSpec == FloorInit /\ [][FloorNext]_floorVars /\ FloorFairness

FloorTypeOK ==
  /\ job \in [Tablets -> Job]
  /\ floorPc \in [Tablets -> {"idle", "eligible", "write", "event", "commit"} \cup Ended]
  /\ saw \in [Tablets -> Entry]
  /\ done \in [Tablets -> 0..3] /\ number \in [Tablets -> Nat]
  /\ \A v \in Visits : row[v] \in Entry
  /\ \A b \in Barbers : row[b] \in Member
  /\ counter \in Nat \ {0}
  /\ events \in Seq(Tablets)
  /\ met \in [Tablets -> SUBSET Tablets]

\* A barber is busy without a client only after two requests for one visit overlapped:
\* neither saw what the other wrote, as only the first read of start looks at the status.
BusyAloneOnlyByOverlap ==
  \A b \in Barbers :
    (row[b].status = "busy" /\ ~\E v \in Visits : row[v] = [status |-> "in_service", barber |-> b])
      => \E t, u \in Tablets : t \in met[u] /\ job[t].visit = job[u].visit
                               /\ {floorPc[t], floorPc[u]} = {"committed"}

\* start, complete and cancel lock the visit, then one barber, then the counter; a circle of
\* waiting requests takes one that locks the barber first or two barbers in its own order.
CycleNeedsReturnOrReassign ==
  \A T \in SUBSET Tablets :
    Cycle(T) => \E t \in T : job[t].kind \in {"return", "reassign"}

E == INSTANCE EventLog WITH Writers <- Tablets, log <- events

\* The rows of events are the gapless sequence that event-log.ts promises, also when the
\* transaction that drew a number is rolled back.
ImplementsEventLog == E!LogSpec

\* Every request that was started is answered, whoever it has to wait for: a request is sent
\* once, so that this is to be free of requests again and again.
FloorAnswered == []<>(UnderWay = {})
=============================================================================
