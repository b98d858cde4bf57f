------------------------ MODULE FloorRequestsProofs ------------------------
(***************************************************************************)
(* The overlapping requests of the floor, for any tablets, visits, barbers *)
(* and jobs.  They implement the event log of event-log.ts: the counter    *)
(* row's lock is with the one transaction that has drawn a number, and the *)
(* number is the one after the last event.  A barber is left busy alone    *)
(* only by two of them that overlapped: what a request has read of its     *)
(* visit is still so, or another one has committed since.  A circle of     *)
(* waiting requests needs one that locks in another order than start,      *)
(* complete and cancel do.                                                 *)
(***************************************************************************)
EXTENDS FloorRequests, SequenceTheorems, TLAPS

FloorSteps == {"idle", "eligible", "write", "event", "commit"} \cup Ended

\* The counter row, whoever has it locked.
CounterInv ==
  /\ floorPc \in [Tablets -> FloorSteps]
  /\ number \in [Tablets -> Nat]
  /\ events \in Seq(Tablets)
  /\ counter = Len(events) + 1
  /\ \A t \in Tablets : (floorPc[t] = "commit") <=> (number[t] # 0)
  /\ \A t \in Tablets : number[t] # 0 => number[t] = counter
  /\ \A t, u \in Tablets : number[t] # 0 /\ number[u] # 0 => t = u
  /\ \A n \in DOMAIN events : floorPc[events[n]] = "committed"

-----------------------------------------------------------------------------
\* Nobody draws a number while another transaction holds one.
LEMMA OneDrawer ==
  ASSUME CounterInv, NEW t \in Tablets, floorPc[t] = "event", Unlocked(t)
  PROVE  \A u \in Tablets : number[u] = 0
<1> SUFFICES ASSUME NEW u \in Tablets, number[u] # 0  PROVE FALSE
  OBVIOUS
<1>1. u # t
  BY DEF CounterInv
<1>2. Wants(t) = {"counter"}
  BY DEF Wants
<1>3. "counter" \in Held(u)
  <2>1. number[u] > 0
    BY DEF CounterInv
  <2> QED BY <2>1 DEF Held
<1> QED BY <1>1, <1>2, <1>3 DEF Unlocked, Waits

\* The rows of events with one more at the end.
LEMMA AppendIsExtension ==
  ASSUME NEW s \in Seq(Tablets), NEW t \in Tablets, NEW n, n = Len(s) + 1
  PROVE  [k \in DOMAIN s \cup {n} |-> IF k = n THEN t ELSE s[k]] = Append(s, t)
<1> DEFINE e == [k \in DOMAIN s \cup {n} |-> IF k = n THEN t ELSE s[k]]
<1>1. DOMAIN e = 1 .. Len(s) + 1
  OBVIOUS
<1>2. /\ Append(s, t) \in Seq(Tablets) /\ Len(Append(s, t)) = Len(s) + 1
      /\ \A k \in 1 .. Len(s) : Append(s, t)[k] = s[k]
      /\ Append(s, t)[Len(s) + 1] = t
  OBVIOUS
<1>3. DOMAIN Append(s, t) = 1 .. Len(s) + 1
  BY <1>2
<1>4. \A k \in 1 .. Len(s) + 1 : e[k] = Append(s, t)[k]
  BY <1>2
<1>5. e \in [1 .. Len(s) + 1 -> Tablets]
  BY <1>1
<1> HIDE DEF e
<1>6. e \in Seq(Tablets) /\ Len(e) = Len(s) + 1
  BY <1>5
<1> QED BY <1>2, <1>4, <1>6, SeqEqual DEF e

LEMMA CounterInit == FloorInit => CounterInv
<1> SUFFICES ASSUME FloorInit  PROVE CounterInv
  OBVIOUS
<1>1. /\ floorPc = [t \in Tablets |-> "idle"] /\ number = [t \in Tablets |-> 0]
      /\ events = <<>> /\ counter = 1
  BY DEF FloorInit
<1>2. floorPc \in [Tablets -> FloorSteps] /\ number \in [Tablets -> Nat]
  BY <1>1 DEF FloorSteps
<1>3. events \in Seq(Tablets) /\ Len(events) = 0 /\ DOMAIN events = {}
  BY <1>1
<1> QED BY <1>1, <1>2, <1>3 DEF CounterInv

\* A transaction that ends without a COMMIT gives its number back.
LEMMA CounterRollBack ==
  ASSUME CounterInv, NEW t \in Tablets, floorPc[t] # "committed", RollBack(t)
  PROVE  CounterInv'
<1>1. /\ floorPc' = [floorPc EXCEPT ![t] = "dropped"]
      /\ number' = [number EXCEPT ![t] = 0]
      /\ UNCHANGED <<events, counter>>
  BY DEF RollBack, FloorGoto
<1>2. floorPc' \in [Tablets -> FloorSteps] /\ number' \in [Tablets -> Nat]
  BY <1>1 DEF CounterInv, FloorSteps, Ended
<1>3. \A u \in Tablets : /\ floorPc'[u] = IF u = t THEN "dropped" ELSE floorPc[u]
                         /\ number'[u] = IF u = t THEN 0 ELSE number[u]
  BY <1>1 DEF CounterInv
<1>4. \A n \in DOMAIN events : events[n] \in Tablets /\ floorPc'[events[n]] = "committed"
  BY <1>3 DEF CounterInv
<1> QED BY <1>1, <1>2, <1>3, <1>4 DEF CounterInv

\* A step of a handler that neither draws a number nor commits.
LEMMA CounterElsewhere ==
  ASSUME CounterInv, NEW t \in Tablets, NEW s \in FloorSteps \ {"commit"},
         floorPc[t] \notin {"commit", "committed"}, FloorGoto(t, s), UNCHANGED <<number, events, counter>>
  PROVE  CounterInv'
<1>1. floorPc' = [floorPc EXCEPT ![t] = s]
  BY DEF FloorGoto
<1>2. floorPc' \in [Tablets -> FloorSteps]
  BY <1>1 DEF CounterInv
<1>3. \A u \in Tablets : floorPc'[u] = IF u = t THEN s ELSE floorPc[u]
  BY <1>1 DEF CounterInv
<1>4. \A n \in DOMAIN events : events[n] \in Tablets /\ floorPc'[events[n]] = "committed"
  BY <1>3 DEF CounterInv
<1> QED BY <1>2, <1>3, <1>4 DEF CounterInv

LEMMA CounterAppend ==
  ASSUME CounterInv, NEW t \in Tablets, AppendEvent(t)
  PROVE  CounterInv'
<1>1. \A u \in Tablets : number[u] = 0
  BY OneDrawer DEF AppendEvent
<1>2. /\ floorPc' = [floorPc EXCEPT ![t] = "commit"]
      /\ number' = [number EXCEPT ![t] = counter]
      /\ UNCHANGED <<events, counter>> /\ floorPc[t] = "event"
  BY DEF AppendEvent, FloorGoto
<1>3. counter \in Nat \ {0}
  BY DEF CounterInv
<1>4. floorPc' \in [Tablets -> FloorSteps] /\ number' \in [Tablets -> Nat]
  BY <1>2, <1>3 DEF CounterInv, FloorSteps
<1>5. \A u \in Tablets : /\ floorPc'[u] = IF u = t THEN "commit" ELSE floorPc[u]
                         /\ number'[u] = IF u = t THEN counter ELSE 0
  BY <1>1, <1>2 DEF CounterInv
<1>6. \A n \in DOMAIN events : events[n] \in Tablets /\ floorPc'[events[n]] = "committed"
  BY <1>2, <1>5 DEF CounterInv
<1>7. \A u \in Tablets : floorPc[u] # "commit"
  BY <1>1 DEF CounterInv
<1> QED BY <1>2, <1>3, <1>4, <1>5, <1>6, <1>7 DEF CounterInv

LEMMA CounterCommit ==
  ASSUME CounterInv, NEW t \in Tablets, CommitFloor(t)
  PROVE  CounterInv' /\ events' = Append(events, t)
<1>1. /\ floorPc' = [floorPc EXCEPT ![t] = "committed"]
      /\ number' = [number EXCEPT ![t] = 0]
      /\ counter' = number[t] + 1 /\ floorPc[t] = "commit"
      /\ events' = [n \in DOMAIN events \cup {number[t]} |-> IF n = number[t] THEN t ELSE events[n]]
  BY DEF CommitFloor, FloorGoto
<1>2. number[t] = Len(events) + 1 /\ events \in Seq(Tablets)
  BY <1>1 DEF CounterInv
<1>3. events' = Append(events, t)
  BY <1>1, <1>2, AppendIsExtension
<1>4. /\ events' \in Seq(Tablets) /\ Len(events') = Len(events) + 1
      /\ \A n \in DOMAIN events' : (n \in DOMAIN events /\ events'[n] = events[n]) \/ events'[n] = t
  BY <1>2, <1>3
<1>5. floorPc' \in [Tablets -> FloorSteps] /\ number' \in [Tablets -> Nat]
  BY <1>1 DEF CounterInv, FloorSteps, Ended
<1>6. \A u \in Tablets : /\ floorPc'[u] = IF u = t THEN "committed" ELSE floorPc[u]
                         /\ number'[u] = IF u = t THEN 0 ELSE number[u]
  BY <1>1 DEF CounterInv
<1>7. \A u \in Tablets : number'[u] = 0
  BY <1>1, <1>6 DEF CounterInv
<1>8. \A u \in Tablets : floorPc'[u] # "commit"
  BY <1>1, <1>6, <1>7 DEF CounterInv
<1>9. \A n \in DOMAIN events : events[n] \in Tablets /\ floorPc[events[n]] = "committed"
  BY DEF CounterInv
<1>10. \A n \in DOMAIN events' : floorPc'[events'[n]] = "committed"
  BY <1>4, <1>6, <1>9
<1>11. counter' = Len(events') + 1
  BY <1>1, <1>2, <1>4
<1> QED BY <1>3, <1>4, <1>5, <1>7, <1>8, <1>10, <1>11 DEF CounterInv

\* Every step keeps the counter row's invariant, and only a COMMIT touches the events.
LEMMA CounterNext ==
  ASSUME CounterInv, [FloorNext]_floorVars
  PROVE  CounterInv' /\ (events' # events => \E t \in Tablets : CommitFloor(t))
<1>1. CASE UNCHANGED floorVars
  BY <1>1 DEF CounterInv, floorVars
<1>2. ASSUME NEW t \in Tablets, ReadVisit(t)
      PROVE  CounterInv' /\ events' = events
  BY <1>2, CounterElsewhere DEF ReadVisit, FloorSteps, Ended
<1>3. ASSUME NEW t \in Tablets, CheckBarber(t)
      PROVE  CounterInv' /\ events' = events
  BY <1>3, CounterElsewhere DEF CheckBarber, FloorSteps, Ended
<1>4. ASSUME NEW t \in Tablets, WriteRow(t)
      PROVE  CounterInv' /\ events' = events
  BY <1>4, CounterElsewhere DEF WriteRow, FloorSteps, Ended
<1>5. ASSUME NEW t \in Tablets, AppendEvent(t)
      PROVE  CounterInv' /\ events' = events
  BY <1>5, CounterAppend DEF AppendEvent
<1>6. ASSUME NEW t \in Tablets, CommitFloor(t)
      PROVE  CounterInv'
  BY <1>6, CounterCommit
<1>7. ASSUME NEW t \in Tablets, DropFloor(t)
      PROVE  CounterInv' /\ events' = events
  BY <1>7, CounterRollBack DEF DropFloor, RollBack, UnderWay, Ended
<1>8. ASSUME NEW t \in Tablets, BreakCycle(t)
      PROVE  CounterInv' /\ events' = events
  <2>1. PICK u \in Tablets : Waits(t, u)
    BY <1>8 DEF BreakCycle, Cycle
  <2>2. floorPc[t] # "committed"
    BY <2>1 DEF Waits, Wants
  <2> QED BY <1>8, <2>2, CounterRollBack DEF BreakCycle, RollBack
<1> QED BY <1>1, <1>2, <1>3, <1>4, <1>5, <1>6, <1>7, <1>8 DEF FloorNext, Handle, floorVars

\* The counter row is one past the events that have committed, and who has drawn a number holds the row
\* locked until it commits or rolls back (appendEvent).
THEOREM CounterKept == FloorSpec => []CounterInv
<1>1. CounterInv /\ [FloorNext]_floorVars => CounterInv'
  BY CounterNext
<1> QED BY CounterInit, <1>1, PTL DEF FloorSpec

\* The committed events are the gapless log of event-log.ts, each request in it at most once,
\* whichever transactions overlap, fail or are sent away (appendEvent).
THEOREM EventLogImplemented == FloorSpec => ImplementsEventLog
<1>1. FloorInit => E!LogInit
  BY DEF FloorInit, E!LogInit
<1>2. CounterInv /\ [FloorNext]_floorVars => [\E w \in Tablets : E!Record(w)]_events
  <2> SUFFICES ASSUME CounterInv, [FloorNext]_floorVars, events' # events
               PROVE  \E w \in Tablets : E!Record(w)
    OBVIOUS
  <2>1. PICK t \in Tablets : CommitFloor(t)
    BY CounterNext
  <2>2. events' = Append(events, t)
    BY <2>1, CounterCommit
  <2>3. \A n \in DOMAIN events : events[n] # t
    BY <2>1 DEF CounterInv, CommitFloor
  <2> QED BY <2>2, <2>3 DEF E!Record
<1> QED BY <1>1, <1>2, CounterKept, PTL DEF FloorSpec, ImplementsEventLog, E!LogSpec

-----------------------------------------------------------------------------
(* The rows, and what the requests know of them.                           *)

Shorts == {"start", "complete", "cancel"}
InHand(t) == floorPc[t] \in {"eligible", "write", "event", "commit"}

RowTypes ==
  /\ job \in [Tablets -> Job] /\ saw \in [Tablets -> Entry] /\ done \in [Tablets -> Nat]
  /\ met \in [Tablets -> SUBSET Tablets]
  /\ DOMAIN row = Visits \cup Barbers
  /\ \A v \in Visits : row[v] \in Entry
  /\ \A b \in Barbers : row[b] \in Member

\* A transaction holds the rows it has written, and has written them all before its event.
WritesMade ==
  \A t \in Tablets :
    /\ floorPc[t] \in {"idle", "eligible"} => done[t] = 0
    /\ floorPc[t] = "write" => done[t] < Len(Writes(t))
    /\ floorPc[t] \in {"event", "commit"} => done[t] = Len(Writes(t))
    /\ InHand(t) => Accepts(job[t].kind, saw[t].status)

\* Another request for the visit has committed since this one read it.
Missed(t) == \E u \in met[t] : floorPc[u] = "committed" /\ job[u].visit = job[t].visit

ReadsCurrent == \A t \in Tablets : InHand(t) => saw[t] = row[job[t].visit] \/ Missed(t)

Overlapped ==
  \E t, u \in Tablets : /\ t \in met[u] /\ job[t].visit = job[u].visit
                        /\ floorPc[t] = "committed" /\ floorPc[u] = "committed"

Serves(v, b) == row[v].status = "in_service" /\ row[v].barber = b
BusyServed == \A b \in Barbers : row[b].status = "busy" => \E v \in Visits : Serves(v, b)

\* The order in which start, complete and cancel lock rows.
Rank(x) == IF x \in Visits THEN 1 ELSE IF x \in Barbers THEN 2 ELSE 3

FloorInv == RowTypes /\ WritesMade /\ ReadsCurrent /\ (Overlapped \/ BusyServed)

LEMMA JobTypes ==
  ASSUME RowTypes, NEW t \in Tablets
  PROVE  /\ job[t].kind \in FloorKinds /\ job[t].visit \in Visits /\ job[t].barber \in Barbers
         /\ saw[t] \in Entry /\ job[t].visit \notin Barbers /\ job[t].barber \notin Visits
<1>1. job[t] \in Job /\ saw[t] \in Entry
  BY DEF RowTypes
<1>2. QED
  BY <1>1, FloorConstants DEF Job

LEMMA Concatenated ==
  ASSUME NEW a, NEW b
  PROVE  /\ <<a>> \o <<b>> = <<a, b>> /\ <<a>> \o <<>> = <<a>> /\ <<>> \o <<a>> = <<a>>
<1> DEFINE S == {a, b}
<1>1. <<a>> \in Seq(S) /\ <<b>> \in Seq(S) /\ <<>> \in Seq(S) /\ <<a, b>> \in Seq(S)
  OBVIOUS
<1>2. /\ <<a>> \o <<b>> \in Seq(S) /\ Len(<<a>> \o <<b>>) = 2
      /\ (<<a>> \o <<b>>)[1] = a /\ (<<a>> \o <<b>>)[2] = b
  BY <1>1, ConcatProperties
<1>3. <<a>> \o <<b>> = <<a, b>>
  <2> DEFINE c == <<a>> \o <<b>>
             d == <<a, b>>
  <2>1. c \in Seq(S) /\ d \in Seq(S) /\ Len(c) = Len(d) /\ \A i \in 1 .. Len(c) : c[i] = d[i]
    BY <1>1, <1>2
  <2> HIDE DEF c, d
  <2>2. c = d
    BY <2>1, SeqEqual
  <2>3. QED
    BY <2>2 DEF c, d
<1>4. QED
  BY <1>1, <1>3, ConcatEmptySeq

LEMMA ConcatenatedThree ==
  ASSUME NEW a, NEW b, NEW c
  PROVE  <<a>> \o <<b, c>> = <<a, b, c>>
<1> DEFINE S == {a, b, c}
<1>1. <<a>> \in Seq(S) /\ <<b, c>> \in Seq(S) /\ <<a, b, c>> \in Seq(S)
  OBVIOUS
<1> DEFINE x == <<a>> \o <<b, c>>
           y == <<a, b, c>>
<1>2. x \in Seq(S) /\ Len(x) = 3 /\ x[1] = a /\ x[2] = b /\ x[3] = c
  BY <1>1, ConcatProperties
<1>3. y \in Seq(S) /\ Len(x) = Len(y) /\ \A i \in 1 .. Len(x) : x[i] = y[i]
  BY <1>1, <1>2
<1> HIDE DEF x, y
<1>4. x = y
  BY <1>2, <1>3, SeqEqual
<1>5. QED
  BY <1>4 DEF x, y

\* The updates of a request, as it makes them.
LEMMA WritesAre ==
  ASSUME RowTypes, NEW t \in Tablets
  PROVE  LET v == job[t].visit
             b == job[t].barber
             old == saw[t].barber
             seated == saw[t].status = "in_service"
             free == Put(old, [status |-> "available"])
             busy == Put(b, [status |-> "busy"])
         IN  /\ job[t].kind = "start" => Writes(t) = <<Put(v, [status |-> "in_service", barber |-> b]), busy>>
             /\ job[t].kind = "complete" =>
                  Writes(t) = IF old = Nobody THEN <<Put(v, [status |-> "completed"])>>
                              ELSE <<Put(v, [status |-> "completed"]), free>>
             /\ job[t].kind = "cancel" =>
                  Writes(t) = IF seated /\ old # Nobody THEN <<Put(v, [status |-> "cancelled"]), free>>
                              ELSE <<Put(v, [status |-> "cancelled"])>>
             /\ job[t].kind = "return" =>
                  Writes(t) = IF seated /\ old # Nobody THEN <<free, Put(v, [status |-> "waiting", barber |-> Nobody])>>
                              ELSE <<Put(v, [status |-> "waiting", barber |-> Nobody])>>
             /\ job[t].kind = "reassign" =>
                  Writes(t) = IF ~seated THEN <<Put(v, [barber |-> b])>>
                              ELSE IF old = Nobody THEN <<Put(v, [barber |-> b]), busy>>
                              ELSE <<Put(v, [barber |-> b]), free, busy>>
<1> DEFINE v == job[t].visit
           b == job[t].barber
           old == saw[t].barber
           seated == saw[t].status = "in_service"
           free == Put(old, [status |-> "available"])
           busy == Put(b, [status |-> "busy"])
           put(fields) == Put(v, fields)
<1>1. Frees(old) = IF old = Nobody THEN <<>> ELSE <<free>>
  BY DEF Frees
<1>2. CASE job[t].kind = "start"
  BY <1>2 DEF Writes, StartWrites, Seating
<1>3. CASE job[t].kind = "complete"
  <2>1. Writes(t) = <<put([status |-> "completed"])>> \o Frees(old)
    BY <1>3 DEF Writes
  <2>2. QED
    BY <1>1, <1>3, <2>1, Concatenated
<1>4. CASE job[t].kind = "cancel"
  <2>1. Writes(t) = <<put([status |-> "cancelled"])>> \o (IF seated THEN Frees(old) ELSE <<>>)
    BY <1>4 DEF Writes, CancelWrites
  <2>2. QED
    BY <1>1, <1>4, <2>1, Concatenated
<1>5. CASE job[t].kind = "return"
  <2>1. Writes(t) = (IF seated THEN Frees(old) ELSE <<>>) \o <<put([status |-> "waiting", barber |-> Nobody])>>
    BY <1>5 DEF Writes
  <2>2. QED
    BY <1>1, <1>5, <2>1, Concatenated
<1>6. CASE job[t].kind = "reassign"
  <2>1. Writes(t) = <<put([barber |-> b])>>
                      \o (IF seated THEN (IF seated THEN Frees(old) ELSE <<>>) \o <<busy>> ELSE <<>>)
    BY <1>6 DEF Writes
  <2>2. QED
    BY <1>1, <1>6, <2>1, Concatenated, ConcatenatedThree
<1>7. QED
  BY <1>2, <1>3, <1>4, <1>5, <1>6

LEMMA WritesLength ==
  ASSUME RowTypes, NEW t \in Tablets
  PROVE  /\ Len(Writes(t)) \in 1..3
         /\ job[t].kind \in Shorts => /\ Len(Writes(t)) \in {1, 2}
                                      /\ Rank(Writes(t)[1].on) = 1
                                      /\ Len(Writes(t)) = 2 => Rank(Writes(t)[2].on) = 2
<1> DEFINE v == job[t].visit
           b == job[t].barber
           old == saw[t].barber
<1>1. job[t].kind \in FloorKinds /\ v \in Visits /\ b \in Barbers /\ b \notin Visits /\ old \in Barbers \cup {Nobody}
  BY JobTypes DEF Entry
<1>2. Rank(v) = 1 /\ Rank(b) = 2 /\ (old # Nobody => Rank(old) = 2)
  BY <1>1, FloorConstants DEF Rank
<1>3. \E w1, w2, w3 : \/ Writes(t) = <<w1>> /\ (job[t].kind \in Shorts => w1.on = v)
                      \/ Writes(t) = <<w1, w2>> /\ (job[t].kind \in Shorts => w1.on = v /\ Rank(w2.on) = 2)
                      \/ Writes(t) = <<w1, w2, w3>> /\ job[t].kind \notin Shorts
  <2>1. CASE job[t].kind = "start"
    BY <1>2, <2>1, WritesAre DEF Put
  <2>2. CASE job[t].kind = "complete"
    BY <1>2, <2>2, WritesAre DEF Put
  <2>3. CASE job[t].kind = "cancel"
    BY <1>2, <2>3, WritesAre DEF Put
  <2>4. CASE job[t].kind = "return"
    BY <2>4, WritesAre DEF Shorts
  <2>5. CASE job[t].kind = "reassign"
    BY <2>5, WritesAre DEF Shorts
  <2>6. QED
    BY <1>1, <2>1, <2>2, <2>3, <2>4, <2>5 DEF FloorKinds
<1>4. QED
  BY <1>2, <1>3

-----------------------------------------------------------------------------
(* What a commit makes of the rows.                                        *)

Step(w, x, old) == IF w.on = x THEN Onto(w.set, old) ELSE old

LEMMA AppliedInTurn ==
  ASSUME NEW t \in Tablets, done[t] = Len(Writes(t)), NEW x \in DOMAIN row
  PROVE  /\ \A w1 : Writes(t) = <<w1>> => Written(t)[x] = Step(w1, x, row[x])
         /\ \A w1, w2 : Writes(t) = <<w1, w2>> => Written(t)[x] = Step(w2, x, Step(w1, x, row[x]))
         /\ \A w1, w2, w3 : Writes(t) = <<w1, w2, w3>> =>
              Written(t)[x] = Step(w3, x, Step(w2, x, Step(w1, x, row[x])))
<1> DEFINE Apply(i, j) == IF i \in 1..done[t] /\ Writes(t)[i].on = x THEN Onto(Writes(t)[i].set, j) ELSE j
<1>1. Written(t)[x] = Apply(3, Apply(2, Apply(1, row[x])))
  BY DEF Written
<1>2. ASSUME NEW w1, Writes(t) = <<w1>>
      PROVE  Written(t)[x] = Step(w1, x, row[x])
  <2>1. done[t] = 1
    BY <1>2
  <2>2. \A j : Apply(2, j) = j /\ Apply(3, j) = j /\ Apply(1, j) = Step(w1, x, j)
    BY <1>2, <2>1 DEF Step
  <2> HIDE DEF Apply
  <2>3. QED
    BY <1>1, <2>2
<1>3. ASSUME NEW w1, NEW w2, Writes(t) = <<w1, w2>>
      PROVE  Written(t)[x] = Step(w2, x, Step(w1, x, row[x]))
  <2>1. done[t] = 2
    BY <1>3
  <2>2. \A j : Apply(3, j) = j /\ Apply(1, j) = Step(w1, x, j) /\ Apply(2, j) = Step(w2, x, j)
    BY <1>3, <2>1 DEF Step
  <2> HIDE DEF Apply
  <2>3. QED
    BY <1>1, <2>2
<1>4. ASSUME NEW w1, NEW w2, NEW w3, Writes(t) = <<w1, w2, w3>>
      PROVE  Written(t)[x] = Step(w3, x, Step(w2, x, Step(w1, x, row[x])))
  <2>1. done[t] = 3
    BY <1>4
  <2>2. \A j : Apply(1, j) = Step(w1, x, j) /\ Apply(2, j) = Step(w2, x, j) /\ Apply(3, j) = Step(w3, x, j)
    BY <1>4, <2>1 DEF Step
  <2> HIDE DEF Apply
  <2>3. QED
    BY <1>1, <2>2
<1>5. QED
  BY <1>2, <1>3, <1>4

LEMMA StepOnEntry ==
  ASSUME NEW e \in Entry, NEW v
  PROVE  /\ \A s \in VisitStates : /\ Step(Put(v, [status |-> s]), v, e) = [status |-> s, barber |-> e.barber]
                                   /\ Step(Put(v, [status |-> s]), v, e) \in Entry
         /\ \A b \in Barbers : /\ Step(Put(v, [barber |-> b]), v, e) = [status |-> e.status, barber |-> b]
                               /\ Step(Put(v, [barber |-> b]), v, e) \in Entry
         /\ \A s \in VisitStates, b \in Barbers \cup {Nobody} :
              /\ Step(Put(v, [status |-> s, barber |-> b]), v, e) = [status |-> s, barber |-> b]
              /\ Step(Put(v, [status |-> s, barber |-> b]), v, e) \in Entry
<1>1. e = [status |-> e.status, barber |-> e.barber] /\ e.status \in VisitStates /\ e.barber \in Barbers \cup {Nobody}
  BY DEF Entry
<1>2. \A s \in VisitStates, b \in Barbers \cup {Nobody} : [status |-> s, barber |-> b] \in Entry
  BY DEF Entry
<1>3. ASSUME NEW s \in VisitStates
      PROVE  Step(Put(v, [status |-> s]), v, e) = [status |-> s, barber |-> e.barber]
  BY <1>1 DEF Step, Put, Onto
<1>4. ASSUME NEW b \in Barbers
      PROVE  Step(Put(v, [barber |-> b]), v, e) = [status |-> e.status, barber |-> b]
  BY <1>1 DEF Step, Put, Onto
<1>5. ASSUME NEW s \in VisitStates, NEW b \in Barbers \cup {Nobody}
      PROVE  Step(Put(v, [status |-> s, barber |-> b]), v, e) = [status |-> s, barber |-> b]
  BY <1>1 DEF Step, Put, Onto
<1>6. ASSUME NEW s \in VisitStates
      PROVE  Step(Put(v, [status |-> s]), v, e) \in Entry
  BY <1>1, <1>2, <1>3
<1>7. ASSUME NEW b \in Barbers
      PROVE  Step(Put(v, [barber |-> b]), v, e) \in Entry
  BY <1>1, <1>2, <1>4
<1>8. ASSUME NEW s \in VisitStates, NEW b \in Barbers \cup {Nobody}
      PROVE  Step(Put(v, [status |-> s, barber |-> b]), v, e) \in Entry
  BY <1>2, <1>5
<1>9. QED
  BY <1>3, <1>4, <1>5, <1>6, <1>7, <1>8

LEMMA StepOnMember ==
  ASSUME NEW m \in Member, NEW b, NEW s \in {"available", "busy"}
  PROVE  LET n == Step(Put(b, [status |-> s]), b, m) IN n \in Member /\ n.status = s
<1>1. m = [status |-> m.status]
  BY DEF Member
<1>2. Step(Put(b, [status |-> s]), b, m) = [status |-> s]
  BY <1>1 DEF Step, Put, Onto
<1>3. QED
  BY <1>2 DEF Member

LEMMA StepElsewhere ==
  ASSUME NEW y, NEW fields, NEW x, x # y, NEW old
  PROVE  Step(Put(y, fields), x, old) = old
  BY DEF Step, Put

\* The barbers a request takes and those it frees.
Takes(t) == IF job[t].kind = "start" \/ (job[t].kind = "reassign" /\ saw[t].status = "in_service")
            THEN {job[t].barber} ELSE {}
Leaves(t) == IF job[t].kind # "start" /\ saw[t].status = "in_service" THEN {saw[t].barber} ELSE {}

LEMMA RowsCommitted ==
  ASSUME RowTypes, WritesMade, NEW t \in Tablets, CommitFloor(t)
  PROVE  LET v == job[t].visit
         IN  /\ DOMAIN row' = DOMAIN row
             /\ \A x \in Visits : x # v => row'[x] = row[x]
             /\ row'[v] \in Entry
             /\ job[t].kind = "start" => row'[v].status = "in_service" /\ row'[v].barber = job[t].barber
             /\ job[t].kind = "reassign" => row'[v].status = row[v].status /\ row'[v].barber = job[t].barber
             /\ \A b \in Barbers : /\ row'[b] \in Member
                                   /\ row'[b].status = IF b \in Takes(t) THEN "busy"
                                                       ELSE IF b \in Leaves(t) THEN "available" ELSE row[b].status
<1> DEFINE v == job[t].visit
           b == job[t].barber
           old == saw[t].barber
           seated == saw[t].status = "in_service"
           free == Put(old, [status |-> "available"])
           busy == Put(b, [status |-> "busy"])
<1>1. floorPc[t] = "commit" /\ row' = Written(t) /\ InHand(t)
  BY DEF CommitFloor, InHand
<1>2. done[t] = Len(Writes(t)) /\ Accepts(job[t].kind, saw[t].status)
  BY <1>1 DEF WritesMade
<1>3. /\ job[t].kind \in FloorKinds /\ v \in Visits /\ b \in Barbers /\ v \notin Barbers /\ b \notin Visits
      /\ old \in Barbers \cup {Nobody}
  BY JobTypes DEF Entry
<1>4. DOMAIN row' = DOMAIN row
  BY <1>1 DEF Written
<1>5. v \in DOMAIN row /\ row[v] \in Entry /\ \A x \in Barbers : x \in DOMAIN row /\ row[x] \in Member /\ x \notin Visits
  BY <1>3, FloorConstants DEF RowTypes
<1>6. old # Nobody => old \in Barbers /\ old # v
  BY <1>3
<1>7. \A x \in Barbers : row[x].status \in {"available", "busy"}
  BY <1>5 DEF Member
<1> DEFINE Goal == /\ \A x \in Visits : x # v => row'[x] = row[x]
                   /\ row'[v] \in Entry
                   /\ job[t].kind = "start" => row'[v].status = "in_service" /\ row'[v].barber = b
                   /\ job[t].kind = "reassign" => row'[v].status = row[v].status /\ row'[v].barber = b
                   /\ \A x \in Barbers : /\ row'[x] \in Member
                                         /\ row'[x].status = IF x \in Takes(t) THEN "busy"
                                                             ELSE IF x \in Leaves(t) THEN "available"
                                                             ELSE row[x].status
\* A request that writes the visit alone, by one update.
<1>10. ASSUME NEW w, w.on = v, Writes(t) = <<w>>
       PROVE  /\ \A x \in DOMAIN row : x # v => row'[x] = row[x]
              /\ row'[v] = Step(w, v, row[v])
  <2>1. \A x \in DOMAIN row : row'[x] = Step(w, x, row[x])
    BY <1>1, <1>2, <1>10, AppliedInTurn
  <2>2. QED
    BY <1>5, <1>10, <2>1 DEF Step
\* One that writes the visit and a barber, in this order or the other.
<1>11. ASSUME NEW w, NEW x \in Barbers, NEW s \in {"available", "busy"}, w.on = v,
              \/ Writes(t) = <<w, Put(x, [status |-> s])>>
              \/ Writes(t) = <<Put(x, [status |-> s]), w>>
       PROVE  /\ \A y \in DOMAIN row : y # v /\ y # x => row'[y] = row[y]
              /\ row'[v] = Step(w, v, row[v])
              /\ row'[x] \in Member /\ row'[x].status = s
  <2> DEFINE p == Put(x, [status |-> s])
  <2>1. x # v /\ x \in DOMAIN row /\ row[x] \in Member
    BY <1>3, <1>5
  <2>2. \A y, o : y # v => Step(w, y, o) = o
    BY <1>11 DEF Step
  <2>3. \A y, o : y # x => Step(p, y, o) = o
    BY StepElsewhere
  <2>4. Step(p, x, row[x]) \in Member /\ Step(p, x, row[x]).status = s
    BY <2>1, StepOnMember
  <2>5. \A y \in DOMAIN row : row'[y] = Step(p, y, Step(w, y, row[y])) \/ row'[y] = Step(w, y, Step(p, y, row[y]))
    BY <1>1, <1>2, <1>11, AppliedInTurn
  <2> HIDE DEF p
  <2>6. QED
    BY <1>5, <2>1, <2>2, <2>3, <2>4, <2>5
<1>12. \A s, y : Put(v, s).on = v /\ Put(y, s).on = y
  BY DEF Put
<1>13. CASE job[t].kind = "start"
  <2> DEFINE w == Put(v, [status |-> "in_service", barber |-> b])
  <2>1. Writes(t) = <<w, busy>>
    BY <1>13, WritesAre
  <2>2. Takes(t) = {b} /\ Leaves(t) = {}
    BY <1>13 DEF Takes, Leaves
  <2>3. Step(w, v, row[v]) \in Entry /\ Step(w, v, row[v]) = [status |-> "in_service", barber |-> b]
    <3>1. "in_service" \in VisitStates /\ b \in Barbers \cup {Nobody}
      BY <1>3 DEF VisitStates
    <3>2. \A s \in VisitStates, c \in Barbers \cup {Nobody} :
            /\ Step(Put(v, [status |-> s, barber |-> c]), v, row[v]) = [status |-> s, barber |-> c]
            /\ Step(Put(v, [status |-> s, barber |-> c]), v, row[v]) \in Entry
      BY <1>5, StepOnEntry
    <3>3. QED
      BY <3>1, <3>2
  <2>4. /\ \A y \in DOMAIN row : y # v /\ y # b => row'[y] = row[y]
        /\ row'[v] = Step(w, v, row[v]) /\ row'[b] \in Member /\ row'[b].status = "busy"
    BY <1>3, <1>11, <1>12, <2>1
  <2> HIDE DEF w
  <2>5. QED
    BY <1>3, <1>4, <1>5, <1>13, <2>2, <2>3, <2>4 DEF RowTypes
<1>14. CASE job[t].kind \in {"complete", "cancel", "return"}
  <2>1. PICK w : /\ w.on = v /\ Step(w, v, row[v]) \in Entry
                 /\ IF seated /\ old # Nobody THEN Writes(t) \in {<<w, free>>, <<free, w>>} ELSE Writes(t) = <<w>>
    <3>1. CASE job[t].kind = "complete"
      <4>1. seated
        BY <1>2, <3>1 DEF Accepts
      <4>2. Step(Put(v, [status |-> "completed"]), v, row[v]) \in Entry
        BY <1>5, StepOnEntry DEF VisitStates
      <4>3. IF old # Nobody THEN Writes(t) = <<Put(v, [status |-> "completed"]), free>>
            ELSE Writes(t) = <<Put(v, [status |-> "completed"])>>
        BY <3>1, WritesAre
      <4>4. QED
        BY <1>12, <4>1, <4>2, <4>3
    <3>2. CASE job[t].kind = "cancel"
      <4>1. Step(Put(v, [status |-> "cancelled"]), v, row[v]) \in Entry
        BY <1>5, StepOnEntry DEF VisitStates
      <4>2. IF seated /\ old # Nobody THEN Writes(t) = <<Put(v, [status |-> "cancelled"]), free>>
            ELSE Writes(t) = <<Put(v, [status |-> "cancelled"])>>
        BY <3>2, WritesAre
      <4>3. QED
        BY <1>12, <4>1, <4>2
    <3>3. CASE job[t].kind = "return"
      <4>1. Step(Put(v, [status |-> "waiting", barber |-> Nobody]), v, row[v]) \in Entry
        BY <1>5, StepOnEntry DEF VisitStates
      <4>2. IF seated /\ old # Nobody THEN Writes(t) = <<free, Put(v, [status |-> "waiting", barber |-> Nobody])>>
            ELSE Writes(t) = <<Put(v, [status |-> "waiting", barber |-> Nobody])>>
        BY <3>3, WritesAre
      <4>3. QED
        BY <1>12, <4>1, <4>2
    <3>4. QED
      BY <1>14, <3>1, <3>2, <3>3
  <2>2. Takes(t) = {} /\ Leaves(t) = (IF seated THEN {old} ELSE {})
    BY <1>14 DEF Takes, Leaves
  <2>3. CASE seated /\ old # Nobody
    <3>1. /\ \A y \in DOMAIN row : y # v /\ y # old => row'[y] = row[y]
          /\ row'[v] = Step(w, v, row[v]) /\ row'[old] \in Member /\ row'[old].status = "available"
      BY <1>6, <1>11, <2>1, <2>3
    <3>2. QED
      BY <1>3, <1>4, <1>5, <1>6, <1>14, <2>1, <2>2, <2>3, <3>1 DEF RowTypes
  <2>4. CASE ~(seated /\ old # Nobody)
    <3>1. (\A y \in DOMAIN row : y # v => row'[y] = row[y]) /\ row'[v] = Step(w, v, row[v])
      BY <1>10, <2>1, <2>4
    <3>2. \A x \in Barbers : x \notin Leaves(t)
      BY <2>2, <2>4, NobodyIsNoBarber
    <3>3. QED
      BY <1>3, <1>4, <1>5, <1>14, <2>1, <2>2, <3>1, <3>2 DEF RowTypes
  <2>5. QED
    BY <2>3, <2>4
<1>15. CASE job[t].kind = "reassign"
  <2> DEFINE w == Put(v, [barber |-> b])
  <2>1. Step(w, v, row[v]) \in Entry /\ Step(w, v, row[v]) = [status |-> row[v].status, barber |-> b]
    <3>1. \A c \in Barbers : /\ Step(Put(v, [barber |-> c]), v, row[v]) = [status |-> row[v].status, barber |-> c]
                             /\ Step(Put(v, [barber |-> c]), v, row[v]) \in Entry
      BY <1>5, StepOnEntry
    <3>2. QED
      BY <1>3, <3>1
  <2>2. Writes(t) = IF ~seated THEN <<w>> ELSE IF old = Nobody THEN <<w, busy>> ELSE <<w, free, busy>>
    BY <1>15, WritesAre
  <2>3. w.on = v
    BY <1>12
  <2> HIDE DEF w
  <2>4. CASE ~seated
    <3>1. (\A y \in DOMAIN row : y # v => row'[y] = row[y]) /\ row'[v] = Step(w, v, row[v])
      BY <1>10, <2>2, <2>3, <2>4
    <3>2. Takes(t) = {} /\ Leaves(t) = {}
      BY <1>15, <2>4 DEF Takes, Leaves
    <3>3. QED
      BY <1>3, <1>4, <1>5, <1>15, <2>1, <3>1, <3>2 DEF RowTypes
  <2>5. CASE seated /\ old = Nobody
    <3>1. /\ \A y \in DOMAIN row : y # v /\ y # b => row'[y] = row[y]
          /\ row'[v] = Step(w, v, row[v]) /\ row'[b] \in Member /\ row'[b].status = "busy"
      BY <1>3, <1>11, <2>2, <2>3, <2>5
    <3>2. Takes(t) = {b} /\ Leaves(t) = {Nobody}
      BY <1>15, <2>5 DEF Takes, Leaves
    <3>3. \A x \in Barbers : x # Nobody
      BY NobodyIsNoBarber
    <3>4. QED
      BY <1>3, <1>4, <1>5, <1>15, <2>1, <3>1, <3>2, <3>3 DEF RowTypes
  <2>6. CASE seated /\ old # Nobody
    <3>1. \A y \in DOMAIN row : row'[y] = Step(busy, y, Step(free, y, Step(w, y, row[y])))
      <4>1. Writes(t) = <<w, free, busy>>
        BY <2>2, <2>6
      <4> HIDE DEF free, busy
      <4>2. ASSUME NEW y \in DOMAIN row
            PROVE  Written(t)[y] = Step(busy, y, Step(free, y, Step(w, y, row[y])))
        <5>1. \A w1, w2, w3 : Writes(t) = <<w1, w2, w3>> =>
                Written(t)[y] = Step(w3, y, Step(w2, y, Step(w1, y, row[y])))
          BY <1>2, <4>2, AppliedInTurn
        <5>2. QED
          BY <4>1, <5>1
      <4>3. QED
        BY <1>1, <4>2
    <3>2. /\ \A y, o : y # v => Step(w, y, o) = o
          /\ \A y, o : y # old => Step(free, y, o) = o
          /\ \A y, o : y # b => Step(busy, y, o) = o
      BY <2>3, StepElsewhere DEF Step
    <3>3. row'[v] = Step(w, v, row[v]) /\ \A y \in DOMAIN row : y \notin {v, old, b} => row'[y] = row[y]
      BY <1>3, <1>5, <1>6, <2>6, <3>1, <3>2
    <3>4. old # b => row'[old] \in Member /\ row'[old].status = "available"
      <4>1. Step(free, old, row[old]) \in Member /\ Step(free, old, row[old]).status = "available"
        BY <1>5, <1>6, <2>6, StepOnMember
      <4>2. QED
        BY <1>5, <1>6, <2>6, <3>1, <3>2, <4>1
    <3>5. row'[b] \in Member /\ row'[b].status = "busy"
      <4> DEFINE m == Step(free, b, Step(w, b, row[b]))
      <4>1. Step(w, b, row[b]) = row[b]
        BY <1>3, <3>2
      <4>2. m \in Member
        <5>1. CASE b = old
          BY <1>3, <1>5, <4>1, <5>1, StepOnMember
        <5>2. CASE b # old
          BY <1>3, <1>5, <3>2, <4>1, <5>2
        <5>3. QED
          BY <5>1, <5>2
      <4>3. row'[b] = Step(busy, b, m)
        BY <1>3, <1>5, <3>1
      <4> HIDE DEF m
      <4>4. QED
        BY <4>2, <4>3, StepOnMember
    <3>6. Takes(t) = {b} /\ Leaves(t) = {old}
      BY <1>15, <2>6 DEF Takes, Leaves
    <3>7. QED
      BY <1>3, <1>4, <1>5, <1>6, <1>15, <2>1, <2>6, <3>3, <3>4, <3>5, <3>6 DEF RowTypes
  <2>7. QED
    BY <2>4, <2>5, <2>6
<1>16. Goal
  BY <1>3, <1>13, <1>14, <1>15 DEF FloorKinds
<1>17. QED
  BY <1>4, <1>16

-----------------------------------------------------------------------------
(* The invariant.                                                          *)

LEMMA FloorStarts == FloorInit => FloorInv
<1> SUFFICES ASSUME FloorInit PROVE FloorInv
  OBVIOUS
<1>1. /\ job \in Jobs /\ floorPc = [t \in Tablets |-> "idle"]
      /\ saw = [t \in Tablets |-> [status |-> "waiting", barber |-> Nobody]]
      /\ done = [t \in Tablets |-> 0] /\ met = [t \in Tablets |-> {}]
      /\ row = [x \in Visits \cup Barbers |-> IF x \in Visits THEN [status |-> "waiting", barber |-> Nobody]
                                              ELSE [status |-> "available"]]
  BY DEF FloorInit
<1>2. [status |-> "waiting", barber |-> Nobody] \in Entry /\ [status |-> "available"] \in Member
  BY DEF Entry, Member, VisitStates
<1>3. RowTypes
  <2>1. \A b \in Barbers : row[b] = [status |-> "available"]
    BY <1>1, FloorConstants
  <2>2. QED
    BY <1>1, <1>2, <2>1, FloorConstants DEF RowTypes
<1>4. WritesMade /\ ReadsCurrent
  BY <1>1 DEF WritesMade, ReadsCurrent, InHand
<1>5. BusyServed
  BY <1>1, FloorConstants DEF BusyServed
<1>6. QED
  BY <1>3, <1>4, <1>5 DEF FloorInv

AllWrite == \A t \in Tablets : Len(Writes(t)) \in 1..3

LEMMA AllWriteNow == RowTypes => AllWrite
  BY WritesLength DEF AllWrite

LEMMA AllWriteThen == RowTypes' => AllWrite'
  BY AllWriteNow, PTL

\* A step of a request that is not its commit.
LEMMA FloorAside ==
  ASSUME FloorInv, CounterInv, NEW t \in Tablets, NEW step \in FloorSteps \ {"committed"}, FloorGoto(t, step),
         floorPc[t] # "committed", job' = job, row' = row, met' = met,
         saw' \in [Tablets -> Entry], done' \in [Tablets -> Nat],
         \A u \in Tablets : u # t => saw'[u] = saw[u] /\ done'[u] = done[u],
         step \in {"eligible", "write", "event", "commit"} =>
           /\ saw'[t] = row[job[t].visit] \/ (saw'[t] = saw[t] /\ InHand(t))
           /\ Accepts(job[t].kind, saw'[t].status),
         step \in {"idle", "eligible"} => done'[t] = 0,
         step = "write" => done'[t] < Len(Writes(t)'),
         step \in {"event", "commit"} => done'[t] = Len(Writes(t)')
  PROVE  FloorInv'
<1>1. floorPc'[t] = step /\ \A u \in Tablets : u # t => floorPc'[u] = floorPc[u]
  BY DEF FloorGoto, CounterInv
<1>2. \A u \in Tablets : floorPc'[u] = "committed" <=> floorPc[u] = "committed"
  BY <1>1
<1>3. RowTypes'
  BY DEF FloorInv, RowTypes
<1>4. \A u \in Tablets : u # t => Writes(u)' = Writes(u)
  BY DEF Writes
<1>5. WritesMade'
  <2>1. SUFFICES ASSUME NEW u \in Tablets
                 PROVE  /\ floorPc'[u] \in {"idle", "eligible"} => done'[u] = 0
                        /\ floorPc'[u] = "write" => done'[u] < Len(Writes(u)')
                        /\ floorPc'[u] \in {"event", "commit"} => done'[u] = Len(Writes(u)')
                        /\ InHand(u)' => Accepts(job[u].kind, saw'[u].status)
    BY DEF WritesMade
  <2>2. CASE u = t
    BY <1>1, <2>2 DEF InHand
  <2>3. CASE u # t
    BY <1>1, <1>4, <2>3 DEF FloorInv, WritesMade, InHand
  <2>4. QED
    BY <2>2, <2>3
<1>6. ASSUME NEW u \in Tablets, Missed(u)
      PROVE  Missed(u)'
  BY <1>2, <1>6 DEF Missed, FloorInv, RowTypes
<1>7. ReadsCurrent'
  <2>1. SUFFICES ASSUME NEW u \in Tablets, InHand(u)'
                 PROVE  saw'[u] = row[job[u].visit] \/ Missed(u)'
    BY DEF ReadsCurrent
  <2>2. CASE u = t
    BY <1>1, <1>6, <2>1, <2>2 DEF InHand, FloorInv, ReadsCurrent
  <2>3. CASE u # t
    BY <1>1, <1>6, <2>1, <2>3 DEF InHand, FloorInv, ReadsCurrent
  <2>4. QED
    BY <2>2, <2>3
<1>8. (Overlapped \/ BusyServed)'
  BY <1>2 DEF FloorInv, Overlapped, BusyServed, Serves
<1>9. QED
  BY <1>3, <1>5, <1>7, <1>8 DEF FloorInv

LEMMA FloorAsideSteps ==
  ASSUME FloorInv, CounterInv, NEW t \in Tablets,
         ReadVisit(t) \/ CheckBarber(t) \/ WriteRow(t) \/ AppendEvent(t) \/ DropFloor(t) \/ BreakCycle(t)
  PROVE  FloorInv'
<1>1. /\ saw \in [Tablets -> Entry] /\ done \in [Tablets -> Nat]
      /\ job[t].visit \in Visits /\ row[job[t].visit] \in Entry
  BY JobTypes DEF FloorInv, RowTypes
<1>2. ASSUME RollBack(t), floorPc[t] # "committed"
      PROVE  FloorInv'
  <2>1. /\ FloorGoto(t, "dropped") /\ UNCHANGED <<job, saw, row, met>> /\ done' = [done EXCEPT ![t] = 0]
    BY <1>2 DEF RollBack
  <2>2. done' \in [Tablets -> Nat] /\ \A u \in Tablets : u # t => done'[u] = done[u]
    BY <1>1, <2>1
  <2>3. QED
    BY <1>1, <1>2, <2>1, <2>2, FloorAside DEF FloorSteps, Ended
<1>3. CASE ReadVisit(t)
  <2>1. /\ floorPc[t] = "idle" /\ UNCHANGED <<job, row, met, done>>
        /\ saw' = [saw EXCEPT ![t] = row[job[t].visit]]
        /\ FloorGoto(t, IF ~Accepts(job[t].kind, row[job[t].visit].status) THEN "refused"
                        ELSE IF job[t].kind \in {"start", "reassign"} THEN "eligible" ELSE "write")
    BY <1>3 DEF ReadVisit
  <2>2. /\ saw' \in [Tablets -> Entry] /\ saw'[t] = row[job[t].visit]
        /\ \A u \in Tablets : u # t => saw'[u] = saw[u]
    BY <1>1, <2>1
  <2>3. PICK step \in {"refused", "eligible", "write"} :
          FloorGoto(t, step) /\ (step # "refused" => Accepts(job[t].kind, row[job[t].visit].status))
    BY <2>1
  <2>4. done'[t] = 0 /\ (step = "write" => done'[t] < Len(Writes(t)'))
    <3>1. RowTypes'
      BY <2>1, <2>2 DEF FloorInv, RowTypes
    <3>2. Len(Writes(t)') > 0
      BY <3>1, AllWriteThen DEF AllWrite
    <3>3. done[t] = 0
      BY <2>1 DEF FloorInv, WritesMade
    <3>4. QED
      BY <2>1, <3>2, <3>3
  <2>5. QED
    BY <1>1, <2>1, <2>2, <2>3, <2>4, FloorAside DEF FloorSteps, Ended
<1>4. CASE CheckBarber(t)
  <2>1. /\ floorPc[t] = "eligible" /\ UNCHANGED <<job, saw, done, row, met>>
        /\ FloorGoto(t, "write") \/ FloorGoto(t, "refused")
    BY <1>4 DEF CheckBarber
  <2>2. InHand(t) /\ Accepts(job[t].kind, saw[t].status) /\ done[t] = 0 /\ Writes(t)' = Writes(t)
    BY <2>1 DEF FloorInv, WritesMade, InHand, Writes
  <2>3. Len(Writes(t)) > 0
    BY WritesLength DEF FloorInv
  <2>4. QED
    BY <1>1, <2>1, <2>2, <2>3, FloorAside DEF FloorSteps, Ended
<1>5. CASE WriteRow(t)
  <2>1. /\ floorPc[t] = "write" /\ UNCHANGED <<job, saw, row, met>> /\ done' = [done EXCEPT ![t] = @ + 1]
        /\ FloorGoto(t, IF done[t] + 1 = Len(Writes(t)) THEN "event" ELSE "write")
    BY <1>5 DEF WriteRow
  <2>2. /\ InHand(t) /\ Accepts(job[t].kind, saw[t].status) /\ Writes(t)' = Writes(t)
        /\ done[t] < Len(Writes(t)) /\ done[t] \in Nat
    BY <1>1, <2>1 DEF FloorInv, WritesMade, InHand, Writes
  <2>3. done' \in [Tablets -> Nat] /\ done'[t] = done[t] + 1 /\ \A u \in Tablets : u # t => done'[u] = done[u]
    BY <1>1, <2>1
  <2>4. Len(Writes(t)) \in Nat
    BY WritesLength DEF FloorInv
  <2>5. PICK step \in {"event", "write"} : /\ FloorGoto(t, step)
                                           /\ step = "write" => done'[t] < Len(Writes(t)')
                                           /\ step = "event" => done'[t] = Len(Writes(t)')
    BY <2>1, <2>2, <2>3, <2>4
  <2>6. QED
    BY <1>1, <2>1, <2>2, <2>3, <2>5, FloorAside DEF FloorSteps, Ended
<1>6. CASE AppendEvent(t)
  <2>1. floorPc[t] = "event" /\ UNCHANGED <<job, saw, done, row, met>> /\ FloorGoto(t, "commit")
    BY <1>6 DEF AppendEvent
  <2>2. /\ InHand(t) /\ Accepts(job[t].kind, saw[t].status) /\ Writes(t)' = Writes(t)
        /\ done[t] = Len(Writes(t))
    BY <2>1 DEF FloorInv, WritesMade, InHand, Writes
  <2>3. QED
    BY <1>1, <2>1, <2>2, FloorAside DEF FloorSteps, Ended
<1>7. CASE DropFloor(t)
  BY <1>2, <1>7 DEF DropFloor, UnderWay, Ended
<1>8. CASE BreakCycle(t)
  BY <1>2, <1>8 DEF BreakCycle, Wants
<1>9. QED
  BY <1>3, <1>4, <1>5, <1>6, <1>7, <1>8

\* A commit of what was decided on the row as it is keeps every busy barber's client; any other
\* commit is one of two that overlapped.
LEMMA FloorCommit ==
  ASSUME FloorInv, CounterInv, NEW t \in Tablets, CommitFloor(t)
  PROVE  FloorInv'
<1> DEFINE v == job[t].visit
<1>1. /\ floorPc[t] = "commit" /\ UNCHANGED <<job, saw>> /\ FloorGoto(t, "committed")
      /\ done' = [done EXCEPT ![t] = 0]
      /\ met' = [u \in Tablets |-> IF u \in UnderWay \ {t} THEN met[u] \cup {t} ELSE met[u]]
  BY DEF CommitFloor
<1>2. floorPc'[t] = "committed" /\ \A u \in Tablets : u # t => floorPc'[u] = floorPc[u]
  BY <1>1 DEF FloorGoto, CounterInv
<1>3. /\ v \in Visits /\ job[t].kind \in FloorKinds /\ job[t].barber \in Barbers /\ saw[t] \in Entry
      /\ RowTypes /\ WritesMade /\ InHand(t) /\ Accepts(job[t].kind, saw[t].status)
  BY <1>1, JobTypes DEF FloorInv, WritesMade, InHand
<1>4. /\ DOMAIN row' = DOMAIN row
      /\ \A x \in Visits : x # v => row'[x] = row[x]
      /\ row'[v] \in Entry
      /\ job[t].kind = "start" => row'[v].status = "in_service" /\ row'[v].barber = job[t].barber
      /\ job[t].kind = "reassign" => row'[v].status = row[v].status /\ row'[v].barber = job[t].barber
      /\ \A b \in Barbers : /\ row'[b] \in Member
                            /\ row'[b].status = IF b \in Takes(t) THEN "busy"
                                                ELSE IF b \in Leaves(t) THEN "available" ELSE row[b].status
  BY <1>3, RowsCommitted
<1>5. \A u \in Tablets : met[u] \subseteq met'[u] /\ met[u] \subseteq Tablets /\ met'[u] \subseteq Tablets
  BY <1>1, <1>3 DEF RowTypes
<1>6. RowTypes'
  <2>1. met' \in [Tablets -> SUBSET Tablets] /\ done' \in [Tablets -> Nat]
    BY <1>1, <1>3 DEF RowTypes
  <2>2. \A x \in Visits : row'[x] \in Entry
    BY <1>3, <1>4 DEF RowTypes
  <2>3. QED
    BY <1>1, <1>3, <1>4, <2>1, <2>2 DEF RowTypes
<1>7. WritesMade'
  <2>1. SUFFICES ASSUME NEW u \in Tablets, u # t
                 PROVE  /\ floorPc'[u] \in {"idle", "eligible"} => done'[u] = 0
                        /\ floorPc'[u] = "write" => done'[u] < Len(Writes(u)')
                        /\ floorPc'[u] \in {"event", "commit"} => done'[u] = Len(Writes(u)')
                        /\ InHand(u)' => Accepts(job[u].kind, saw[u].status)
    BY <1>1, <1>2 DEF WritesMade, InHand
  <2>2. done'[u] = done[u] /\ Writes(u)' = Writes(u)
    BY <1>1, <1>3, <2>1 DEF RowTypes, Writes
  <2>3. QED
    BY <1>2, <1>3, <2>1, <2>2 DEF WritesMade, InHand
<1>8. \A u \in Tablets : Missed(u) => Missed(u)'
  BY <1>1, <1>2, <1>5 DEF Missed
<1>9. ReadsCurrent'
  <2>1. SUFFICES ASSUME NEW u \in Tablets, InHand(u)'
                 PROVE  saw[u] = row'[job[u].visit] \/ Missed(u)'
    BY <1>1 DEF ReadsCurrent
  <2>2. u # t /\ InHand(u) /\ job[u].visit \in Visits
    BY <1>2, <1>3, <2>1, JobTypes DEF InHand
  <2>3. CASE job[u].visit # v
    BY <1>4, <1>8, <2>2, <2>3 DEF FloorInv, ReadsCurrent
  <2>4. CASE job[u].visit = v
    <3>1. t \in met'[u]
      BY <1>1, <2>2 DEF UnderWay, InHand, Ended
    <3>2. QED
      BY <1>1, <1>2, <2>4, <3>1 DEF Missed
  <2>5. QED
    BY <2>3, <2>4
<1>10. Overlapped => Overlapped'
  BY <1>1, <1>2, <1>5 DEF Overlapped
<1>11. Missed(t) => Overlapped'
  <2>1. SUFFICES ASSUME NEW u \in met[t], floorPc[u] = "committed", job[u].visit = v
                 PROVE  Overlapped'
    BY DEF Missed
  <2>2. u \in Tablets /\ u \in met'[t] /\ floorPc'[u] = "committed"
    BY <1>1, <1>2, <1>5, <2>1
  <2>3. QED
    BY <1>1, <1>2, <2>1, <2>2 DEF Overlapped
<1>12. ASSUME BusyServed, saw[t] = row[v]
       PROVE  BusyServed'
  <2>1. SUFFICES ASSUME NEW b \in Barbers, row'[b].status = "busy"
                 PROVE  \E x \in Visits : Serves(x, b)'
    BY DEF BusyServed
  <2>2. CASE b \in Takes(t)
    <3>1. b = job[t].barber /\ row'[v].barber = b /\ row'[v].status = "in_service"
      BY <1>4, <1>12, <2>2 DEF Takes
    <3>2. QED
      BY <1>3, <3>1 DEF Serves
  <2>3. CASE b \notin Takes(t)
    <3>1. b \notin Leaves(t) /\ row[b].status = "busy"
      BY <1>4, <2>1, <2>3
    <3>2. PICK x \in Visits : Serves(x, b)
      BY <1>12, <3>1 DEF BusyServed
    <3>3. x # v
      BY <1>3, <1>12, <3>1, <3>2 DEF Serves, Leaves, Accepts
    <3>4. QED
      BY <1>4, <3>2, <3>3 DEF Serves
  <2>4. QED
    BY <2>2, <2>3
<1>13. (Overlapped \/ BusyServed)'
  BY <1>3, <1>10, <1>11, <1>12 DEF FloorInv, ReadsCurrent
<1>14. QED
  BY <1>6, <1>7, <1>9, <1>13 DEF FloorInv

LEMMA FloorStep == FloorInv /\ CounterInv /\ [FloorNext]_floorVars => FloorInv'
<1> SUFFICES ASSUME FloorInv, CounterInv, [FloorNext]_floorVars PROVE FloorInv'
  OBVIOUS
<1>1. CASE FloorNext
  BY <1>1, FloorAsideSteps, FloorCommit DEF FloorNext, Handle
<1>2. CASE UNCHANGED floorVars
  <2>1. UNCHANGED <<job, floorPc, saw, done, row, met>>
    BY <1>2 DEF floorVars
  <2>2. RowTypes' /\ ReadsCurrent' /\ (Overlapped \/ BusyServed)'
    BY <2>1 DEF FloorInv, RowTypes, ReadsCurrent, InHand, Missed, Overlapped, BusyServed, Serves
  <2>3. \A t \in Tablets : Writes(t)' = Writes(t)
    BY <2>1 DEF Writes
  <2>4. WritesMade'
    BY <2>1, <2>3 DEF FloorInv, WritesMade, InHand
  <2>5. QED
    BY <2>2, <2>4 DEF FloorInv
<1>3. QED
  BY <1>1, <1>2

\* The committed rows have their columns, a handler has made its writes before its event, what it read of
\* the visit is still so unless it missed a commit, and a busy barber serves somebody unless two requests
\* for one visit overlapped (start, finalizeCompletion, returnToWaiting and the others).
THEOREM RowsKept == FloorSpec => []FloorInv
  BY FloorStarts, FloorStep, CounterKept, PTL DEF FloorSpec

\* A barber is left busy without a client only by two requests for one visit that overlapped, as start,
\* complete, cancel, return and reassign of queue.service.ts read the visit without a lock and write what they
\* decided on it: for any number of tablets, visits and barbers.
THEOREM BusyAloneByOverlap == FloorSpec => []BusyAloneOnlyByOverlap
<1>1. FloorInv => BusyAloneOnlyByOverlap
  <2> SUFFICES ASSUME FloorInv, NEW b \in Barbers, row[b].status = "busy",
                      ~\E v \in Visits : row[v] = [status |-> "in_service", barber |-> b]
               PROVE  \E t, u \in Tablets : t \in met[u] /\ job[t].visit = job[u].visit
                                            /\ {floorPc[t], floorPc[u]} = {"committed"}
    BY DEF BusyAloneOnlyByOverlap
  <2>1. ~BusyServed
    <3>1. SUFFICES ASSUME NEW v \in Visits, Serves(v, b) PROVE FALSE
      BY DEF BusyServed
    <3>2. row[v] = [status |-> row[v].status, barber |-> row[v].barber]
      BY DEF FloorInv, RowTypes, Entry
    <3>3. QED
      BY <3>1, <3>2 DEF Serves
  <2>2. QED
    BY <2>1 DEF FloorInv, Overlapped
<1>2. QED
  BY <1>1, RowsKept, PTL

-----------------------------------------------------------------------------
(* The order of the locks.                                                 *)

\* start, complete and cancel hold nothing at or behind what they wait for.
LEMMA LocksInOrder ==
  ASSUME FloorInv, CounterInv, NEW t \in Tablets, job[t].kind \in Shorts, NEW x \in Held(t), NEW y \in Wants(t)
  PROVE  Rank(x) < Rank(y)
<1>1. floorPc[t] \in {"write", "event"} /\ number[t] = 0
  BY DEF Wants, CounterInv
<1>2. PICK i \in 1..done[t] : x = Writes(t)[i].on
  BY <1>1 DEF Held, Made
<1>3. done[t] \in Nat /\ Len(Writes(t)) \in {1, 2} /\ done[t] <= Len(Writes(t))
  BY <1>1, WritesLength DEF FloorInv, RowTypes, WritesMade
<1>4. Rank(Writes(t)[1].on) = 1 /\ (Len(Writes(t)) = 2 => Rank(Writes(t)[2].on) = 2)
  BY WritesLength DEF FloorInv
<1>5. CASE floorPc[t] = "write"
  <2>1. done[t] = 1 /\ Len(Writes(t)) = 2 /\ y = Writes(t)[2].on
    BY <1>2, <1>3, <1>5 DEF FloorInv, WritesMade, Wants
  <2>2. QED
    BY <1>2, <1>4, <2>1
<1>6. CASE floorPc[t] = "event"
  <2>1. y = "counter"
    BY <1>6 DEF Wants
  <2>2. Rank(y) = 3
    BY <2>1, FloorConstants DEF Rank
  <2>3. i \in {1, 2} /\ (i = 2 => Len(Writes(t)) = 2)
    BY <1>2, <1>3
  <2>4. QED
    BY <1>2, <1>4, <2>2, <2>3
<1>7. QED
  BY <1>1, <1>5, <1>6

\* A circle of requests that wait for each other takes a return or a reassignment: start, complete and cancel
\* of queue.service.ts lock the visit, then one barber, then the counter of event-log.ts.
THEOREM CyclesNeedTwoOrders == FloorSpec => []CycleNeedsReturnOrReassign
<1>1. FloorInv /\ CounterInv => CycleNeedsReturnOrReassign
  <2> SUFFICES ASSUME FloorInv, CounterInv, NEW T \in SUBSET Tablets, Cycle(T),
                      \A t \in T : job[t].kind \notin {"return", "reassign"}
               PROVE  FALSE
    BY DEF CycleNeedsReturnOrReassign
  <2>1. \A t \in T : t \in Tablets /\ job[t].kind \in Shorts /\ \E u \in T : Waits(t, u)
    BY JobTypes DEF Cycle, FloorInv, FloorKinds, Shorts
  <2>2. ASSUME NEW t \in T
        PROVE  \E u \in T : \E x : x \in Wants(t) /\ x \in Held(u)
    BY <2>1 DEF Waits
  <2>3. PICK t1 \in T : TRUE
    BY DEF Cycle
  <2>4. PICK t2 \in T : \E x : x \in Wants(t1) /\ x \in Held(t2)
    BY <2>2
  <2>5. PICK t3 \in T : \E x : x \in Wants(t2) /\ x \in Held(t3)
    BY <2>2
  <2>6. PICK t4 \in T : \E x : x \in Wants(t3) /\ x \in Held(t4)
    BY <2>2
  <2>7. PICK t5 \in T : \E x : x \in Wants(t4) /\ x \in Held(t5)
    BY <2>2
  <2>8. PICK x1 : x1 \in Wants(t1) /\ x1 \in Held(t2)
    BY <2>4
  <2>9. PICK x2 : x2 \in Wants(t2) /\ x2 \in Held(t3)
    BY <2>5
  <2>10. PICK x3 : x3 \in Wants(t3) /\ x3 \in Held(t4)
    BY <2>6
  <2>11. PICK x4 : x4 \in Wants(t4) /\ x4 \in Held(t5)
    BY <2>7
  <2>12. Rank(x1) < Rank(x2) /\ Rank(x2) < Rank(x3) /\ Rank(x3) < Rank(x4)
    BY <2>1, <2>8, <2>9, <2>10, <2>11, LocksInOrder
  <2>13. \A x : Rank(x) \in {1, 2, 3}
    BY DEF Rank
  <2>14. QED
    BY <2>12, <2>13
<1>2. QED
  BY <1>1, RowsKept, CounterKept, PTL

\* No request makes more than three writes.
DoneFew == \A t \in Tablets : done[t] <= 3

LEMMA DoneStaysFew == FloorInv /\ DoneFew /\ [FloorNext]_floorVars => DoneFew'
<1> SUFFICES ASSUME FloorInv, DoneFew, [FloorNext]_floorVars PROVE DoneFew'
  OBVIOUS
<1>1. ASSUME NEW t \in Tablets, done' = done \/ done' = [done EXCEPT ![t] = 0]
      PROVE  DoneFew'
  BY <1>1 DEF DoneFew, FloorInv, RowTypes
<1>2. ASSUME NEW t \in Tablets, WriteRow(t)
      PROVE  DoneFew'
  <2>1. done[t] < Len(Writes(t)) /\ Len(Writes(t)) \in 1 .. 3 /\ done \in [Tablets -> Nat]
    BY <1>2, AllWriteNow DEF WriteRow, FloorInv, WritesMade, AllWrite, RowTypes
  <2>2. done' = [done EXCEPT ![t] = done[t] + 1]
    BY <1>2 DEF WriteRow
  <2>4. done[t] \in Nat /\ done[t] + 1 <= 3
    <3> DEFINE n == Len(Writes(t))
    <3>1. done[t] \in Nat /\ done[t] < n /\ n \in 1 .. 3
      BY <2>1
    <3> HIDE DEF n
    <3> QED BY <3>1
  <2>3. ASSUME NEW u \in Tablets PROVE done'[u] <= 3
    BY <2>1, <2>2, <2>4 DEF DoneFew
  <2> QED BY <2>3 DEF DoneFew
<1>3. ASSUME NEW t \in Tablets, Handle(t) \/ DropFloor(t) \/ BreakCycle(t)
      PROVE  DoneFew'
  BY <1>1, <1>2, <1>3 DEF Handle, ReadVisit, CheckBarber, AppendEvent, CommitFloor, DropFloor, BreakCycle, RollBack
<1>4. CASE UNCHANGED floorVars
  BY <1>4 DEF floorVars, DoneFew
<1> QED BY <1>3, <1>4 DEF FloorNext

\* No handler makes more than three writes, draws a number that is none, or leaves a row half written.
THEOREM FloorTyped == FloorSpec => []FloorTypeOK
<1>1. FloorInit => DoneFew
  BY DEF FloorInit, DoneFew
<1>2. FloorInv /\ CounterInv /\ DoneFew => FloorTypeOK
  <2> SUFFICES ASSUME FloorInv, CounterInv, DoneFew PROVE FloorTypeOK
    OBVIOUS
  <2>1. done \in [Tablets -> 0 .. 3]
    BY DEF FloorInv, RowTypes, DoneFew
  <2>2. counter \in Nat \ {0}
    BY DEF CounterInv
  <2> QED BY <2>1, <2>2 DEF FloorInv, RowTypes, CounterInv, FloorSteps, FloorTypeOK
<1> QED BY <1>1, <1>2, RowsKept, CounterKept, DoneStaysFew, PTL DEF FloorSpec
=============================================================================
