--------------------------- MODULE BookingProofs ---------------------------
(***************************************************************************)
(* What is proved of Booking for any number of requests, appointments,     *)
(* barbers and days: NoDoubleBooking, FinalUnlessReadBefore and            *)
(* FloorFollowsCalendar.  The exclusion constraint compares stored         *)
(* columns. It keeps the clients apart because every path writes ends_at   *)
(* with starts_at and the services, and because a transaction waits for    *)
(* those whose uncommitted row, old or new, would clash with its own.      *)
(***************************************************************************)
EXTENDS Booking, Sums

Fields    == {"status", "barber", "start", "end", "services", "length"}
CallSteps == {"idle", "lock", "check", "write", "row", "commit"} \cup Over
Lookers   == {"move", "surface", "arrive", "noShow"}

IsRow(x)    == x = [f \in Fields |-> x[f]]
EndKept(x)  == x.end = x.start + x.length
SamePlace(x, y) == x.barber = y.barber /\ x.start = y.start
Off         == {"cancelled", "no_show"}
Ends        == {"noShow", "cancel", "clientCancel"}
New(r)      == Onto(patch[r], Target(r))

Shaped ==
  /\ call \in Calls /\ call \in [Callers -> Call]
  /\ callPc \in [Callers -> CallSteps]
  /\ appt = [a \in Appointments |-> appt[a]] /\ \A a \in Appointments : IsRow(appt[a])
  /\ DOMAIN patch = Callers /\ DOMAIN found = Callers /\ DOMAIN chosen = Callers

\* The committed calendar.
CalendarHolds ==
  /\ \A a \in Appointments : EndKept(appt[a])
  /\ \A a, b \in Appointments : a # b => ~Clash(appt[a], appt[b])

\* What a transaction may have written of its appointment, by what it was asked.
AsWritten(r) ==
  /\ callPc[r] = "commit"
  /\ IsRow(New(r)) /\ EndKept(New(r)) /\ New(r).status # "none"
  /\ Asked(r).kind # "surface"
  /\ Asked(r).kind = "move" =>
       New(r).status = Target(r).status /\ New(r).barber = chosen[r] /\ New(r).start = Asked(r).start
  /\ Asked(r).kind \notin Inserts \cup {"move"} => SamePlace(New(r), Target(r))
  /\ Asked(r).kind \notin Ends /\ New(r).status \in Off => New(r).status = Target(r).status
  /\ Asked(r).kind \in {"cancel", "clientCancel"} => Target(r).status = Booked

\* No two transactions have written one appointment, and none has written what will clash.
WritesHold ==
  \A r \in Callers : Patched(r) =>
    /\ AsWritten(r)
    /\ \A a \in Appointments : a # Asked(r).appt => ~Clash(appt[a], New(r))
    /\ \A u \in Callers : (u # r /\ Patched(u)) =>
         Asked(u).appt # Asked(r).appt /\ ~Clash(New(u), New(r))

\* What the requests have read.
ReadsHold ==
  \A r \in Callers :
    /\ found[r].status = Booked => Target(r).status # "none"
    /\ Asked(r).kind \in Lookers /\ callPc[r] \in {"lock", "check", "write", "row", "commit"} =>
         found[r].status = Booked
    /\ Asked(r).kind \in Inserts /\ callPc[r] # "done" => Target(r).status = "none"
    /\ Asked(r).kind = "surface" => callPc[r] \notin {"lock", "check", "write"}
    /\ callPc[r] = "row" => Asked(r).kind \in {"surface", "arrive"}

BookingInv == Shaped /\ CalendarHolds /\ WritesHold /\ ReadsHold

-----------------------------------------------------------------------------
LEMMA CallsMade ==
  ASSUME Shaped, NEW r \in Callers
  PROVE  /\ Asked(r).appt \in Appointments /\ Asked(r).kind \in CallKinds
         /\ \A u \in Callers : u # r /\ Asked(r).kind \in Inserts /\ Asked(u).kind \in Inserts =>
              Asked(u).appt # Asked(r).appt
<1>1. call[r] \in Call
  BY DEF Shaped
<1>2. Asked(r).appt \in Appointments /\ Asked(r).kind \in CallKinds
  BY <1>1 DEF Call, Asked
<1>3. ASSUME NEW u \in Callers, u # r, Asked(r).kind \in Inserts, Asked(u).kind \in Inserts
      PROVE  Asked(u).appt # Asked(r).appt
  BY <1>3, BookingConstants DEF Shaped, Asked
<1>4. QED
  BY <1>2, <1>3

\* An update writes the columns it names, and leaves the row a row.
LEMMA Updated ==
  ASSUME NEW columns, NEW row, IsRow(row), DOMAIN columns \subseteq Fields
  PROVE  /\ IsRow(Onto(columns, row))
         /\ \A f \in Fields : Onto(columns, row)[f] = IF f \in DOMAIN columns THEN columns[f] ELSE row[f]
<1>1. DOMAIN row = Fields
  BY DEF IsRow
<1>2. Onto(columns, row) = [f \in Fields |-> IF f \in DOMAIN columns THEN columns[f] ELSE row[f]]
  BY <1>1 DEF Onto
<1>3. QED
  BY <1>2 DEF IsRow

LEMMA NotUpdated ==
  ASSUME NEW row, IsRow(row)
  PROVE  Onto(Unwritten, row) = row
  BY DEF Onto, Unwritten, IsRow

\* The columns, by what is asked: an end is written with its start, and only an insert writes the
\* status of a booked appointment.
LEMMA ColumnsWritten ==
  ASSUME NEW r \in Callers, Asked(r).kind \in CallKinds
  PROVE  /\ Asked(r).kind \in Inserts =>
              DOMAIN Columns(r) = Fields /\ EndKept(Columns(r)) /\ Columns(r).status = Booked
         /\ Asked(r).kind = "move" =>
              /\ DOMAIN Columns(r) = Fields \ {"status"} /\ EndKept(Columns(r))
              /\ Columns(r).barber = chosen[r] /\ Columns(r).start = Asked(r).start
         /\ Asked(r).kind \in CallKinds \ (Inserts \cup {"move"}) =>
              DOMAIN Columns(r) = {"status"} /\ Columns(r).status \in {"checked_in"} \cup Off
         /\ Asked(r).kind = "arrive" => Columns(r).status = "checked_in"
<1> DEFINE t == Asked(r).start
           S == Asked(r).services
           place == [barber |-> chosen[r], start |-> t, end |-> t + Minutes(S), services |-> S,
                     length |-> Minutes(S)]
<1>1. DOMAIN place = Fields \ {"status"} /\ EndKept(place) /\ place.barber = chosen[r] /\ place.start = t
  BY DEF Fields, EndKept
<1>2. Asked(r).kind \in Inserts => Columns(r) = Onto([status |-> Booked], place)
  BY DEF Columns, Inserts
<1>3. Asked(r).kind = "move" => Columns(r) = place
  BY DEF Columns, Inserts
<1>4. Asked(r).kind \in CallKinds \ (Inserts \cup {"move"}) =>
        \E s \in {"checked_in"} \cup Off :
          Columns(r) = [status |-> s] /\ (Asked(r).kind = "arrive" => s = "checked_in")
  BY DEF Columns, Inserts, CallKinds, Off
<1> HIDE DEF place
<1>5. /\ DOMAIN Onto([status |-> Booked], place) = Fields
      /\ Onto([status |-> Booked], place).status = Booked
      /\ Onto([status |-> Booked], place).start = place.start
      /\ Onto([status |-> Booked], place).end = place.end
      /\ Onto([status |-> Booked], place).length = place.length
  BY <1>1 DEF Onto, Fields
<1>6. QED
  BY <1>1, <1>2, <1>3, <1>4, <1>5 DEF EndKept, Inserts

LEMMA ClashEitherWay ==
  ASSUME NEW x, NEW y
  PROVE  Clash(x, y) <=> Clash(y, x)
  BY DEF Clash

-----------------------------------------------------------------------------
LEMMA BookingStarts == BookingInit => BookingInv
<1> SUFFICES ASSUME BookingInit PROVE BookingInv
  OBVIOUS
<1>1. call \in Calls /\ call \in [Callers -> Call] /\ appt \in Calendars /\ appt \in [Appointments -> Appt]
  BY BookingConstants DEF BookingInit
<1>2. \A x \in Appt : IsRow(x)
  BY DEF IsRow, Appt, Fields
<1>3. Shaped
  BY <1>1, <1>2 DEF BookingInit, Shaped, CallSteps
<1>4. CalendarHolds
  BY <1>1, BookingConstants DEF CalendarHolds, EndKept
<1>5. WritesHold
  BY DEF BookingInit, WritesHold, Patched
<1>6. ReadsHold
  <2>1. SUFFICES ASSUME NEW r \in Callers
                 PROVE  /\ found[r] = Target(r) /\ callPc[r] = "idle"
                        /\ Asked(r).kind \in Inserts => Target(r).status = "none"
    BY DEF ReadsHold, Booked
  <2>2. QED
    BY <1>1, BookingConstants DEF BookingInit, Target, Asked
<1>7. QED
  BY <1>3, <1>4, <1>5, <1>6 DEF BookingInv

\* A step of a request that leaves the calendar alone and writes no appointment.
LEMMA Aside ==
  ASSUME BookingInv, NEW r \in Callers, NEW step \in CallSteps, BookGoto(r, step), callPc[r] # "done",
         call' = call, appt' = appt, DOMAIN found' = Callers,
         (patch' = patch /\ callPc[r] # "commit") \/ patch' = [patch EXCEPT ![r] = Unwritten],
         DOMAIN chosen' = Callers, \A u \in Callers : u # r => chosen'[u] = chosen[u],
         \A u \in Callers : u # r => found'[u] = found[u],
         found'[r] = found[r] \/ found'[r] = Target(r),
         Asked(r).kind \in Lookers /\ step \in {"lock", "check", "write", "row", "commit"} =>
           found'[r].status = Booked,
         Asked(r).kind = "surface" => step \notin {"lock", "check", "write"},
         step = "row" => Asked(r).kind \in {"surface", "arrive"}
  PROVE  BookingInv'
<1>1. callPc' \in [Callers -> CallSteps] /\ callPc'[r] = step /\ \A u \in Callers : u # r => callPc'[u] = callPc[u]
  BY DEF BookingInv, Shaped, BookGoto
<1>2. \A u \in Callers : Asked(u)' = Asked(u) /\ Target(u)' = Target(u)
  BY DEF Asked, Target
<1>3. Shaped'
  BY <1>1 DEF BookingInv, Shaped
<1>4. CalendarHolds'
  BY DEF BookingInv, CalendarHolds
<1>5. ~Patched(r)'
  <2>1. CASE patch' = patch /\ callPc[r] # "commit"
    BY <2>1 DEF BookingInv, WritesHold, AsWritten, Patched
  <2>2. CASE patch' = [patch EXCEPT ![r] = Unwritten]
    BY <2>2 DEF BookingInv, Shaped, Patched
  <2>3. QED
    BY <2>1, <2>2
<1>6. \A u \in Callers : u # r => patch'[u] = patch[u]
  BY DEF BookingInv, Shaped
<1>7. WritesHold'
  <2>1. SUFFICES ASSUME NEW u \in Callers, Patched(u)'
                 PROVE  /\ AsWritten(u)'
                        /\ \A a \in Appointments : a # Asked(u)'.appt => ~Clash(appt'[a], New(u)')
                        /\ \A v \in Callers : (v # u /\ Patched(v)') =>
                             Asked(v)'.appt # Asked(u)'.appt /\ ~Clash(New(v)', New(u)')
    BY DEF WritesHold
  <2>2. u # r
    BY <1>5, <2>1
  <2>3. Patched(u) /\ New(u)' = New(u)
    BY <1>2, <1>6, <2>1, <2>2 DEF Patched, New
  <2>4. AsWritten(u)'
    BY <1>1, <1>2, <2>2, <2>3 DEF BookingInv, WritesHold, AsWritten, SamePlace
  <2>5. ASSUME NEW v \in Callers, v # u, Patched(v)'
        PROVE  Asked(v)'.appt # Asked(u)'.appt /\ ~Clash(New(v)', New(u)')
    <3>1. v # r
      BY <1>5, <2>5
    <3>2. Patched(v) /\ New(v)' = New(v)
      BY <1>2, <1>6, <2>5, <3>1 DEF Patched, New
    <3>3. QED
      BY <1>2, <2>3, <2>5, <3>2 DEF BookingInv, WritesHold
  <2>6. \A a \in Appointments : a # Asked(u)'.appt => ~Clash(appt'[a], New(u)')
    BY <1>2, <2>3 DEF BookingInv, WritesHold
  <2>7. QED
    BY <2>4, <2>5, <2>6
<1>8. ReadsHold'
  <2>1. SUFFICES ASSUME NEW u \in Callers
                 PROVE  /\ found'[u].status = Booked => Target(u).status # "none"
                        /\ Asked(u).kind \in Lookers /\ callPc'[u] \in {"lock", "check", "write", "row", "commit"} =>
                             found'[u].status = Booked
                        /\ Asked(u).kind \in Inserts /\ callPc'[u] # "done" => Target(u).status = "none"
                        /\ Asked(u).kind = "surface" => callPc'[u] \notin {"lock", "check", "write"}
                        /\ callPc'[u] = "row" => Asked(u).kind \in {"surface", "arrive"}
    BY <1>2 DEF ReadsHold
  <2>2. CASE u = r
    BY <1>1, <2>2 DEF BookingInv, ReadsHold, Booked
  <2>3. CASE u # r
    BY <1>1, <2>3 DEF BookingInv, ReadsHold
  <2>4. QED
    BY <2>2, <2>3
<1>9. QED
  BY <1>3, <1>4, <1>7, <1>8 DEF BookingInv

LEMMA AsideSteps ==
  ASSUME BookingInv, NEW r \in Callers,
         Look(r) \/ TurnDown(r) \/ LockDay(r) \/ Check(r) \/ EnsureRow(r) \/ DropCall(r)
  PROVE  BookingInv'
<1>1. DOMAIN found = Callers /\ DOMAIN chosen = Callers /\ Asked(r).kind \in CallKinds
  BY CallsMade DEF BookingInv, Shaped
<1>2. CASE Look(r)
  <2>1. /\ call' = call /\ appt' = appt /\ patch' = patch /\ callPc[r] = "idle"
        /\ found' = [found EXCEPT ![r] = Target(r)]
    BY <1>2 DEF Look
  <2>2. PICK step \in CallSteps : /\ BookGoto(r, step)
                                  /\ Asked(r).kind \in Lookers => Target(r).status = Booked
                                  /\ Asked(r).kind = "surface" => step = "row"
                                  /\ step = "row" => Asked(r).kind \in {"surface", "arrive"}
    BY <1>2 DEF Look, CallSteps, Lookers, Booked
  <2>3. DOMAIN found' = Callers /\ found'[r] = Target(r) /\ \A u \in Callers : u # r => found'[u] = found[u]
    BY <1>1, <2>1
  <2>5. DOMAIN chosen' = Callers /\ \A u \in Callers : u # r => chosen'[u] = chosen[u]
    BY <1>1, <1>2 DEF Look
  <2>4. QED
    BY <2>1, <2>2, <2>3, <2>5, Aside
<1>3. CASE TurnDown(r)
  <2>1. /\ call' = call /\ appt' = appt /\ patch' = patch /\ found' = found /\ chosen' = chosen
        /\ callPc[r] = "idle" /\ BookGoto(r, "refused")
    BY <1>3 DEF TurnDown
  <2>2. QED
    BY <1>1, <2>1, Aside DEF CallSteps, Over
<1>4. CASE LockDay(r)
  <2>1. /\ call' = call /\ appt' = appt /\ patch' = patch /\ found' = found /\ chosen' = chosen
        /\ callPc[r] = "lock" /\ BookGoto(r, "check")
    BY <1>4 DEF LockDay
  <2>2. (Asked(r).kind \in Lookers => found[r].status = Booked) /\ Asked(r).kind # "surface"
    BY <2>1 DEF BookingInv, ReadsHold
  <2>3. QED
    BY <1>1, <2>1, <2>2, Aside DEF CallSteps
<1>5. CASE Check(r)
  <2>1. /\ call' = call /\ appt' = appt /\ patch' = patch /\ found' = found /\ chosen' = chosen
        /\ callPc[r] = "check"
    BY <1>5 DEF Check
  <2>2. BookGoto(r, "write") \/ BookGoto(r, "refused")
    BY <1>5 DEF Check, GiveUp
  <2>3. (Asked(r).kind \in Lookers => found[r].status = Booked) /\ Asked(r).kind # "surface"
    BY <2>1 DEF BookingInv, ReadsHold
  <2>4. QED
    BY <1>1, <2>1, <2>2, <2>3, Aside DEF CallSteps, Over
<1>6. CASE EnsureRow(r)
  <2>1. /\ call' = call /\ appt' = appt /\ patch' = patch /\ found' = found /\ chosen' = chosen
        /\ callPc[r] = "row"
    BY <1>6 DEF EnsureRow
  <2>2. BookGoto(r, IF Asked(r).kind = "arrive" THEN "write" ELSE "commit")
    BY <1>6 DEF EnsureRow
  <2>3. Asked(r).kind \in Lookers => found[r].status = Booked
    BY <2>1 DEF BookingInv, ReadsHold
  <2>4. QED
    BY <1>1, <2>1, <2>2, <2>3, Aside DEF CallSteps
<1>7. CASE DropCall(r)
  <2>1. /\ call' = call /\ appt' = appt /\ patch' = [patch EXCEPT ![r] = Unwritten] /\ found' = found
        /\ chosen' = chosen /\ callPc[r] # "done" /\ BookGoto(r, "dropped")
    BY <1>7 DEF DropCall, Settle
  <2>2. QED
    BY <1>1, <2>1, Aside DEF CallSteps, Over
<1>8. QED
  BY <1>2, <1>3, <1>4, <1>5, <1>6, <1>7

\* The write: what it waits for and what bars it is what WritesHold needs.
LEMMA WriteHolds ==
  ASSUME BookingInv, NEW r \in Callers, WriteAppt(r)
  PROVE  BookingInv'
<1> DEFINE new == Onto(Columns(r), Target(r))
           others == Callers \ {r}
           barred == \E a \in Appointments \ {Asked(r).appt} : Clash(appt[a], new)
<1>1. /\ call' = call /\ appt' = appt /\ found' = found /\ chosen' = chosen /\ callPc[r] = "write" /\ RowFree(r)
      /\ ~\E u \in others : Patched(u) /\ (Clash(Onto(patch[u], Target(u)), new) \/ Clash(Target(u), new))
      /\ IF barred \/ Moot(r)
         THEN GiveUp(r, IF barred THEN "barred" ELSE "refused") /\ patch' = patch
         ELSE patch' = [patch EXCEPT ![r] = Columns(r)] /\ BookGoto(r, "commit")
  BY DEF WriteAppt
<1>2. /\ Shaped /\ DOMAIN found = Callers /\ DOMAIN patch = Callers /\ DOMAIN chosen = Callers
      /\ Asked(r).kind \in CallKinds /\ Asked(r).appt \in Appointments
  BY CallsMade DEF BookingInv, Shaped
<1>3. IsRow(Target(r)) /\ EndKept(Target(r))
  BY <1>2 DEF BookingInv, Shaped, CalendarHolds, Target, Asked
<1>4. CASE barred \/ Moot(r)
  <2>1. patch' = patch /\ (BookGoto(r, "barred") \/ BookGoto(r, "refused"))
    BY <1>1, <1>4 DEF GiveUp
  <2>2. QED
    BY <1>1, <1>2, <2>1, Aside DEF CallSteps, Over
<1>5. CASE ~(barred \/ Moot(r))
  <2>1. patch' = [patch EXCEPT ![r] = Columns(r)] /\ BookGoto(r, "commit")
    BY <1>1, <1>5
  <2>2. patch'[r] = Columns(r) /\ \A u \in Callers : u # r => patch'[u] = patch[u]
    BY <1>2, <2>1
  <2>3. callPc' \in [Callers -> CallSteps] /\ callPc'[r] = "commit" /\ \A u \in Callers : u # r => callPc'[u] = callPc[u]
    BY <2>1 DEF BookingInv, Shaped, BookGoto, CallSteps
  <2>4. \A u \in Callers : Asked(u)' = Asked(u) /\ Target(u)' = Target(u)
    BY <1>1 DEF Asked, Target
  <2>5. New(r)' = new /\ \A u \in Callers : u # r => New(u)' = New(u) /\ (Patched(u)' <=> Patched(u))
    BY <2>2, <2>4 DEF New, Patched
  <2>6. Shaped'
    BY <1>1, <2>1, <2>3 DEF BookingInv, Shaped
  <2>7. DOMAIN Columns(r) \subseteq Fields
    BY <1>2, ColumnsWritten DEF Fields
  <2>8. /\ IsRow(new)
        /\ \A f \in Fields : new[f] = IF f \in DOMAIN Columns(r) THEN Columns(r)[f] ELSE Target(r)[f]
    BY <1>3, <2>7, Updated
  <2>9. /\ EndKept(new)
        /\ Asked(r).kind = "move" =>
             new.status = Target(r).status /\ new.barber = chosen[r] /\ new.start = Asked(r).start
        /\ Asked(r).kind \notin {"move"} => new.status # "none"
        /\ Asked(r).kind \notin Inserts \cup {"move"} => SamePlace(new, Target(r))
        /\ Asked(r).kind \notin Ends /\ new.status \in Off => Asked(r).kind \in {"move", "surface"}
    <3>1. CASE Asked(r).kind \in Inserts
      BY <1>2, <2>8, <3>1, ColumnsWritten DEF Fields, EndKept, Booked, Inserts, Off
    <3>2. CASE Asked(r).kind = "move"
      BY <1>2, <2>8, <3>2, ColumnsWritten DEF Fields, EndKept, Inserts
    <3>3. CASE Asked(r).kind \in CallKinds \ (Inserts \cup {"move"})
      BY <1>2, <1>3, <2>8, <3>3, ColumnsWritten DEF Fields, EndKept, SamePlace, Off, Ends, CallKinds, Inserts
    <3>4. QED
      BY <1>2, <3>1, <3>2, <3>3
  <2>10. new.status # "none" /\ Asked(r).kind # "surface"
    <3>1. Asked(r).kind # "surface"
      BY <1>1 DEF BookingInv, ReadsHold
    <3>2. Asked(r).kind = "move" => Target(r).status # "none"
      BY <1>1 DEF BookingInv, ReadsHold, Lookers
    <3>3. QED
      BY <2>9, <3>1, <3>2
  <2>11. Asked(r).kind \in {"cancel", "clientCancel"} => Target(r).status = Booked
    BY <1>5 DEF Moot
  <2>12. AsWritten(r)'
    BY <1>1, <2>3, <2>4, <2>5, <2>8, <2>9, <2>10, <2>11 DEF AsWritten, SamePlace
  <2>13. \A a \in Appointments : a # Asked(r).appt => ~Clash(appt[a], new)
    BY <1>5
  <2>14. ASSUME NEW u \in Callers, u # r, Patched(u)
         PROVE  Asked(u).appt # Asked(r).appt /\ ~Clash(New(u), new) /\ ~Clash(new, New(u))
    <3>1. Asked(u).appt # Asked(r).appt
      BY <1>1, <2>14 DEF RowFree, Asked
    <3>2. ~Clash(New(u), new)
      BY <1>1, <2>14 DEF New
    <3>3. QED
      BY <3>1, <3>2, ClashEitherWay
  <2>15. WritesHold'
    <3>1. SUFFICES ASSUME NEW u \in Callers, Patched(u)'
                   PROVE  /\ AsWritten(u)'
                          /\ \A a \in Appointments : a # Asked(u).appt => ~Clash(appt[a], New(u)')
                          /\ \A v \in Callers : (v # u /\ Patched(v)') =>
                               Asked(v).appt # Asked(u).appt /\ ~Clash(New(v)', New(u)')
      BY <1>1, <2>4 DEF WritesHold
    <3> HIDE DEF new
    <3>2. CASE u = r
      BY <2>5, <2>12, <2>13, <2>14, <3>2
    <3>3. CASE u # r
      <4>1. Patched(u) /\ New(u)' = New(u)
        BY <2>5, <3>1, <3>3
      <4>2. AsWritten(u)'
        BY <1>1, <2>3, <2>4, <3>3, <4>1 DEF BookingInv, WritesHold, AsWritten, SamePlace
      <4>3. \A a \in Appointments : a # Asked(u).appt => ~Clash(appt[a], New(u)')
        BY <4>1 DEF BookingInv, WritesHold
      <4>4. ASSUME NEW v \in Callers, v # u, Patched(v)'
            PROVE  Asked(v).appt # Asked(u).appt /\ ~Clash(New(v)', New(u)')
        <5>1. CASE v = r
          BY <2>5, <2>14, <3>3, <4>1, <5>1
        <5>2. CASE v # r
          BY <2>5, <4>1, <4>4, <5>2 DEF BookingInv, WritesHold
        <5>3. QED
          BY <5>1, <5>2
      <4>5. QED
        BY <4>2, <4>3, <4>4
    <3>4. QED
      BY <3>2, <3>3
  <2>16. CalendarHolds'
    BY <1>1 DEF BookingInv, CalendarHolds
  <2>17. ReadsHold'
    <3>1. SUFFICES ASSUME NEW u \in Callers
                   PROVE  /\ found[u].status = Booked => Target(u).status # "none"
                          /\ Asked(u).kind \in Lookers /\ callPc'[u] \in {"lock", "check", "write", "row", "commit"} =>
                               found[u].status = Booked
                          /\ Asked(u).kind \in Inserts /\ callPc'[u] # "done" => Target(u).status = "none"
                          /\ Asked(u).kind = "surface" => callPc'[u] \notin {"lock", "check", "write"}
                          /\ callPc'[u] = "row" => Asked(u).kind \in {"surface", "arrive"}
      BY <1>1, <2>4 DEF ReadsHold
    <3>2. CASE u = r
      BY <1>1, <2>3, <3>2 DEF BookingInv, ReadsHold
    <3>3. CASE u # r
      BY <2>3, <3>3 DEF BookingInv, ReadsHold
    <3>4. QED
      BY <3>2, <3>3
  <2>18. QED
    BY <2>6, <2>15, <2>16, <2>17 DEF BookingInv
<1>6. QED
  BY <1>4, <1>5

\* What a commit makes of the appointments.
LEMMA Committed ==
  ASSUME BookingInv, NEW r \in Callers, CommitCall(r)
  PROVE  /\ call' = call /\ found' = found /\ chosen' = chosen /\ patch' = [patch EXCEPT ![r] = Unwritten]
         /\ callPc[r] = "commit" /\ BookGoto(r, "done")
         /\ appt' = [a \in Appointments |-> appt'[a]]
         /\ \A a \in Appointments : appt'[a] = IF a = Asked(r).appt THEN New(r) ELSE appt[a]
         /\ ~Patched(r) => New(r) = Target(r)
<1>1. /\ call' = call /\ found' = found /\ chosen' = chosen /\ patch' = [patch EXCEPT ![r] = Unwritten]
      /\ callPc[r] = "commit" /\ BookGoto(r, "done")
      /\ appt' = [appt EXCEPT ![Asked(r).appt] = Onto(patch[r], appt[Asked(r).appt])]
  BY DEF CommitCall, Settle
<1>2. Asked(r).appt \in Appointments /\ DOMAIN appt = Appointments /\ IsRow(Target(r))
  BY CallsMade DEF BookingInv, Shaped, Target, Asked
<1>3. New(r) = Onto(patch[r], appt[Asked(r).appt])
  BY DEF New, Target, Asked
<1>4. ~Patched(r) => New(r) = Target(r)
  BY <1>2, NotUpdated DEF Patched, New
<1>5. QED
  BY <1>1, <1>2, <1>3, <1>4

LEMMA CommitHolds ==
  ASSUME BookingInv, NEW r \in Callers, CommitCall(r)
  PROVE  BookingInv'
<1>0. /\ call' = call /\ found' = found /\ chosen' = chosen /\ patch' = [patch EXCEPT ![r] = Unwritten]
      /\ callPc[r] = "commit" /\ BookGoto(r, "done")
      /\ appt' = [a \in Appointments |-> appt'[a]]
      /\ \A a \in Appointments : appt'[a] = IF a = Asked(r).appt THEN New(r) ELSE appt[a]
      /\ ~Patched(r) => New(r) = Target(r)
  BY Committed
<1>1. /\ Shaped /\ DOMAIN patch = Callers /\ Asked(r).kind \in CallKinds /\ Asked(r).appt \in Appointments
      /\ \A u \in Callers : Asked(u).appt \in Appointments
  BY CallsMade DEF BookingInv, Shaped
<1>2. callPc' \in [Callers -> CallSteps] /\ callPc'[r] = "done" /\ \A u \in Callers : u # r => callPc'[u] = callPc[u]
  BY <1>0 DEF BookingInv, Shaped, BookGoto, CallSteps, Over
<1>3. patch'[r] = Unwritten /\ \A u \in Callers : u # r => patch'[u] = patch[u]
  BY <1>0, <1>1
<1>4. \A u \in Callers : Asked(u)' = Asked(u) /\ Target(u)' = IF Asked(u).appt = Asked(r).appt THEN New(r) ELSE Target(u)
  BY <1>0, <1>1 DEF Asked, Target
<1>5. IsRow(New(r)) /\ EndKept(New(r))
  <2>1. IsRow(Target(r)) /\ EndKept(Target(r))
    BY <1>1 DEF BookingInv, Shaped, CalendarHolds, Target, Asked
  <2>2. QED
    BY <1>0, <2>1 DEF BookingInv, WritesHold, AsWritten
<1>6. \A a \in Appointments : a # Asked(r).appt => ~Clash(appt[a], New(r)) /\ ~Clash(New(r), appt[a])
  <2>1. SUFFICES ASSUME NEW a \in Appointments, a # Asked(r).appt PROVE ~Clash(appt[a], New(r))
    BY ClashEitherWay
  <2>2. CASE Patched(r)
    BY <2>1, <2>2 DEF BookingInv, WritesHold
  <2>3. CASE ~Patched(r)
    BY <1>0, <1>1, <2>1, <2>3 DEF BookingInv, CalendarHolds, Target, Asked
  <2>4. QED
    BY <2>2, <2>3
<1>7. Shaped'
  <2>1. \A a \in Appointments : IsRow(appt[a])'
    BY <1>0, <1>5 DEF BookingInv, Shaped, IsRow
  <2>2. QED
    BY <1>0, <1>2, <2>1 DEF BookingInv, Shaped
<1>8. CalendarHolds'
  <2>1. \A a \in Appointments : EndKept(appt'[a])
    BY <1>0, <1>5 DEF BookingInv, CalendarHolds
  <2>2. \A a, b \in Appointments : a # b => ~Clash(appt'[a], appt'[b])
    BY <1>0, <1>6 DEF BookingInv, CalendarHolds
  <2>3. QED
    BY <2>1, <2>2 DEF CalendarHolds, EndKept
<1>9. ASSUME NEW u \in Callers, Patched(u)'
      PROVE  u # r /\ Patched(u)
  BY <1>3, <1>9 DEF Patched
\* What the others have written is of other appointments than one that was written.
<1>10. ASSUME NEW u \in Callers, Patched(u)'
       PROVE  Target(u)' = Target(u) /\ New(u)' = New(u)
  <2>1. u # r /\ Patched(u)
    BY <1>9, <1>10
  <2>2. Target(u)' = Target(u)
    <3>1. CASE Patched(r)
      BY <1>4, <2>1, <3>1 DEF BookingInv, WritesHold
    <3>2. CASE ~Patched(r)
      BY <1>0, <1>4, <3>2 DEF Target, Asked
    <3>3. QED
      BY <3>1, <3>2
  <2>3. QED
    BY <1>3, <2>1, <2>2 DEF New
<1>11. WritesHold'
  <2>1. SUFFICES ASSUME NEW u \in Callers, Patched(u)'
                 PROVE  /\ AsWritten(u)'
                        /\ \A a \in Appointments : a # Asked(u).appt => ~Clash(appt'[a], New(u)')
                        /\ \A v \in Callers : (v # u /\ Patched(v)') =>
                             Asked(v).appt # Asked(u).appt /\ ~Clash(New(v)', New(u)')
    BY <1>4 DEF WritesHold
  <2>2. u # r /\ Patched(u) /\ New(u)' = New(u) /\ Target(u)' = Target(u)
    BY <1>9, <1>10, <2>1
  <2>3. AsWritten(u)'
    BY <1>0, <1>2, <1>4, <2>2 DEF BookingInv, WritesHold, AsWritten, SamePlace
  <2>4. ASSUME NEW a \in Appointments, a # Asked(u).appt
        PROVE  ~Clash(appt'[a], New(u))
    <3>1. CASE a = Asked(r).appt /\ Patched(r)
      BY <1>0, <2>2, <3>1 DEF BookingInv, WritesHold
    <3>2. CASE a # Asked(r).appt \/ ~Patched(r)
      <4>1. appt'[a] = appt[a]
        BY <1>0, <3>2 DEF Target, Asked
      <4>2. QED
        BY <2>2, <2>4, <4>1 DEF BookingInv, WritesHold
    <3>3. QED
      BY <3>1, <3>2
  <2>5. ASSUME NEW v \in Callers, v # u, Patched(v)'
        PROVE  Asked(v).appt # Asked(u).appt /\ ~Clash(New(v)', New(u)')
    <3>1. Patched(v) /\ New(v)' = New(v)
      BY <1>9, <1>10, <2>5
    <3>2. QED
      BY <2>2, <2>5, <3>1 DEF BookingInv, WritesHold
  <2>6. QED
    BY <2>2, <2>3, <2>4, <2>5
\* A commit never brings an appointment back to where it was not made yet, and makes no other's.
<1>12. New(r).status = "none" => Target(r).status = "none"
  BY <1>0 DEF BookingInv, WritesHold, AsWritten
<1>13. ASSUME NEW u \in Callers, u # r, Asked(u).kind \in Inserts, callPc[u] # "done", Asked(u).appt = Asked(r).appt
       PROVE  New(r).status = "none"
  <2>1. Target(r).status = "none" /\ Asked(r).kind \notin Inserts
    BY <1>1, <1>13, CallsMade DEF BookingInv, ReadsHold, Target, Asked
  <2>2. ~Patched(r)
    <3>1. SUFFICES ASSUME Patched(r) PROVE FALSE
      OBVIOUS
    <3>2. AsWritten(r)
      BY <3>1 DEF BookingInv, WritesHold
    <3>3. Asked(r).kind \in {"cancel", "clientCancel"} => FALSE
      BY <2>1, <3>2 DEF AsWritten, Booked
    <3>4. Asked(r).kind \in Lookers => FALSE
      BY <1>0, <2>1 DEF BookingInv, ReadsHold
    <3>5. QED
      BY <1>1, <2>1, <3>3, <3>4 DEF CallKinds, Lookers
  <2>3. QED
    BY <1>0, <2>1, <2>2
<1>14. ReadsHold'
  <2>1. SUFFICES ASSUME NEW u \in Callers
                 PROVE  /\ found[u].status = Booked => Target(u)'.status # "none"
                        /\ Asked(u).kind \in Lookers /\ callPc'[u] \in {"lock", "check", "write", "row", "commit"} =>
                             found[u].status = Booked
                        /\ Asked(u).kind \in Inserts /\ callPc'[u] # "done" => Target(u)'.status = "none"
                        /\ Asked(u).kind = "surface" => callPc'[u] \notin {"lock", "check", "write"}
                        /\ callPc'[u] = "row" => Asked(u).kind \in {"surface", "arrive"}
    BY <1>0, <1>4 DEF ReadsHold
  <2>2. found[u].status = Booked => Target(u)'.status # "none"
    <3>1. CASE Asked(u).appt = Asked(r).appt
      BY <1>4, <1>12, <3>1 DEF BookingInv, ReadsHold, Target, Asked
    <3>2. CASE Asked(u).appt # Asked(r).appt
      BY <1>4, <3>2 DEF BookingInv, ReadsHold
    <3>3. QED
      BY <3>1, <3>2
  <2>3. CASE u = r
    BY <1>2, <2>2, <2>3
  <2>4. CASE u # r
    <3>1. Asked(u).kind \in Inserts /\ callPc[u] # "done" => Target(u)'.status = "none"
      BY <1>4, <1>13, <2>4 DEF BookingInv, ReadsHold
    <3>2. QED
      BY <1>2, <2>2, <2>4, <3>1 DEF BookingInv, ReadsHold
  <2>5. QED
    BY <2>3, <2>4
<1>15. QED
  BY <1>7, <1>8, <1>11, <1>14 DEF BookingInv

LEMMA BookingStep == BookingInv /\ [BookingNext]_bookingVars => BookingInv'
<1> SUFFICES ASSUME BookingInv, [BookingNext]_bookingVars PROVE BookingInv'
  OBVIOUS
<1>1. ASSUME NEW r \in Callers, Answer(r) \/ DropCall(r)
      PROVE  BookingInv'
  BY <1>1, AsideSteps, WriteHolds, CommitHolds DEF Answer
<1>2. ASSUME /\ call' = call /\ callPc' = callPc /\ found' = found /\ chosen' = chosen /\ patch' = patch /\ appt' = appt
      PROVE  BookingInv'
  BY <1>2 DEF BookingInv, Shaped, IsRow, CalendarHolds, WritesHold, AsWritten, ReadsHold, New, Target, Asked, Patched,
              SamePlace
<1>3. ASSUME NEW s \in Services, NEW n \in Durations, EditService(s, n)
      PROVE  BookingInv'
  BY <1>2, <1>3 DEF EditService
<1>4. CASE UNCHANGED bookingVars
  BY <1>2, <1>4 DEF bookingVars
<1>5. QED
  BY <1>1, <1>3, <1>4 DEF BookingNext

\* The rows of the calendar have their columns and clash with none, and what a request is about to write is
\* what it checked (book, create, reschedule, cancel, check-in).
THEOREM CalendarKept == BookingSpec => []BookingInv
  BY BookingStarts, BookingStep, PTL DEF BookingSpec

\* No barber has two booked appointments at one time (the exclusion constraint of migration 0046 and the
\* five paths of booking.service.ts, appointments.service.ts and clients.service.ts that write the
\* columns it compares), for any number of requests.
THEOREM NobodyTwice == BookingSpec => []NoDoubleBooking
<1>1. BookingInv => NoDoubleBooking
  <2> SUFFICES ASSUME BookingInv, NEW a \in Appointments, NEW b \in Appointments, a # b,
                      appt[a].status = Booked, appt[b].status = Booked, appt[a].barber = appt[b].barber
               PROVE  ~Overlap(appt[a].start, appt[a].length, appt[b].start, appt[b].length)
    BY DEF NoDoubleBooking
  <2>1. appt[a].end = appt[a].start + appt[a].length /\ appt[b].end = appt[b].start + appt[b].length
    BY DEF BookingInv, CalendarHolds, EndKept
  <2>2. ~Clash(appt[a], appt[b])
    BY DEF BookingInv, CalendarHolds
  <2>3. QED
    BY <2>1, <2>2 DEF Clash, Overlap
<1>2. QED
  BY <1>1, CalendarKept, PTL

\* An appointment leaves a final status only by a check-in or a no-show that had read it as booked
\* (checkInAppointment and noShow of appointments.service.ts update without looking again): a
\* move that comes late changes its place and not its status, and the cancels look again.
THEOREM FinalStays == BookingSpec => FinalUnlessReadBefore
<1>1. ASSUME BookingInv, [BookingNext]_bookingVars, NEW a \in Appointments,
             appt[a].status \in {"cancelled", "no_show", "checked_in"}, appt'[a].status # appt[a].status
      PROVE  \E r \in Callers : /\ callPc[r] = "commit" /\ callPc'[r] = "done"
                               /\ call[r].appt = a /\ call[r].kind \in {"arrive", "noShow"}
                               /\ found[r].status = Booked
  <2>1. PICK r \in Callers : CommitCall(r)
    BY <1>1 DEF BookingNext, Answer, Look, TurnDown, LockDay, Check, WriteAppt, EnsureRow, DropCall, EditService,
                bookingVars
  <2>2. /\ callPc[r] = "commit" /\ BookGoto(r, "done") /\ Patched(r) /\ a = Asked(r).appt /\ appt'[a] = New(r)
    BY <1>1, <2>1, Committed DEF Target, Asked
  <2>3. callPc'[r] = "done"
    BY <1>1, <2>2 DEF BookingInv, Shaped, BookGoto
  <2>4. AsWritten(r) /\ Asked(r).kind \in CallKinds /\ appt[a] = Target(r)
    BY <1>1, <2>2, CallsMade DEF BookingInv, WritesHold, Target, Asked
  <2>5. Asked(r).kind \notin Inserts
    BY <1>1, <2>2, <2>4 DEF BookingInv, ReadsHold
  <2>6. Asked(r).kind \notin {"move", "surface", "cancel", "clientCancel"}
    BY <1>1, <2>2, <2>4 DEF AsWritten, Booked
  <2>7. Asked(r).kind \in {"arrive", "noShow"}
    BY <2>4, <2>5, <2>6 DEF CallKinds
  <2>8. found[r].status = Booked
    BY <1>1, <2>2, <2>7 DEF BookingInv, ReadsHold, Lookers
  <2>9. QED
    BY <2>2, <2>3, <2>7, <2>8 DEF Asked
<1>2. BookingInv /\ [BookingNext]_bookingVars =>
        [\A a \in Appointments :
           (appt[a].status \in {"cancelled", "no_show", "checked_in"} /\ appt'[a].status # appt[a].status)
             => \E r \in Callers : /\ callPc[r] = "commit" /\ callPc'[r] = "done"
                                   /\ call[r].appt = a /\ call[r].kind \in {"arrive", "noShow"}
                                   /\ found[r].status = Booked]_bookingVars
  BY <1>1
<1>3. QED
  BY <1>2, CalendarKept, PTL DEF BookingSpec, FinalUnlessReadBefore

-----------------------------------------------------------------------------
(* The line: the floor rows that were made of appointments.                *)

RowFields == {"by", "appt", "barber", "start", "present"}
Comers    == {"surface", "arrive"}

\* A move that gave its appointment the place that it has.
MovedTo(r, a) ==
  /\ Asked(r).appt = a /\ Asked(r).kind = "move" /\ callPc[r] = "done"
  /\ appt[a].barber = chosen[r] /\ appt[a].start = Asked(r).start

\* A request changes a row of its own appointment, made by itself or by a request that is done.
LinkHolds(r, to) ==
  \/ to = Nobody
  \/ /\ to \in Callers /\ Asked(to).appt = Asked(r).appt
     /\ callPc[to] = "done" \/ (to = r /\ Asked(r).kind \in Comers)

LinksHold ==
  /\ DOMAIN linked = Callers
  /\ \A r \in Callers : LinkHolds(r, linked[r])
  /\ \A r \in newRow : r \in Callers /\ Asked(r).kind \in Comers /\ callPc[r] \in {"write", "commit"}

RowsHold ==
  \A f \in floor :
    /\ DOMAIN f = RowFields /\ f.by \in Callers /\ callPc[f.by] = "done"
    /\ f.appt = Asked(f.by).appt /\ found[f.by].status = Booked

\* No row is left of those that a cancellation or a no-show has found.
GoneHolds ==
  \A r \in Callers : callPc[r] = "done" /\ Asked(r).kind \in {"cancel", "noShow"} =>
    \A f \in floor : f.by # linked[r]

\* What has become of an appointment since a request read it as booked.
SinceHolds ==
  \A u \in Callers : found[u].status = Booked =>
    /\ Target(u).status \in Off =>
         \E r \in Callers : Asked(r).appt = Asked(u).appt /\ callPc[r] = "done" /\ Asked(r).kind \in Ends
    /\ SamePlace(Target(u), found[u]) \/ \E r \in Callers : MovedTo(r, Asked(u).appt)

PlacesHold ==
  \A f \in floor :
    SamePlace(f, appt[f.appt]) \/ \E r \in Callers : MovedTo(r, f.appt) /\ linked[r] # f.by

\* A move that is about to commit has written the appointment.
MovesWritten ==
  \A r \in Callers : callPc[r] = "commit" /\ Asked(r).kind = "move" => Patched(r)

LineInv == LinksHold /\ RowsHold /\ GoneHolds /\ SinceHolds /\ PlacesHold /\ MovesWritten

LEMMA FirstRowFound ==
  ASSUME RowsHold, NEW r \in Callers
  PROVE  LinkHolds(r, FirstRow(Asked(r).appt))
<1> DEFINE a == Asked(r).appt
<1>1. CASE LiveRows(a) = {}
  BY <1>1 DEF FirstRow, LinkHolds
<1>2. CASE LiveRows(a) # {}
  <2> DEFINE f == CHOOSE x \in LiveRows(a) : TRUE
  <2>1. f \in LiveRows(a)
    BY <1>2
  <2>2. FirstRow(a) = f.by
    BY <1>2 DEF FirstRow
  <2> HIDE DEF f
  <2>3. f \in floor /\ f.appt = a
    BY <2>1 DEF LiveRows
  <2>4. QED
    BY <2>2, <2>3 DEF RowsHold, LinkHolds
<1>3. QED
  BY <1>1, <1>2

LEMMA LineStarts == BookingInit => LineInv
<1> SUFFICES ASSUME BookingInit PROVE LineInv
  OBVIOUS
<1>1. floor = {} /\ newRow = {} /\ linked = [r \in Callers |-> Nobody] /\ call \in [Callers -> Call] /\ appt \in Calendars
  BY BookingConstants DEF BookingInit
<1>2. \A u \in Callers : found[u] = Target(u)
  BY DEF BookingInit, Target
<1>3. SinceHolds
  BY <1>2 DEF SinceHolds, SamePlace, Off, Booked
<1>4. QED
  BY <1>1, <1>3 DEF LineInv, LinksHold, LinkHolds, RowsHold, GoneHolds, PlacesHold, MovesWritten, BookingInit

\* A step of a request that is not its last leaves the calendar and the line alone.
LEMMA LineAside ==
  ASSUME BookingInv, LineInv, NEW r \in Callers, NEW step \in CallSteps, BookGoto(r, step),
         callPc[r] # "done", step # "done", call' = call, appt' = appt, floor' = floor,
         DOMAIN linked' = Callers,
         \A u \in Callers : u # r => found'[u] = found[u] /\ chosen'[u] = chosen[u] /\ linked'[u] = linked[u],
         found'[r] = found[r] \/ found'[r] = Target(r),
         LinkHolds(r, linked'[r]),
         newRow' \subseteq newRow \cup {r},
         \A u \in Callers : u # r => patch'[u] = patch[u],
         step = "commit" /\ Asked(r).kind = "move" => Patched(r)',
         r \in newRow' => Asked(r).kind \in Comers /\ step \in {"write", "commit"}
  PROVE  LineInv'
<1>1. callPc' \in [Callers -> CallSteps] /\ callPc'[r] = step /\ \A u \in Callers : u # r => callPc'[u] = callPc[u]
  BY DEF BookingInv, Shaped, BookGoto
<1>2. \A u \in Callers : Asked(u)' = Asked(u) /\ Target(u)' = Target(u)
  BY DEF Asked, Target
<1>3. \A u \in Callers : callPc[u] = "done" => callPc'[u] = "done" /\ u # r
  BY <1>1
<1>4. \A u \in Callers : callPc'[u] = "done" => callPc[u] = "done" /\ u # r
  BY <1>1
<1>5. LinksHold'
  <2>1. ASSUME NEW u \in Callers
        PROVE  LinkHolds(u, linked[u])'
    <3>1. LinkHolds(u, linked'[u])
      BY DEF LineInv, LinksHold
    <3>2. QED
      BY <1>2, <1>3, <3>1 DEF LinkHolds
  <2>2. ASSUME NEW u \in newRow'
        PROVE  u \in Callers /\ Asked(u)'.kind \in Comers /\ callPc'[u] \in {"write", "commit"}
    <3>1. CASE u = r
      BY <1>1, <1>2, <2>2, <3>1
    <3>2. CASE u # r
      BY <1>1, <1>2, <2>2, <3>2 DEF LineInv, LinksHold
    <3>3. QED
      BY <3>1, <3>2
  <2>3. QED
    BY <2>1, <2>2 DEF LinksHold, Asked
<1>6. RowsHold'
  BY <1>2, <1>3 DEF LineInv, RowsHold
<1>7. GoneHolds'
  BY <1>2, <1>4 DEF LineInv, GoneHolds
<1>8. \A u \in Callers, a \in Appointments : MovedTo(u, a) => MovedTo(u, a)'
  BY <1>2, <1>3 DEF MovedTo
<1>9. \A u \in Callers : Asked(u).appt \in Appointments
  BY CallsMade DEF BookingInv
<1>10. SinceHolds'
  <2>1. SUFFICES ASSUME NEW u \in Callers, found'[u].status = Booked
                 PROVE  /\ Target(u).status \in Off =>
                             \E v \in Callers : Asked(v).appt = Asked(u).appt /\ callPc'[v] = "done" /\ Asked(v).kind \in Ends
                        /\ SamePlace(Target(u), found'[u]) \/ \E v \in Callers : MovedTo(v, Asked(u).appt)'
    BY <1>2 DEF SinceHolds, SamePlace
  <2>2. CASE found'[u] = found[u]
    <3>1. Target(u).status \in Off =>
            \E v \in Callers : Asked(v).appt = Asked(u).appt /\ callPc[v] = "done" /\ Asked(v).kind \in Ends
      BY <2>1, <2>2 DEF LineInv, SinceHolds
    <3>2. SamePlace(Target(u), found[u]) \/ \E v \in Callers : MovedTo(v, Asked(u).appt)
      BY <2>1, <2>2 DEF LineInv, SinceHolds
    <3>3. Target(u).status \in Off =>
            \E v \in Callers : Asked(v).appt = Asked(u).appt /\ callPc'[v] = "done" /\ Asked(v).kind \in Ends
      BY <1>3, <3>1
    <3>4. SamePlace(Target(u), found'[u]) \/ \E v \in Callers : MovedTo(v, Asked(u).appt)'
      <4>1. CASE SamePlace(Target(u), found[u])
        BY <2>2, <4>1
      <4>2. CASE \E v \in Callers : MovedTo(v, Asked(u).appt)
        <5>1. PICK v \in Callers : MovedTo(v, Asked(u).appt)
          BY <4>2
        <5>2. MovedTo(v, Asked(u).appt)'
          BY <1>2, <1>3, <5>1 DEF MovedTo
        <5>3. QED
          BY <5>2
      <4>3. QED
        BY <3>2, <4>1, <4>2
    <3>5. QED
      BY <3>3, <3>4
  <2>3. CASE found'[u] = Target(u)
    BY <2>1, <2>3 DEF SamePlace, Off, Booked
  <2>4. QED
    BY <2>2, <2>3
<1>11. PlacesHold'
  <2>1. SUFFICES ASSUME NEW f \in floor
                 PROVE  SamePlace(f, appt[f.appt]) \/ \E v \in Callers : MovedTo(v, f.appt)' /\ linked'[v] # f.by
    BY DEF PlacesHold, SamePlace
  <2>2. f.appt \in Appointments
    BY <1>9 DEF LineInv, RowsHold
  <2>3. CASE SamePlace(f, appt[f.appt])
    BY <2>3
  <2>4. CASE \E v \in Callers : MovedTo(v, f.appt) /\ linked[v] # f.by
    <3>1. PICK v \in Callers : MovedTo(v, f.appt) /\ linked[v] # f.by
      BY <2>4
    <3>2. linked'[v] = linked[v]
      BY <1>3, <3>1 DEF MovedTo
    <3>3. QED
      BY <1>8, <2>2, <3>1, <3>2
  <2>5. QED
    BY <2>3, <2>4 DEF LineInv, PlacesHold
<1>12. MovesWritten'
  <2>1. SUFFICES ASSUME NEW u \in Callers, callPc'[u] = "commit", Asked(u).kind = "move"
                 PROVE  Patched(u)'
    BY <1>2 DEF MovesWritten
  <2>2. CASE u = r
    BY <1>1, <2>1, <2>2
  <2>3. CASE u # r
    BY <1>1, <2>1, <2>3 DEF LineInv, MovesWritten, Patched
  <2>4. QED
    BY <2>2, <2>3
<1>13. QED
  BY <1>5, <1>6, <1>7, <1>10, <1>11, <1>12 DEF LineInv

LEMMA LineAsideSteps ==
  ASSUME BookingInv, LineInv, NEW r \in Callers,
         Look(r) \/ TurnDown(r) \/ LockDay(r) \/ Check(r) \/ WriteAppt(r) \/ EnsureRow(r) \/ DropCall(r)
  PROVE  LineInv'
<1>1. /\ DOMAIN found = Callers /\ DOMAIN patch = Callers /\ DOMAIN chosen = Callers /\ DOMAIN linked = Callers
      /\ Asked(r).kind \in CallKinds /\ Asked(r).appt \in Appointments
  BY CallsMade DEF BookingInv, Shaped, LineInv, LinksHold
<1>2. LinkHolds(r, linked[r]) /\ LinkHolds(r, Nobody) /\ LinkHolds(r, FirstRow(Asked(r).appt))
  BY FirstRowFound DEF LineInv, LinksHold, LinkHolds
<1>4. r \in newRow => Asked(r).kind \in Comers /\ callPc[r] \in {"write", "commit"}
  BY DEF LineInv, LinksHold
<1>5. CASE Look(r)
  <2>1. /\ call' = call /\ appt' = appt /\ floor' = floor /\ newRow' = newRow /\ patch' = patch /\ callPc[r] = "idle"
        /\ found' = [found EXCEPT ![r] = Target(r)]
        /\ linked' = [linked EXCEPT ![r] = IF Asked(r).kind \in {"move", "noShow"}
                                           THEN FirstRow(Asked(r).appt) ELSE Nobody]
    BY <1>5 DEF Look
  <2>2. PICK step \in CallSteps : BookGoto(r, step) /\ step \notin {"commit", "done"}
    BY <1>5 DEF Look, CallSteps
  <2>3. \A u \in Callers : u # r => chosen'[u] = chosen[u]
    BY <1>1, <1>5 DEF Look
  <2>4. /\ \A u \in Callers : u # r => found'[u] = found[u] /\ linked'[u] = linked[u]
        /\ found'[r] = Target(r) /\ linked'[r] \in {Nobody, FirstRow(Asked(r).appt)} /\ DOMAIN linked' = Callers
    BY <1>1, <2>1
  <2>5. r \notin newRow'
    BY <1>4, <2>1
  <2>6. LinkHolds(r, linked'[r])
    BY <1>2, <2>4
  <2>7. step \in CallSteps /\ step # "commit" /\ step # "done" /\ callPc[r] # "done" /\ patch' = patch
    BY <2>1, <2>2
  <2>8. newRow' \subseteq newRow \cup {r}
    BY <2>1
  <2>9. QED
    BY <2>1, <2>2, <2>3, <2>4, <2>5, <2>6, <2>7, <2>8, LineAside
<1>6. CASE TurnDown(r)
  <2>1. /\ call' = call /\ appt' = appt /\ floor' = floor /\ newRow' = newRow /\ patch' = patch /\ callPc[r] = "idle"
        /\ found' = found /\ chosen' = chosen /\ linked' = linked /\ BookGoto(r, "refused")
    BY <1>6 DEF TurnDown
  <2>2. QED
    BY <1>1, <1>2, <1>4, <2>1, LineAside DEF CallSteps, Over
<1>7. CASE LockDay(r)
  <2>1. /\ call' = call /\ appt' = appt /\ floor' = floor /\ newRow' = newRow /\ patch' = patch /\ callPc[r] = "lock"
        /\ found' = found /\ chosen' = chosen /\ linked' = linked /\ BookGoto(r, "check")
    BY <1>7 DEF LockDay
  <2>2. QED
    BY <1>1, <1>2, <1>4, <2>1, LineAside DEF CallSteps, Over
<1>8. CASE Check(r)
  <2>1. /\ call' = call /\ appt' = appt /\ floor' = floor /\ newRow' \subseteq newRow /\ patch' = patch /\ callPc[r] = "check"
        /\ found' = found /\ chosen' = chosen /\ linked' = linked
        /\ BookGoto(r, "write") \/ BookGoto(r, "refused")
    BY <1>8 DEF Check, GiveUp
  <2>2. QED
    BY <1>1, <1>2, <1>4, <2>1, LineAside DEF CallSteps, Over
<1>9. CASE WriteAppt(r)
  <2>1. /\ call' = call /\ appt' = appt /\ floor' = floor /\ callPc[r] = "write"
        /\ found' = found /\ chosen' = chosen
    BY <1>9 DEF WriteAppt
  <2>2. \/ /\ BookGoto(r, "barred") \/ BookGoto(r, "refused")
           /\ newRow' = newRow \ {r} /\ linked' = linked /\ patch' = patch
        \/ /\ BookGoto(r, "commit") /\ newRow' = newRow /\ patch' = [patch EXCEPT ![r] = Columns(r)]
           /\ linked' = [linked EXCEPT ![r] = IF Asked(r).kind # "cancel" THEN @
                                              ELSE IF Present(Asked(r).appt) THEN Nobody
                                              ELSE FirstRow(Asked(r).appt)]
    BY <1>9 DEF WriteAppt, GiveUp
  <2>3. CASE /\ BookGoto(r, "barred") \/ BookGoto(r, "refused")
             /\ newRow' = newRow \ {r} /\ linked' = linked /\ patch' = patch
    BY <1>1, <1>2, <2>1, <2>3, LineAside DEF CallSteps, Over
  <2>4. CASE /\ BookGoto(r, "commit") /\ newRow' = newRow /\ patch' = [patch EXCEPT ![r] = Columns(r)]
             /\ linked' = [linked EXCEPT ![r] = IF Asked(r).kind # "cancel" THEN @
                                                ELSE IF Present(Asked(r).appt) THEN Nobody
                                                ELSE FirstRow(Asked(r).appt)]
    <3>1. /\ DOMAIN linked' = Callers /\ \A u \in Callers : u # r => linked'[u] = linked[u]
          /\ linked'[r] \in {linked[r], Nobody, FirstRow(Asked(r).appt)}
      BY <1>1, <2>4
    <3>2. LinkHolds(r, linked'[r])
      BY <1>2, <3>1
    <3>3. Asked(r).kind = "move" => DOMAIN Columns(r) # {}
      BY ColumnsWritten, <1>1 DEF Fields
    <3>4. Asked(r).kind = "move" => Patched(r)'
      BY <1>1, <2>4, <3>3 DEF Patched, Unwritten
    <3>5. \A u \in Callers : u # r => patch'[u] = patch[u]
      BY <1>1, <2>4
    <3>6. QED
      BY <1>1, <1>4, <2>1, <2>4, <3>1, <3>2, <3>4, <3>5, LineAside DEF CallSteps
  <2>5. QED
    BY <2>2, <2>3, <2>4
<1>10. CASE EnsureRow(r)
  <2>1. /\ call' = call /\ appt' = appt /\ floor' = floor /\ patch' = patch /\ callPc[r] = "row"
        /\ found' = found /\ chosen' = chosen /\ newRow' \subseteq newRow \cup {r}
        /\ BookGoto(r, IF Asked(r).kind = "arrive" THEN "write" ELSE "commit")
        /\ linked' = [linked EXCEPT ![r] = IF LiveRows(Asked(r).appt) = {} THEN r ELSE FirstRow(Asked(r).appt)]
    BY <1>10 DEF EnsureRow
  <2>2. Asked(r).kind \in Comers
    BY <2>1 DEF BookingInv, ReadsHold, Comers
  <2>3. /\ DOMAIN linked' = Callers /\ \A u \in Callers : u # r => linked'[u] = linked[u]
        /\ linked'[r] \in {r, FirstRow(Asked(r).appt)}
    BY <1>1, <2>1
  <2>4. LinkHolds(r, linked'[r])
    BY <1>2, <2>2, <2>3 DEF LinkHolds
  <2>5. Asked(r).kind # "move"
    BY <2>2 DEF Comers
  <2>6. PICK step \in {"write", "commit"} : BookGoto(r, step)
    BY <2>1
  <2>7. step \in CallSteps /\ step # "done" /\ callPc[r] # "done"
    BY <2>1 DEF CallSteps
  <2>8. QED
    BY <1>1, <2>1, <2>2, <2>3, <2>4, <2>5, <2>6, <2>7, LineAside
<1>11. CASE DropCall(r)
  <2>1. /\ call' = call /\ appt' = appt /\ floor' = floor /\ newRow' = newRow \ {r}
        /\ patch' = [patch EXCEPT ![r] = Unwritten]
        /\ found' = found /\ chosen' = chosen /\ linked' = linked
        /\ callPc[r] # "done" /\ BookGoto(r, "dropped")
    BY <1>11 DEF DropCall, Settle
  <2>2. QED
    BY <1>1, <1>2, <2>1, LineAside DEF CallSteps, Over
<1>12. QED
  BY <1>5, <1>6, <1>7, <1>8, <1>9, <1>10, <1>11

\* MovedTo after a step, which changes no request.
MovedNow(r, a) ==
  /\ Asked(r).appt = a /\ Asked(r).kind = "move" /\ callPc'[r] = "done"
  /\ appt'[a].barber = chosen'[r] /\ appt'[a].start = Asked(r).start

\* What a commit makes of the row of the appointment's place.
LEMMA LineCommit ==
  ASSUME BookingInv, LineInv, NEW r \in Callers, CommitCall(r)
  PROVE  LineInv'
<1> DEFINE ap == Asked(r).appt
           made == {[by |-> r, appt |-> ap, barber |-> found[r].barber,
                     start |-> found[r].start, present |-> FALSE] : u \in newRow \cap {r}}
<1>1. /\ call' = call /\ found' = found /\ chosen' = chosen /\ patch' = [patch EXCEPT ![r] = Unwritten]
      /\ callPc[r] = "commit" /\ BookGoto(r, "done")
      /\ appt' = [a \in Appointments |-> appt'[a]]
      /\ \A a \in Appointments : appt'[a] = IF a = ap THEN New(r) ELSE appt[a]
      /\ ~Patched(r) => New(r) = Target(r)
  BY Committed
<1>2. linked' = linked /\ newRow' = newRow \ {r} /\ floor' = Rows(r)
  BY DEF CommitCall, Settle
<1>3. /\ DOMAIN patch = Callers /\ Asked(r).kind \in CallKinds /\ ap \in Appointments
      /\ \A u \in Callers : Asked(u).appt \in Appointments
  BY CallsMade DEF BookingInv, Shaped
<1>4. callPc'[r] = "done" /\ \A u \in Callers : u # r => callPc'[u] = callPc[u]
  BY <1>1 DEF BookingInv, Shaped, BookGoto
<1>5. \A u \in Callers : Asked(u)' = Asked(u) /\ Target(u)' = IF Asked(u).appt = ap THEN New(r) ELSE Target(u)
  BY <1>1, <1>3 DEF Asked, Target
<1>6. \A u \in Callers : callPc[u] = "done" => callPc'[u] = "done" /\ u # r
  BY <1>1, <1>4
<1>7. \A u \in Callers : callPc'[u] = "done" /\ u # r => callPc[u] = "done"
  BY <1>4
\* The place of the appointment changes only with a move, or when it is made.
<1>8. \/ SamePlace(New(r), Target(r))
      \/ Asked(r).kind = "move" /\ New(r).barber = chosen[r] /\ New(r).start = Asked(r).start
      \/ Asked(r).kind \in Inserts /\ Target(r).status = "none"
  <2>1. CASE Patched(r)
    BY <1>1, <2>1 DEF BookingInv, WritesHold, AsWritten, ReadsHold
  <2>2. CASE ~Patched(r)
    BY <1>1, <2>2 DEF SamePlace
  <2>3. QED
    BY <2>1, <2>2
<1>9. Asked(r).kind = "move" => New(r).barber = chosen[r] /\ New(r).start = Asked(r).start
  BY <1>1 DEF LineInv, MovesWritten, BookingInv, WritesHold, AsWritten
<1>10. New(r).status \in Off => Target(r).status \in Off \/ Asked(r).kind \in Ends
  BY <1>1 DEF BookingInv, WritesHold, AsWritten
<1>11. \A a \in Appointments, u \in Callers :
         MovedTo(u, a) /\ (a = ap => SamePlace(New(r), Target(r))) => MovedNow(u, a)
  <2>1. SUFFICES ASSUME NEW a \in Appointments, NEW u \in Callers, MovedTo(u, a),
                        a = ap => SamePlace(New(r), Target(r))
                 PROVE  MovedNow(u, a)
    OBVIOUS
  <2>2. appt'[a].barber = appt[a].barber /\ appt'[a].start = appt[a].start
    BY <1>1, <2>1 DEF SamePlace, Target, Asked
  <2>3. QED
    BY <1>1, <1>5, <1>6, <2>1, <2>2 DEF MovedTo, MovedNow
<1>12. Asked(r).kind = "move" => MovedNow(r, ap)
  BY <1>1, <1>3, <1>4, <1>5, <1>9 DEF MovedNow
\* The rows there are after it.
<1>13. ASSUME NEW f \in floor'
       PROVE  \/ \E g \in floor : /\ f = g /\ g.by # linked[r]
              \/ \E g \in floor : /\ g.by = linked[r] /\ f \in Changed(r, g)
              \/ \E g \in made : f = g \/ f \in Changed(r, g)
  BY <1>2, <1>13 DEF Rows
<1>14. ASSUME NEW g, DOMAIN g = RowFields, NEW f \in Changed(r, g)
       PROVE  /\ DOMAIN f = RowFields /\ f.by = g.by /\ f.appt = g.appt
              /\ Asked(r).kind \notin {"cancel", "noShow"}
              /\ Asked(r).kind # "move" => SamePlace(f, g)
              /\ Asked(r).kind = "move" => f.barber = chosen[r] /\ f.start = Asked(r).start
  <2>1. CASE Asked(r).kind = "arrive"
    BY <1>14, <2>1 DEF Changed, RowFields, SamePlace
  <2>2. CASE Asked(r).kind = "move"
    BY <1>14, <2>2 DEF Changed, RowFields, SamePlace
  <2>3. CASE Asked(r).kind \in {"cancel", "noShow"}
    BY <1>14, <2>3 DEF Changed
  <2>4. CASE Asked(r).kind \notin {"arrive", "move", "cancel", "noShow"}
    BY <1>14, <2>4 DEF Changed, SamePlace
  <2>5. QED
    BY <2>1, <2>2, <2>3, <2>4
<1>15. \A g \in floor : /\ DOMAIN g = RowFields /\ g.by \in Callers /\ callPc[g.by] = "done"
                        /\ g.appt = Asked(g.by).appt /\ found[g.by].status = Booked /\ g.by # r
  BY <1>1 DEF LineInv, RowsHold
<1>16. \A g \in made : /\ DOMAIN g = RowFields /\ g.by = r /\ g.appt = ap /\ SamePlace(g, found[r])
                       /\ r \in newRow /\ Asked(r).kind \in Comers /\ found[r].status = Booked
  <2>1. r \in newRow => Asked(r).kind \in Comers
    BY DEF LineInv, LinksHold
  <2>2. Asked(r).kind \in Comers => found[r].status = Booked
    BY <1>1 DEF BookingInv, ReadsHold, Comers, Lookers
  <2>3. QED
    BY <2>1, <2>2 DEF RowFields, SamePlace
<1> HIDE DEF made
<1>17. LinksHold'
  <2>1. ASSUME NEW u \in Callers
        PROVE  LinkHolds(u, linked[u])'
    <3>1. LinkHolds(u, linked[u])
      BY DEF LineInv, LinksHold
    <3>2. QED
      BY <1>2, <1>5, <1>6, <3>1 DEF LinkHolds
  <2>2. ASSUME NEW u \in newRow'
        PROVE  u \in Callers /\ Asked(u)'.kind \in Comers /\ callPc'[u] \in {"write", "commit"}
    BY <1>2, <1>4, <1>5, <2>2 DEF LineInv, LinksHold
  <2>3. DOMAIN linked' = Callers
    BY <1>2 DEF LineInv, LinksHold
  <2>4. QED
    BY <2>1, <2>2, <2>3 DEF LinksHold
<1>18. RowsHold'
  <2>1. SUFFICES ASSUME NEW f \in floor'
                 PROVE  /\ DOMAIN f = RowFields /\ f.by \in Callers /\ callPc'[f.by] = "done"
                        /\ f.appt = Asked(f.by).appt /\ found[f.by].status = Booked
    BY <1>1, <1>5 DEF RowsHold
  <2>2. \E g \in floor \cup made : DOMAIN f = RowFields /\ f.by = g.by /\ f.appt = g.appt
    BY <1>13, <1>14, <1>15, <1>16
  <2>3. QED
    BY <1>4, <1>6, <1>15, <1>16, <2>2
<1>19. GoneHolds'
  <2>1. SUFFICES ASSUME NEW u \in Callers, callPc'[u] = "done", Asked(u).kind \in {"cancel", "noShow"},
                        NEW f \in floor', f.by = linked[u]
                 PROVE  FALSE
    BY <1>2, <1>5 DEF GoneHolds
  <2>2. CASE u = r
    <3>1. Asked(r).kind \notin Comers /\ made = {}
      BY <1>16, <2>1, <2>2 DEF Comers
    <3>2. QED
      BY <1>13, <1>14, <1>15, <2>1, <2>2, <3>1
  <2>3. CASE u # r
    <3>1. callPc[u] = "done"
      BY <1>7, <2>1, <2>3
    <3>2. \E g \in floor \cup made : f.by = g.by
      BY <1>13, <1>14, <1>15, <1>16
    <3>3. linked[u] # r
      <4>1. LinkHolds(u, linked[u])
        BY DEF LineInv, LinksHold
      <4>2. QED
        BY <1>1, <2>3, <4>1, BookingConstants DEF LinkHolds
    <3>4. QED
      BY <1>16, <2>1, <3>1, <3>2, <3>3 DEF LineInv, GoneHolds
  <2>4. QED
    BY <2>2, <2>3
<1>20. ASSUME NEW u \in Callers, found[u].status = Booked, Asked(u).appt = ap
       PROVE  Asked(r).kind \notin Inserts /\ Target(u) = Target(r)
  <2>1. Target(u) = Target(r)
    BY <1>20 DEF Target, Asked
  <2>2. QED
    BY <1>1, <1>20, <2>1 DEF BookingInv, ReadsHold
<1>21. SinceHolds'
  <2>1. SUFFICES ASSUME NEW u \in Callers, found[u].status = Booked
                 PROVE  /\ Target(u)'.status \in Off =>
                             \E v \in Callers : Asked(v).appt = Asked(u).appt /\ callPc'[v] = "done" /\ Asked(v).kind \in Ends
                        /\ SamePlace(Target(u)', found[u]) \/ \E v \in Callers : MovedNow(v, Asked(u).appt)
    BY <1>1, <1>5 DEF SinceHolds, SamePlace, MovedTo, MovedNow
  <2>2. Target(u).status \in Off =>
          \E v \in Callers : Asked(v).appt = Asked(u).appt /\ callPc'[v] = "done" /\ Asked(v).kind \in Ends
    BY <1>6, <2>1 DEF LineInv, SinceHolds
  <2>3. SamePlace(Target(u), found[u]) \/ \E v \in Callers : MovedTo(v, Asked(u).appt)
    BY <2>1 DEF LineInv, SinceHolds
  <2>4. Asked(u).appt \in Appointments
    BY <1>3
  <2>5. CASE Asked(u).appt # ap
    <3>1. Target(u)' = Target(u)
      BY <1>5, <2>5
    <3>2. SamePlace(Target(u), found[u]) \/ \E v \in Callers : MovedNow(v, Asked(u).appt)
      BY <1>11, <2>3, <2>4, <2>5
    <3>3. QED
      BY <2>2, <3>1, <3>2
  <2>6. CASE Asked(u).appt = ap
    <3>1. Target(u)' = New(r) /\ Target(u) = Target(r) /\ Asked(r).kind \notin Inserts
      BY <1>5, <1>20, <2>1, <2>6
    <3>2. New(r).status \in Off =>
            \E v \in Callers : Asked(v).appt = Asked(u).appt /\ callPc'[v] = "done" /\ Asked(v).kind \in Ends
      BY <1>4, <1>10, <2>2, <2>6, <3>1
    <3>3. CASE SamePlace(New(r), Target(r))
      <4>1. \A v \in Callers : MovedTo(v, Asked(u).appt) => MovedNow(v, Asked(u).appt)
        BY <1>11, <2>4, <3>3
      <4>2. SamePlace(New(r), found[u]) \/ \E v \in Callers : MovedNow(v, Asked(u).appt)
        BY <2>3, <3>1, <3>3, <4>1 DEF SamePlace
      <4>3. QED
        BY <3>1, <3>2, <4>2
    <3>4. CASE Asked(r).kind = "move"
      BY <1>12, <2>6, <3>1, <3>2, <3>4
    <3>5. QED
      BY <1>8, <3>1, <3>3, <3>4
  <2>7. QED
    BY <2>5, <2>6
<1>22. PlacesHold'
  <2>1. SUFFICES ASSUME NEW f \in floor'
                 PROVE  SamePlace(f, appt'[f.appt]) \/ \E v \in Callers : MovedNow(v, f.appt) /\ linked[v] # f.by
    BY <1>1, <1>2, <1>5 DEF PlacesHold, SamePlace, MovedTo, MovedNow
  <2>2. ASSUME NEW g \in floor, SamePlace(f, g), f.by = g.by, f.appt = g.appt,
               g.appt = ap => SamePlace(New(r), Target(r))
        PROVE  SamePlace(f, appt'[f.appt]) \/ \E v \in Callers : MovedNow(v, f.appt) /\ linked[v] # f.by
    <3>1. g.appt \in Appointments
      BY <1>3, <1>15
    <3>2. SamePlace(appt'[g.appt], appt[g.appt])
      BY <1>1, <2>2, <3>1 DEF SamePlace, Target, Asked
    <3>3. SamePlace(g, appt[g.appt]) \/ \E v \in Callers : MovedTo(v, g.appt) /\ linked[v] # g.by
      BY DEF LineInv, PlacesHold
    <3>4. CASE SamePlace(g, appt[g.appt])
      BY <2>2, <3>2, <3>4 DEF SamePlace
    <3>5. CASE \E v \in Callers : MovedTo(v, g.appt) /\ linked[v] # g.by
      BY <1>11, <2>2, <3>1, <3>5
    <3>6. QED
      BY <3>3, <3>4, <3>5
  <2>3. ASSUME NEW g \in floor, g.appt = ap
        PROVE  Asked(r).kind = "move" \/ SamePlace(New(r), Target(r))
    BY <1>8, <1>15, <1>20, <2>3
  <2>4. CASE \E g \in floor : f = g /\ g.by # linked[r]
    <3>1. PICK g \in floor : f = g /\ g.by # linked[r]
      BY <2>4
    <3>2. CASE g.appt = ap => SamePlace(New(r), Target(r))
      BY <2>2, <3>1, <3>2 DEF SamePlace
    <3>3. CASE g.appt = ap /\ Asked(r).kind = "move"
      BY <1>12, <3>1, <3>3
    <3>4. QED
      BY <2>3, <3>2, <3>3
  <2>5. CASE \E g \in floor : g.by = linked[r] /\ f \in Changed(r, g)
    <3>1. PICK g \in floor : g.by = linked[r] /\ f \in Changed(r, g)
      BY <2>5
    <3>2. g.appt = ap
      <4>1. LinkHolds(r, g.by) /\ g.by \in Callers /\ g.appt = Asked(g.by).appt
        BY <1>15, <3>1 DEF LineInv, LinksHold
      <4>2. QED
        BY <4>1, BookingConstants DEF LinkHolds
    <3>3. CASE Asked(r).kind = "move"
      <4>1. f.barber = chosen[r] /\ f.start = Asked(r).start /\ f.appt = ap
        BY <1>14, <1>15, <3>1, <3>2, <3>3
      <4>2. SamePlace(f, New(r))
        BY <1>9, <3>3, <4>1 DEF SamePlace
      <4>3. QED
        BY <1>1, <1>3, <4>1, <4>2
    <3>4. CASE Asked(r).kind # "move"
      <4>1. SamePlace(f, g) /\ f.by = g.by /\ f.appt = g.appt
        BY <1>14, <1>15, <3>1, <3>4
      <4>2. QED
        BY <2>2, <2>3, <3>2, <3>4, <4>1
    <3>5. QED
      BY <3>3, <3>4
  <2>6. CASE \E g \in made : f = g \/ f \in Changed(r, g)
    <3>1. PICK g \in made : f = g \/ f \in Changed(r, g)
      BY <2>6
    <3>2. Asked(r).kind \in Comers /\ found[r].status = Booked
      BY <1>16
    <3>3. Asked(r).kind \notin Inserts /\ Asked(r).kind # "move"
      BY <3>2 DEF Comers, Inserts
    <3>4. f.by = r /\ f.appt = ap /\ SamePlace(f, found[r])
      BY <1>14, <1>16, <3>1, <3>3 DEF SamePlace
    <3>5. SamePlace(New(r), Target(r))
      BY <1>8, <3>3
    <3>6. SamePlace(Target(r), found[r]) \/ \E v \in Callers : MovedTo(v, ap)
      BY <3>2 DEF LineInv, SinceHolds
    <3>7. CASE SamePlace(Target(r), found[r])
      <4>1. SamePlace(f, New(r))
        BY <3>4, <3>5, <3>7 DEF SamePlace
      <4>2. QED
        BY <1>1, <1>3, <3>4, <4>1
    <3>8. CASE \E v \in Callers : MovedTo(v, ap)
      <4>1. PICK v \in Callers : MovedTo(v, ap)
        BY <3>8
      <4>2. MovedNow(v, ap)
        BY <1>3, <1>11, <3>5, <4>1
      <4>3. linked[v] # r
        <5>1. LinkHolds(v, linked[v]) /\ callPc[v] = "done"
          BY <4>1 DEF LineInv, LinksHold, MovedTo
        <5>2. QED
          BY <1>1, <5>1, BookingConstants DEF LinkHolds
      <4>4. QED
        BY <3>4, <4>2, <4>3
    <3>9. QED
      BY <3>6, <3>7, <3>8
  <2>7. QED
    BY <1>13, <2>4, <2>5, <2>6
<1>23. MovesWritten'
  BY <1>1, <1>3, <1>4, <1>5 DEF LineInv, MovesWritten, Patched
<1>24. QED
  BY <1>17, <1>18, <1>19, <1>21, <1>22, <1>23 DEF LineInv

LEMMA LineStep == BookingInv /\ LineInv /\ [BookingNext]_bookingVars => LineInv'
<1> SUFFICES ASSUME BookingInv, LineInv, [BookingNext]_bookingVars PROVE LineInv'
  OBVIOUS
<1>1. ASSUME NEW r \in Callers, Answer(r) \/ DropCall(r)
      PROVE  LineInv'
  BY <1>1, LineAsideSteps, LineCommit DEF Answer
<1>2. ASSUME /\ call' = call /\ callPc' = callPc /\ found' = found /\ chosen' = chosen /\ patch' = patch /\ appt' = appt
             /\ linked' = linked /\ newRow' = newRow /\ floor' = floor
      PROVE  LineInv'
  BY <1>2 DEF LineInv, LinksHold, LinkHolds, RowsHold, GoneHolds, SinceHolds, PlacesHold, MovesWritten, MovedTo, Target,
              Asked, Patched, SamePlace
<1>3. ASSUME NEW s \in Services, NEW n \in Durations, EditService(s, n)
      PROVE  LineInv'
  BY <1>2, <1>3 DEF EditService
<1>4. CASE UNCHANGED bookingVars
  BY <1>2, <1>4 DEF bookingVars
<1>5. QED
  BY <1>1, <1>3, <1>4 DEF BookingNext

\* The line is what the calendar says but for requests that missed each other (the rows that
\* ensureQueueEntryForAppointment of queue.service.ts makes, and what moves, cancellations and no-shows do to
\* the one they found): a row that is out of place names a move that gave the appointment its place and did
\* not find the row, and a row of an appointment that is off names the request that ended it and left the row.
THEOREM LineFollows == BookingSpec => []FloorFollowsCalendar
<1>1. BookingInv /\ LineInv => FloorFollowsCalendar
  <2> SUFFICES ASSUME BookingInv, LineInv, NEW f \in floor
               PROVE  /\ (appt[f.appt].status \in {"cancelled", "no_show"} /\ ~f.present) =>
                           \E r \in Callers :
                             /\ call[r].appt = f.appt /\ callPc[r] = "done"
                             /\ \/ call[r].kind = "clientCancel"
                                \/ call[r].kind \in {"cancel", "noShow"} /\ linked[r] # f.by
                      /\ (f.barber # appt[f.appt].barber \/ f.start # appt[f.appt].start) =>
                           \E r \in Callers :
                             /\ call[r].appt = f.appt /\ call[r].kind = "move" /\ callPc[r] = "done"
                             /\ appt[f.appt].barber = chosen[r] /\ appt[f.appt].start = call[r].start
                             /\ linked[r] # f.by
    BY DEF FloorFollowsCalendar, CancelledLeavesTheLine, RowShowsTheAppointment
  <2>1. f.by \in Callers /\ f.appt = Asked(f.by).appt /\ found[f.by].status = Booked
    BY DEF LineInv, RowsHold
  <2>2. ASSUME appt[f.appt].status \in Off
        PROVE  \E r \in Callers :
                 /\ call[r].appt = f.appt /\ callPc[r] = "done"
                 /\ \/ call[r].kind = "clientCancel"
                    \/ call[r].kind \in {"cancel", "noShow"} /\ linked[r] # f.by
    <3>1. Target(f.by).status \in Off
      BY <2>1, <2>2 DEF Target, Asked
    <3>2. PICK r \in Callers : Asked(r).appt = f.appt /\ callPc[r] = "done" /\ Asked(r).kind \in Ends
      BY <2>1, <3>1 DEF LineInv, SinceHolds
    <3>3. Asked(r).kind \in {"cancel", "noShow"} => linked[r] # f.by
      BY <3>2 DEF LineInv, GoneHolds
    <3>4. QED
      BY <3>2, <3>3 DEF Ends, Asked
  <2>3. ASSUME f.barber # appt[f.appt].barber \/ f.start # appt[f.appt].start
        PROVE  \E r \in Callers :
                 /\ call[r].appt = f.appt /\ call[r].kind = "move" /\ callPc[r] = "done"
                 /\ appt[f.appt].barber = chosen[r] /\ appt[f.appt].start = call[r].start
                 /\ linked[r] # f.by
    BY <2>3 DEF LineInv, PlacesHold, SamePlace, MovedTo, Asked
  <2>4. QED
    BY <2>2, <2>3 DEF Off
<1>2. BookingSpec => []LineInv
  BY CalendarKept, LineStarts, LineStep, PTL DEF BookingSpec
<1>3. QED
  BY <1>1, <1>2, CalendarKept, PTL

\* The columns of an appointment by their kinds, and what a request has written of it.
ColumnKinds(p) ==
  /\ DOMAIN p \subseteq Fields
  /\ "status" \in DOMAIN p => p["status"] \in ApptStatuses
  /\ "barber" \in DOMAIN p => p["barber"] \in Barbers
  /\ "start" \in DOMAIN p => p["start"] \in Nat
  /\ "end" \in DOMAIN p => p["end"] \in Nat
  /\ "services" \in DOMAIN p => p["services"] \in SUBSET Services
  /\ "length" \in DOMAIN p => p["length"] \in Nat

\* A request that writes a barber has settled on one.
CallSettled(r) ==
  callPc[r] = "lock" \/ (Asked(r).kind \in Inserts \cup {"move"} /\ callPc[r] \in {"check", "write", "commit"})
    => chosen[r] \in Barbers

CallersHold ==
  /\ found \in [Callers -> Appt] /\ chosen \in [Callers -> Barbers \cup {AnyBarber}]
  /\ latched \in [Callers -> {NoLatch} \cup (Barbers \X Nat)]
  /\ newRow \subseteq Callers /\ linked \in [Callers -> Callers \cup {Nobody}]
  /\ \A r \in Callers : ColumnKinds(patch[r]) /\ CallSettled(r)
TablesHold ==
  appt \in [Appointments -> Appt] /\ minutes \in [Services -> Nat] /\ floor \subseteq FloorRow

BookingTyped == CallersHold /\ TablesHold

\* What a request asks for.
LEMMA AskedIs ==
  ASSUME Shaped, NEW r \in Callers
  PROVE  /\ Asked(r).kind \in CallKinds /\ Asked(r).appt \in Appointments
         /\ Asked(r).barber \in Barbers \cup {AnyBarber} /\ Asked(r).start \in Nat
         /\ Asked(r).services \in SUBSET Services
         /\ Asked(r).kind = "create" => Asked(r).barber \in Barbers
<1>1. call[r] \in Call
  BY DEF Shaped
<1>2. call[r].kind = "create" => call[r].barber # AnyBarber
  BY BookingConstants DEF Shaped, Inserts
<1> QED BY <1>1, <1>2 DEF Call, Asked

LEMMA MinutesAre ==
  ASSUME TablesHold, NEW S \in SUBSET Services
  PROVE  Minutes(S) \in Nat
<1>1. IsFiniteSet(S) /\ \A s \in S : minutes[s] \in Nat
  BY BookingConstants, FS_Subset DEF TablesHold
<1> QED BY <1>1, SumTypes DEF Minutes

\* A row that some columns of are written stays one.
LEMMA WrittenRow ==
  ASSUME NEW p, NEW x \in Appt, ColumnKinds(p)
  PROVE  Onto(p, x) \in Appt
<1>1. /\ x = [f \in Fields |-> x[f]] /\ x["status"] \in ApptStatuses /\ x["barber"] \in Barbers
      /\ x["start"] \in Nat /\ x["end"] \in Nat /\ x["services"] \in SUBSET Services /\ x["length"] \in Nat
  BY DEF Appt, Fields
<1> DEFINE y == [f \in Fields |-> IF f \in DOMAIN p THEN p[f] ELSE x[f]]
<1>2. Onto(p, x) = y
  BY <1>1 DEF Onto, ColumnKinds
<1>3. /\ y["status"] \in ApptStatuses /\ y["barber"] \in Barbers /\ y["start"] \in Nat
      /\ y["end"] \in Nat /\ y["services"] \in SUBSET Services /\ y["length"] \in Nat
  BY <1>1 DEF ColumnKinds, Fields
<1>4. y = [status |-> y["status"], barber |-> y["barber"], start |-> y["start"], end |-> y["end"],
           services |-> y["services"], length |-> y["length"]]
  BY DEF Fields
<1> HIDE DEF y
<1>5. y \in Appt
  BY <1>3, <1>4 DEF Appt
<1> QED BY <1>2, <1>5

LEMMA ColumnsKinds ==
  ASSUME Shaped, BookingTyped, NEW r \in Callers, callPc[r] = "write"
  PROVE  ColumnKinds(Columns(r))
<1> DEFINE t == Asked(r).start
           S == Asked(r).services
           m == Minutes(S)
           place == [barber |-> chosen[r], start |-> t, end |-> t + m, services |-> S, length |-> m]
<1>1. t \in Nat /\ S \in SUBSET Services /\ m \in Nat /\ t + m \in Nat /\ Asked(r).kind \in CallKinds
  BY AskedIs, MinutesAre DEF BookingTyped
<1>2. ASSUME Asked(r).kind \in Inserts \cup {"move"} PROVE ColumnKinds(place)
  <2>1. chosen[r] \in Barbers
    BY <1>2 DEF BookingTyped, CallersHold, CallSettled
  <2> QED BY <1>1, <2>1 DEF ColumnKinds, Fields
<1>3. Asked(r).kind \in Inserts => Columns(r) = Onto([status |-> Booked], place)
  BY DEF Columns, Inserts
<1>4. Asked(r).kind = "move" => Columns(r) = place
  BY DEF Columns, Inserts
<1>5. Asked(r).kind \in CallKinds \ (Inserts \cup {"move"}) =>
        \E s \in {"checked_in", "cancelled", "no_show"} : Columns(r) = [status |-> s]
  BY DEF Columns, Inserts, CallKinds
<1>6. DOMAIN place = {"barber", "start", "end", "services", "length"}
  OBVIOUS
<1> HIDE DEF place
<1>7. CASE Asked(r).kind \in Inserts
  BY <1>2, <1>3, <1>6, <1>7 DEF ColumnKinds, Onto, Fields, ApptStatuses
<1>8. CASE Asked(r).kind = "move"
  BY <1>2, <1>4, <1>8
<1>9. CASE Asked(r).kind \in CallKinds \ (Inserts \cup {"move"})
  BY <1>5, <1>9 DEF ColumnKinds, Fields, ApptStatuses
<1> QED BY <1>1, <1>7, <1>8, <1>9 DEF Inserts

LEMMA FirstIs ==
  ASSUME BookingTyped, NEW a
  PROVE  FirstRow(a) \in Callers \cup {Nobody}
<1>1. ASSUME LiveRows(a) # {} PROVE (CHOOSE f \in LiveRows(a) : TRUE) \in FloorRow
  BY <1>1 DEF LiveRows, BookingTyped, TablesHold
<1> QED BY <1>1 DEF FirstRow, FloorRow

\* A step of one request that writes nothing of the tables.
LEMMA CallerHolds ==
  ASSUME Shaped, BookingTyped, NEW r \in Callers, NEW step \in CallSteps, BookGoto(r, step), call' = call,
         TablesHold', found' \in [Callers -> Appt], chosen' \in [Callers -> Barbers \cup {AnyBarber}],
         latched' \in [Callers -> {NoLatch} \cup (Barbers \X Nat)], newRow' \subseteq Callers,
         linked' \in [Callers -> Callers \cup {Nobody}], \A u \in Callers : u # r => chosen'[u] = chosen[u],
         patch' = patch \/ patch' = [patch EXCEPT ![r] = Unwritten]
           \/ (patch' = [patch EXCEPT ![r] = Columns(r)] /\ callPc[r] = "write"),
         step = "lock" \/ (Asked(r).kind \in Inserts \cup {"move"} /\ step \in {"check", "write", "commit"})
           => chosen'[r] \in Barbers
  PROVE  BookingTyped'
<1>1. \A u \in Callers : ColumnKinds(patch'[u])
  <2>1. \A u \in Callers : ColumnKinds(patch[u])
    BY DEF BookingTyped, CallersHold
  <2>2. ColumnKinds(Unwritten)
    BY DEF ColumnKinds, Unwritten
  <2>3. callPc[r] = "write" => ColumnKinds(Columns(r))
    BY ColumnsKinds
  <2>4. DOMAIN patch = Callers
    BY DEF Shaped
  <2> QED BY <2>1, <2>2, <2>3, <2>4
<1>2. \A u \in Callers : CallSettled(u)'
  <2>1. callPc'[r] = step /\ \A u \in Callers : u # r => callPc'[u] = callPc[u]
    BY DEF Shaped, BookGoto
  <2>2. \A u \in Callers : Asked(u)' = Asked(u)
    BY DEF Asked
  <2> QED BY <2>1, <2>2 DEF BookingTyped, CallersHold, CallSettled
<1>3. \A u \in Callers : ColumnKinds(patch[u])'
  BY <1>1 DEF ColumnKinds
<1>4. CallersHold'
  BY <1>2, <1>3 DEF CallersHold
<1> QED BY <1>4 DEF BookingTyped

LEMMA TablesSame ==
  ASSUME BookingTyped, appt' = appt, minutes' = minutes, floor' = floor
  PROVE  TablesHold'
  BY DEF BookingTyped, TablesHold

LEMMA LookTypes ==
  ASSUME Shaped, BookingTyped, NEW r \in Callers, Look(r)
  PROVE  BookingTyped'
<1>1. /\ call' = call /\ patch' = patch /\ latched' = latched /\ newRow' = newRow /\ TablesHold'
  BY TablesSame DEF Look
<1>2. /\ Asked(r).appt \in Appointments /\ Target(r) \in Appt /\ Target(r).barber \in Barbers
      /\ Asked(r).barber \in Barbers \cup {AnyBarber}
      /\ Asked(r).kind = "create" => Asked(r).barber \in Barbers
  BY AskedIs DEF BookingTyped, TablesHold, Target, Asked, Appt
<1>3. found' \in [Callers -> Appt]
  BY <1>2 DEF Look, BookingTyped, CallersHold
<1>4. linked' \in [Callers -> Callers \cup {Nobody}]
  BY FirstIs DEF Look, BookingTyped, CallersHold
<1>5. chosen \in [Callers -> Barbers \cup {AnyBarber}] /\ latched \in [Callers -> {NoLatch} \cup (Barbers \X Nat)] /\ newRow \subseteq Callers
  BY DEF BookingTyped, CallersHold
<1>6. ASSUME NEW step \in CallSteps, BookGoto(r, step), NEW b \in Barbers, chosen' = [chosen EXCEPT ![r] = b]
      PROVE  BookingTyped'
  <2>1. chosen' \in [Callers -> Barbers \cup {AnyBarber}] /\ chosen'[r] = b /\ \A u \in Callers : u # r => chosen'[u] = chosen[u]
    BY <1>5, <1>6
  <2> QED BY <1>1, <1>3, <1>4, <1>5, <1>6, <2>1, CallerHolds
<1>7. ASSUME NEW step \in CallSteps, BookGoto(r, step), chosen' = chosen, step # "lock",
             Asked(r).kind \notin Inserts \cup {"move"}
      PROVE  BookingTyped'
  BY <1>1, <1>3, <1>4, <1>5, <1>7, CallerHolds
<1>8. {"lock", "write", "row"} \subseteq CallSteps
  BY DEF CallSteps
<1>9. CASE Asked(r).kind \in {"book", "rebook"}
  <2>1. PICK b \in Barbers : chosen' = [chosen EXCEPT ![r] = b]
    BY <1>9 DEF Look
  <2>2. BookGoto(r, "lock") \/ BookGoto(r, "write")
    BY <1>9 DEF Look
  <2> QED BY <1>6, <1>8, <2>1, <2>2
<1>10. CASE Asked(r).kind = "create"
  <2> DEFINE b == Asked(r).barber
  <2>1. BookGoto(r, "lock") /\ chosen' = [chosen EXCEPT ![r] = b]
    BY <1>10 DEF Look
  <2>2. b \in Barbers
    BY <1>2, <1>10
  <2> HIDE DEF b
  <2> QED BY <1>6, <1>8, <2>1, <2>2
<1>11. CASE Asked(r).kind = "move"
  <2> DEFINE b == IF Asked(r).barber = AnyBarber THEN Target(r).barber ELSE Asked(r).barber
  <2>1. BookGoto(r, "lock") /\ chosen' = [chosen EXCEPT ![r] = b]
    BY <1>11 DEF Look
  <2>2. b \in Barbers
    BY <1>2
  <2> HIDE DEF b
  <2> QED BY <1>6, <1>8, <2>1, <2>2
<1>12. CASE Asked(r).kind \in {"surface", "arrive", "noShow", "cancel", "clientCancel"}
  <2>1. (BookGoto(r, "row") \/ BookGoto(r, "write")) /\ chosen' = chosen
    BY <1>12 DEF Look
  <2> QED BY <1>7, <1>8, <1>12, <2>1 DEF Inserts
<1> QED BY <1>9, <1>10, <1>11, <1>12, AskedIs DEF CallKinds, Inserts

\* The steps after which a request is where a barber need not be settled, or was settled before.
LEMMA LatchTypes ==
  ASSUME Shaped, BookingTyped, NEW r \in Callers, BookingInv,
         TurnDown(r) \/ LockDay(r) \/ Check(r) \/ WriteAppt(r) \/ EnsureRow(r) \/ DropCall(r)
  PROVE  BookingTyped'
<1>1. TablesHold' /\ call' = call /\ found' = found /\ chosen' = chosen
  BY TablesSame DEF TurnDown, LockDay, Check, WriteAppt, EnsureRow, DropCall, Settle
<1>2. /\ found \in [Callers -> Appt] /\ chosen \in [Callers -> Barbers \cup {AnyBarber}]
      /\ latched \in [Callers -> {NoLatch} \cup (Barbers \X Nat)] /\ newRow \subseteq Callers
      /\ linked \in [Callers -> Callers \cup {Nobody}]
  BY DEF BookingTyped, CallersHold
<1>3. {"check", "write", "row", "commit", "refused", "barred", "dropped"} \subseteq CallSteps
  BY DEF CallSteps, Over
<1>4. callPc[r] = "lock" \/ (Asked(r).kind \in Inserts \cup {"move"} /\ callPc[r] \in {"check", "write", "commit"})
        => chosen[r] \in Barbers
  BY DEF BookingTyped, CallersHold, CallSettled
<1>5. CASE TurnDown(r)
  <2>1. BookGoto(r, "refused") /\ UNCHANGED <<patch, latched, newRow, linked>>
    BY <1>5 DEF TurnDown
  <2> QED BY <1>1, <1>2, <1>3, <2>1, CallerHolds
<1>6. CASE LockDay(r)
  <2>1. BookGoto(r, "check") /\ UNCHANGED <<patch, newRow, linked>> /\ callPc[r] = "lock"
        /\ latched' = [latched EXCEPT ![r] = <<chosen[r], DayOf(Asked(r).start)>>]
    BY <1>6 DEF LockDay
  <2>2. chosen[r] \in Barbers
    BY <1>4, <2>1
  <2>3. DayOf(Asked(r).start) \in Nat
    <3>1. Asked(r).start \in Nat /\ DayLength \in Nat \ {0}
      BY AskedIs, BookingConstants
    <3> QED BY <3>1 DEF DayOf
  <2>4. latched' \in [Callers -> {NoLatch} \cup (Barbers \X Nat)]
    BY <1>2, <2>1, <2>2, <2>3
  <2> QED BY <1>1, <1>2, <1>3, <2>1, <2>2, <2>4, CallerHolds
<1>7. ASSUME NEW step \in {"refused", "barred", "dropped"}, GiveUp(r, step), linked' = linked, patch' = patch
      PROVE  BookingTyped'
  <2>1. BookGoto(r, step) /\ newRow' \subseteq Callers /\ latched' \in [Callers -> {NoLatch} \cup (Barbers \X Nat)]
    BY <1>2, <1>7 DEF GiveUp
  <2> QED BY <1>1, <1>2, <1>3, <1>7, <2>1, CallerHolds
<1>8. CASE Check(r)
  <2>1. callPc[r] = "check" /\ patch' = patch /\ linked' = linked
    BY <1>8 DEF Check
  <2>2. (BookGoto(r, "write") /\ UNCHANGED <<latched, newRow>>) \/ GiveUp(r, "refused")
    BY <1>8 DEF Check
  <2>3. CASE BookGoto(r, "write") /\ UNCHANGED <<latched, newRow>>
    BY <1>1, <1>2, <1>3, <1>4, <2>1, <2>3, CallerHolds
  <2> QED BY <1>7, <2>1, <2>2, <2>3
<1>9. CASE WriteAppt(r)
  <2>1. \/ \E step \in {"refused", "barred"} : GiveUp(r, step) /\ UNCHANGED <<patch, linked>>
        \/ /\ patch' = [patch EXCEPT ![r] = Columns(r)] /\ BookGoto(r, "commit") /\ UNCHANGED <<latched, newRow>>
           /\ \E f \in {linked[r], Nobody, FirstRow(Asked(r).appt)} : linked' = [linked EXCEPT ![r] = f]
    BY <1>9 DEF WriteAppt
  <2>2. CASE \E step \in {"refused", "barred"} : GiveUp(r, step) /\ UNCHANGED <<patch, linked>>
    BY <1>7, <2>2
  <2>3. ASSUME patch' = [patch EXCEPT ![r] = Columns(r)], BookGoto(r, "commit"), UNCHANGED <<latched, newRow>>,
               NEW f \in {linked[r], Nobody, FirstRow(Asked(r).appt)}, linked' = [linked EXCEPT ![r] = f]
        PROVE  BookingTyped'
    <3>1. linked' \in [Callers -> Callers \cup {Nobody}] /\ callPc[r] = "write"
      BY <1>2, <1>9, <2>3, FirstIs DEF WriteAppt
    <3> QED BY <1>1, <1>2, <1>3, <1>4, <2>3, <3>1, CallerHolds
  <2> QED BY <2>1, <2>2, <2>3
<1>10. CASE EnsureRow(r)
  <2>1. callPc[r] = "row" /\ UNCHANGED <<patch, latched>> /\ (BookGoto(r, "write") \/ BookGoto(r, "commit"))
    BY <1>10 DEF EnsureRow
  <2>2. newRow' \subseteq Callers
    BY <1>2, <1>10 DEF EnsureRow
  <2>3. linked' \in [Callers -> Callers \cup {Nobody}]
    BY <1>2, <1>10, FirstIs DEF EnsureRow
  <2>4. Asked(r).kind \notin Inserts \cup {"move"}
    BY <2>1 DEF BookingInv, ReadsHold, Inserts
  <2> QED BY <1>1, <1>2, <1>3, <2>1, <2>2, <2>3, <2>4, CallerHolds
<1>11. CASE DropCall(r)
  <2>1. BookGoto(r, "dropped") /\ patch' = [patch EXCEPT ![r] = Unwritten] /\ linked' = linked
    BY <1>11 DEF DropCall, Settle
  <2>2. latched' \in [Callers -> {NoLatch} \cup (Barbers \X Nat)] /\ newRow' \subseteq Callers
    BY <1>2, <1>11 DEF DropCall, Settle
  <2> QED BY <1>1, <1>2, <1>3, <2>1, <2>2, CallerHolds
<1> QED BY <1>5, <1>6, <1>8, <1>9, <1>10, <1>11

LEMMA CommitTypes ==
  ASSUME Shaped, BookingTyped, NEW r \in Callers, CommitCall(r)
  PROVE  BookingTyped'
<1>1. /\ callPc[r] = "commit" /\ BookGoto(r, "done") /\ patch' = [patch EXCEPT ![r] = Unwritten]
      /\ UNCHANGED <<call, chosen, found, linked, minutes>>
      /\ appt' = [appt EXCEPT ![Asked(r).appt] = Onto(patch[r], appt[Asked(r).appt])] /\ floor' = Rows(r)
  BY DEF CommitCall, Settle
<1>2. latched' \in [Callers -> {NoLatch} \cup (Barbers \X Nat)] /\ newRow' \subseteq Callers
  BY DEF CommitCall, Settle, BookingTyped, CallersHold
<1>3. /\ Asked(r).appt \in Appointments /\ Asked(r).start \in Nat
      /\ Asked(r).kind = "move" => chosen[r] \in Barbers
  BY <1>1, AskedIs DEF BookingTyped, CallersHold, CallSettled
<1>4. appt' \in [Appointments -> Appt]
  BY <1>1, <1>3, WrittenRow DEF BookingTyped, CallersHold, TablesHold
<1>5. floor' \subseteq FloorRow
  <2>1. [by |-> r, appt |-> Asked(r).appt, barber |-> found[r].barber, start |-> found[r].start, present |-> FALSE] \in FloorRow
    BY <1>3 DEF BookingTyped, CallersHold, FloorRow, Appt
  <2>2. ASSUME NEW f \in FloorRow PROVE Changed(r, f) \subseteq FloorRow
    BY <1>3 DEF Changed, FloorRow
  <2>3. floor \subseteq FloorRow
    BY DEF BookingTyped, TablesHold
  <2> QED BY <1>1, <2>1, <2>2, <2>3 DEF Rows
<1>6. TablesHold'
  BY <1>1, <1>4, <1>5 DEF BookingTyped, TablesHold
<1>7. "done" \in CallSteps
  BY DEF CallSteps, Over
<1>8. /\ found \in [Callers -> Appt] /\ chosen \in [Callers -> Barbers \cup {AnyBarber}]
      /\ linked \in [Callers -> Callers \cup {Nobody}]
  BY DEF BookingTyped, CallersHold
<1> QED BY <1>1, <1>2, <1>6, <1>7, <1>8, CallerHolds

LEMMA BookingStaysTyped == BookingInv /\ BookingTyped /\ [BookingNext]_bookingVars => BookingTyped'
<1> SUFFICES ASSUME BookingInv, BookingTyped, [BookingNext]_bookingVars PROVE BookingTyped'
  OBVIOUS
<1>0. Shaped
  BY DEF BookingInv
<1>1. ASSUME NEW r \in Callers, Answer(r) \/ DropCall(r) PROVE BookingTyped'
  BY <1>0, <1>1, LookTypes, LatchTypes, CommitTypes DEF Answer
<1>2. ASSUME NEW s \in Services, NEW n \in Durations, EditService(s, n) PROVE BookingTyped'
  <2>1. n \in Nat
    BY BookingConstants
  <2>2. TablesHold'
    BY <1>2, <2>1 DEF EditService, BookingTyped, TablesHold
  <2>3. CallersHold'
    BY <1>2 DEF EditService, BookingTyped, CallersHold, CallSettled, Asked, ColumnKinds
  <2> QED BY <2>2, <2>3 DEF BookingTyped
<1>3. CASE UNCHANGED bookingVars
  BY <1>3 DEF bookingVars, BookingTyped, CallersHold, TablesHold, CallSettled, Asked, ColumnKinds
<1> QED BY <1>1, <1>2, <1>3 DEF BookingNext

LEMMA BookingStartsTyped == BookingInit => BookingTyped
<1> SUFFICES ASSUME BookingInit PROVE BookingTyped
  OBVIOUS
<1>1. call \in [Callers -> Call] /\ appt \in [Appointments -> Appt]
  BY BookingConstants DEF BookingInit
<1>2. found \in [Callers -> Appt]
  BY <1>1 DEF BookingInit, Call
<1>3. CallersHold
  BY <1>2 DEF BookingInit, CallersHold, ColumnKinds, Unwritten, CallSettled
<1>4. TablesHold
  BY <1>1 DEF BookingInit, TablesHold
<1> QED BY <1>3, <1>4 DEF BookingTyped

\* An appointment is always a whole row with a barber and whole times, and so is the floor row made of it.
THEOREM BookingsTyped == BookingSpec => []BookingTypeOK
<1>1. BookingInv /\ BookingTyped => BookingTypeOK
  BY DEF BookingInv, Shaped, BookingTyped, CallersHold, TablesHold, BookingTypeOK, CallSteps
<1> QED BY <1>1, BookingStarts, BookingStep, BookingStartsTyped, BookingStaysTyped, PTL DEF BookingSpec
=============================================================================
