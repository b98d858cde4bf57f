------------------------------- MODULE JoinPage -------------------------------
(***************************************************************************)
(* The public page book/[locationId]/page.tsx, open on the phones of a     *)
(* household that shares one number.  A phone looks its people up, puts    *)
(* those who were picked in line one request after the other, or books one *)
(* of them an appointment, and keeps in its URL what it shows.             *)
(*                                                                         *)
(* Every request is one step of the server here: what happens when their   *)
(* transactions overlap is in Clients and Booking.                         *)
(***************************************************************************)
EXTENDS Integers, FiniteSets, Listing, SequencesExt

CONSTANTS
  Phones,   \* the household's phones that show the page
  Folk,     \* the people of the household, by name
  Times,    \* the appointment times offered, of one professional
  MaxSpots, \* rows of queue_entries, a bound on the model
  MaxAppts, \* rows of appointments, a bound on the model
  Occasions \* who is on file at first, and what is done on each phone before it is put away, a bound

ASSUME JoinPageConstants ==
  /\ MaxSpots \in Nat /\ MaxAppts \in Nat /\ IsFiniteSet(Folk)
  /\ Occasions \subseteq [onFile: SUBSET Folk, taps: [Phones -> Nat]] /\ Occasions # {}

NoAppt == 0
NoJob  == [phase |-> "none", left |-> <<>>, got |-> <<>>]
NoBook == [phase |-> "none"]

Person(name, known, selected) == [name |-> name, known |-> known, selected |-> selected]

\* A page that was opened without a query string, and what survives in the URL.
Landing == [step |-> "landing", mode |-> "queue", people |-> <<>>, told |-> FALSE,
            ids |-> <<>>, appt |-> NoAppt, urlIds |-> <<>>, urlAppt |-> NoAppt]

VARIABLES
  onFile,  \* the names of the clients with this number
  spots,   \* their queue_entries: who, and the status
  appts,   \* their appointments: who they are for, who was picked, the time and the status
  open,    \* whether the shop still takes people in today
  page,    \* what each phone shows
  joining, \* the joinQueue mutation of each phone
  booking, \* the bookAppointment mutation of each phone
  taps,    \* what may still be done on each phone
  astray,  \* spots whose answer was lost, or whose page was left or opened anew
  crossed  \* phones that began something else while a join or a booking was pending

joinVars == <<onFile, spots, appts, open, page, joining, booking, taps, astray, crossed>>
server   == <<onFile, spots, appts, open>>

JoinPageInit ==
  /\ \E o \in Occasions : onFile = o.onFile /\ taps = o.taps
  /\ spots = <<>> /\ appts = <<>> /\ open = TRUE
  /\ page = [p \in Phones |-> Landing]
  /\ joining = [p \in Phones |-> NoJob] /\ booking = [p \in Phones |-> NoBook]
  /\ astray = {} /\ crossed = {}

-----------------------------------------------------------------------------
(* The page. *)

Act(p) == taps[p] > 0 /\ taps' = [taps EXCEPT ![p] = @ - 1]

Idle(p)   == joining[p] = NoJob /\ booking[p] = NoBook
Crosses(p) == crossed' = IF Idle(p) THEN crossed ELSE crossed \cup {p}

Listed(S, selected) == SetToSeq({Person(n, TRUE, selected) : n \in S})

\* enterFlow and lookupProfile: by the number all of the household, by a name whoever has it, and a new
\* person when nobody does.
EnterFlow(p) ==
  /\ page[p].step = "landing"
  /\ \E mode \in {"queue", "appointment"} : \E list \in
       {Listed(onFile, TRUE)} \cup
       {IF n \in onFile THEN Listed({n}, TRUE) ELSE <<Person(n, FALSE, TRUE)>> : n \in Folk} :
       page' = [page EXCEPT ![p].step = "details", ![p].mode = mode, ![p].people = list]
  /\ Crosses(p)
  /\ Act(p) /\ UNCHANGED <<server, joining, booking, astray>>

\* The people who are picked, and the list with others picked.
Picked(p)         == {i \in DOMAIN page[p].people : page[p].people[i].selected}
Marked(people, S) == [i \in DOMAIN people |-> [people[i] EXCEPT !.selected = (i \in S)]]

\* togglePerson, and selectOnlyPerson when it is for an appointment.
Pick(p) ==
  /\ page[p].step = "details"
  /\ \E i \in DOMAIN page[p].people :
       page' = [page EXCEPT ![p].people =
                  Marked(@, IF page[p].mode # "queue" THEN {i}
                            ELSE IF i \in Picked(p) THEN Picked(p) \ {i} ELSE Picked(p) \cup {i})]
  /\ Act(p) /\ UNCHANGED <<server, joining, booking, astray, crossed>>

\* confirmAddPerson: a name that is listed is picked instead; and the name typed for an
\* appointment when nobody is listed.
AddPerson(p) ==
  /\ page[p].step = "details"
  /\ page[p].mode = "appointment" => page[p].people = <<>>
  /\ \E n \in Folk :
       page' = [page EXCEPT ![p].people =
                  IF \E i \in DOMAIN @ : @[i].name = n
                  THEN Marked(@, {i \in DOMAIN @ : i \in Picked(p) \/ @[i].name = n})
                  ELSE Append(@, Person(n, FALSE, TRUE))]
  /\ Act(p) /\ UNCHANGED <<server, joining, booking, astray, crossed>>

Selected(p) == Sublist(page[p].people, Picked(p))

\* The two buttons above the list; an appointment is for the first who was picked.
SwitchMode(p) ==
  LET first == IF Picked(p) = {} THEN 1 ELSE Min(Picked(p))
  IN  /\ page[p].step = "details"
      /\ page' = [page EXCEPT
                    ![p].mode = IF @ = "queue" THEN "appointment" ELSE "queue",
                    ![p].people = IF page[p].mode = "appointment" THEN @
                                  ELSE Marked(@, {first})]
      /\ Crosses(p)
      /\ Act(p) /\ UNCHANGED <<server, joining, booking, astray>>

Back(p) ==
  /\ page[p].step = "details"
  /\ page' = [page EXCEPT ![p].step = "landing"]
  /\ UNCHANGED <<server, joining, booking, taps, astray, crossed>>

Join(p) ==
  /\ page[p].step = "details" /\ page[p].mode = "queue" /\ Selected(p) # <<>>
  /\ joining[p] = NoJob
  /\ joining' = [joining EXCEPT ![p] = [phase |-> "sent", left |-> Selected(p), got |-> <<>>]]
  /\ page' = [page EXCEPT ![p].told = FALSE]
  /\ Crosses(p)
  /\ Act(p) /\ UNCHANGED <<server, booking, astray>>

Finish_AllOrNothing(p, got, failed) ==
  page' = [page EXCEPT ![p] =
             IF failed THEN [@ EXCEPT !.told = TRUE]
             ELSE [@ EXCEPT !.told = FALSE, !.ids = got, !.urlIds = got, !.urlAppt = NoAppt,
                            !.step = "confirmed"]]

\* onSuccess: whoever is in line is shown, also when somebody after him failed.
Finish(p, got, failed) ==
  page' = [page EXCEPT ![p] =
             IF got = <<>> THEN [@ EXCEPT !.told = failed]
             ELSE [@ EXCEPT !.told = failed, !.ids = got, !.urlIds = got, !.urlAppt = NoAppt,
                            !.step = "confirmed"]]

\* The answer to the request for the first who is left: the next is sent, or that was all.
AnswerJoin(p) ==
  LET j == joining[p]
      got == Append(j.got, j.spot)
  IN  /\ j.phase \in {"done", "refused"}
      /\ IF j.phase = "done" /\ Len(j.left) > 1
         THEN /\ joining' = [joining EXCEPT ![p] = [phase |-> "sent", left |-> Tail(j.left), got |-> got]]
              /\ UNCHANGED page
         ELSE /\ joining' = [joining EXCEPT ![p] = NoJob]
              /\ Finish(p, IF j.phase = "done" THEN got ELSE j.got, j.phase = "refused")
      /\ UNCHANGED <<server, booking, taps, astray, crossed>>

\* The request or its answer is lost, which the page takes for a failure.
LoseJoin(p) ==
  LET j == joining[p]
  IN  /\ j # NoJob
      /\ joining' = [joining EXCEPT ![p] = NoJob]
      /\ Finish(p, j.got, TRUE)
      /\ astray' = IF j.phase = "done" THEN astray \cup {j.spot} ELSE astray
      /\ UNCHANGED <<server, booking, taps, crossed>>

\* bookAppointment.
Book(p) ==
  /\ page[p].step = "details" /\ page[p].mode = "appointment" /\ Selected(p) # <<>>
  /\ booking[p] = NoBook
  /\ \E t \in Times :
       booking' = [booking EXCEPT ![p] = [phase |-> "sent", who |-> Selected(p)[1].name, time |-> t]]
  /\ Crosses(p)
  /\ Act(p) /\ UNCHANGED <<server, page, joining, astray>>

AnswerBooking(p) ==
  /\ booking[p].phase \in {"done", "refused"}
  /\ booking' = [booking EXCEPT ![p] = NoBook]
  /\ page' = [page EXCEPT ![p] =
                IF booking[p].phase = "refused" THEN @
                ELSE [@ EXCEPT !.appt = booking[p].appt, !.urlAppt = booking[p].appt,
                               !.urlIds = <<>>, !.step = "confirmed"]]
  /\ UNCHANGED <<server, joining, taps, astray, crossed>>

LoseBooking(p) ==
  /\ booking[p] # NoBook
  /\ booking' = [booking EXCEPT ![p] = NoBook]
  /\ UNCHANGED <<server, page, joining, taps, astray, crossed>>

InFlight(p) == Range(joining[p].got) \cup (IF joining[p].phase = "done" THEN {joining[p].spot} ELSE {})

\* backToMainMenu: what was shown is only in the line, and what failed stays said.
BackToMainMenu(p) ==
  /\ page[p].step = "confirmed"
  /\ page' = [page EXCEPT ![p] = [Landing EXCEPT !.told = page[p].told]]
  /\ astray' = astray \cup Range(page[p].ids) \cup Range(page[p].urlIds)
  /\ UNCHANGED <<server, joining, booking, taps, crossed>>

\* The page is opened again: the URL says what to show, and nobody waits for the answers.
Reload(p) ==
  LET q == page[p]
  IN  /\ page' = [page EXCEPT ![p] =
                    IF q.urlIds # <<>>
                    THEN [Landing EXCEPT !.step = "confirmed", !.ids = q.urlIds, !.urlIds = q.urlIds]
                    ELSE IF q.urlAppt # NoAppt
                    THEN [Landing EXCEPT !.step = "confirmed", !.mode = "appointment",
                                         !.appt = q.urlAppt, !.urlAppt = q.urlAppt]
                    ELSE Landing]
      /\ joining' = [joining EXCEPT ![p] = NoJob] /\ booking' = [booking EXCEPT ![p] = NoBook]
      /\ astray' = astray \cup InFlight(p) \cup (IF p \in crossed THEN Range(q.ids) ELSE {})
      /\ crossed' = crossed \ {p}
      /\ UNCHANGED <<server, taps>>

-----------------------------------------------------------------------------
(* The server. *)

Live(n) == {i \in DOMAIN spots : spots[i].who = n /\ spots[i].status \in {"waiting", "in_service"}}

\* publicJoin: a name nobody has on this number becomes a client; a client who has a spot keeps it.
ServeJoin(p) ==
  LET j == joining[p]
      x == Head(j.left)
      refused == ~open \/ (~x.known /\ x.name \in onFile)
      spot == IF Live(x.name) = {} THEN Len(spots) + 1 ELSE Min(Live(x.name))
  IN  /\ j.phase = "sent"
      /\ IF refused
         THEN /\ joining' = [joining EXCEPT ![p].phase = "refused"]
              /\ UNCHANGED <<onFile, spots>>
         ELSE /\ spot <= MaxSpots
              /\ joining' = [joining EXCEPT ![p] = [phase |-> "done", left |-> j.left, got |-> j.got,
                                                    spot |-> spot]]
              /\ onFile' = onFile \cup {x.name}
              /\ spots' = IF spot \in DOMAIN spots THEN spots
                          ELSE Append(spots, [who |-> x.name, status |-> "waiting"])
      /\ UNCHANGED <<appts, open, page, booking, taps, astray, crossed>>

Taken(t) == \E i \in DOMAIN appts : appts[i].time = t /\ appts[i].status = "booked"

\* book: the request names a person and the number; whichever profile of the number is found
\* first gets the appointment, and the name makes a profile only when there is none.
ServeBooking(p) ==
  LET b == booking[p]
  IN  /\ b.phase = "sent"
      /\ IF Taken(b.time)
         THEN /\ booking' = [booking EXCEPT ![p].phase = "refused"]
              /\ UNCHANGED <<onFile, appts>>
         ELSE /\ Len(appts) < MaxAppts
              /\ \E n \in IF onFile = {} THEN {b.who} ELSE onFile :
                   appts' = Append(appts, [who |-> n, picked |-> b.who, time |-> b.time,
                                           status |-> "booked"])
              /\ onFile' = IF onFile = {} THEN {b.who} ELSE onFile
              /\ booking' = [booking EXCEPT ![p] = [phase |-> "done", appt |-> Len(appts) + 1]]
      /\ UNCHANGED <<spots, open, page, joining, taps, astray, crossed>>

\* cancelQueueEntry: somebody who waits leaves the line.
CancelSpot(p) ==
  /\ page[p].step = "confirmed" /\ page[p].mode = "queue"
  /\ \E i \in Range(page[p].ids) :
       spots[i].status = "waiting" /\ spots' = [spots EXCEPT ![i].status = "gone"]
  /\ UNCHANGED <<onFile, appts, open, page, joining, booking, taps, astray, crossed>>

\* cancelAppointment and rescheduleAppointment.
ChangeAppt(p) ==
  LET i == page[p].appt
  IN  /\ page[p].step = "confirmed" /\ page[p].mode = "appointment" /\ i # NoAppt
      /\ appts[i].status = "booked"
      /\ \/ appts' = [appts EXCEPT ![i].status = "cancelled"]
         \/ \E t \in {u \in Times : ~Taken(u)} : appts' = [appts EXCEPT ![i].time = t]
      /\ UNCHANGED <<onFile, spots, open, page, joining, booking, taps, astray, crossed>>

\* Barbers take people from the line and finish with them.
Advance ==
  /\ \E i \in DOMAIN spots :
       /\ spots[i].status \in {"waiting", "in_service"}
       /\ spots' = [spots EXCEPT ![i].status = IF @ = "waiting" THEN "in_service" ELSE "gone"]
  /\ UNCHANGED <<onFile, appts, open, page, joining, booking, taps, astray, crossed>>

\* The wait comes to reach past closing, or the day ends.
CloseLine ==
  /\ open /\ open' = FALSE
  /\ UNCHANGED <<onFile, spots, appts, page, joining, booking, taps, astray, crossed>>

JoinPageNext ==
  \/ \E p \in Phones : \/ EnterFlow(p) \/ Pick(p) \/ AddPerson(p) \/ SwitchMode(p) \/ Back(p)
                       \/ Join(p) \/ AnswerJoin(p) \/ LoseJoin(p) \/ Book(p) \/ AnswerBooking(p)
                       \/ LoseBooking(p) \/ BackToMainMenu(p) \/ Reload(p)
                       \/ ServeJoin(p) \/ ServeBooking(p) \/ CancelSpot(p) \/ ChangeAppt(p)
  \/ Advance \/ CloseLine

JoinPageSpec == JoinPageInit /\ [][JoinPageNext]_joinVars

-----------------------------------------------------------------------------
JoinPageTypeOK ==
  /\ onFile \subseteq Folk /\ open \in BOOLEAN /\ crossed \subseteq Phones
  /\ \A i \in DOMAIN spots : spots[i].who \in Folk /\ spots[i].status \in {"waiting", "in_service", "gone"}
  /\ \A i \in DOMAIN appts : appts[i].who \in Folk /\ appts[i].time \in Times
  /\ \A p \in Phones : /\ page[p].step \in {"landing", "details", "confirmed"}
                       /\ page[p].mode \in {"queue", "appointment"}
                       /\ page[p].appt \in {NoAppt} \cup DOMAIN appts
                       /\ Range(page[p].ids) \cup astray \subseteq DOMAIN spots

\* However often a household joins, looks itself up by name or number, loses answers or uses a
\* second phone, nobody of it is in line twice (checkIn, "One live spot per client").
OneSpotEach == \A n \in Folk : Cardinality({i \in DOMAIN spots : spots[i].who = n /\ spots[i].status # "gone"}) <= 1

\* Whoever a join put in line is on the page or in its URL, unless the answer was lost or the
\* page left: a later failure never throws an earlier spot away (joinQueue, "Collect what
\* succeeded ... rather than throwing the whole batch away").
SpotsAreKept ==
  \A i \in DOMAIN spots \ astray :
    \E p \in Phones : i \in Range(page[p].ids) \cup Range(page[p].urlIds) \cup InFlight(p)

\* What a page that says "You're all set" shows is what its URL brings back, unless a join or a
\* booking was still pending when another, a lookup or the other mode was begun.
UrlBringsItBack ==
  \A p \in Phones \ crossed :
    LET q == page[p]
    IN  q.step = "confirmed" =>
          \/ q.mode = "queue" /\ q.ids # <<>> /\ q.urlIds = q.ids /\ q.urlAppt = NoAppt
          \/ q.mode = "appointment" /\ q.appt # NoAppt /\ q.urlAppt = q.appt /\ q.urlIds = <<>>

JoinPageHolds == OneSpotEach /\ SpotsAreKept /\ UrlBringsItBack

\* "Who's this appointment for?": an appointment is for the person who was picked (page.tsx:413).
AppointmentIsForWhoWasPicked == \A i \in DOMAIN appts : appts[i].who = appts[i].picked
=============================================================================
