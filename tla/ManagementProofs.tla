-------------------------- MODULE ManagementProofs --------------------------
(***************************************************************************)
(* What is proved of the management's desks, for any number of requests,   *)
(* shops, connections, people and prices: the wipe-down reminder keeps its *)
(* time, settings that go astray take two overlapping requests, the pool   *)
(* never lends one connection to two transactions nor loses one but to a   *)
(* client that hung up too early to be heard, successive rows follow one   *)
(* another, a session keeps to the rights it was given, the checkout panel *)
(* sells what it shows, and the management of all the desks keeps what     *)
(* each of them promises.                                                  *)
(***************************************************************************)
EXTENDS Management, DisplayProofs

-----------------------------------------------------------------------------
(***************************************************************************)
(* Sanitation, for a clock that runs as far as it likes.  The invariant    *)
(* says of the rows the handlers have read what it says of the row itself, *)
(* as long as no round was completed since.                                *)
(***************************************************************************)

\* A time that the round of the shop is due at lies after the last completion.
Ahead(due) == due = NoDate \/ due > completed

Timely ==
  /\ tick >= 1 /\ completed <= tick
  /\ reminder.due # Epoch /\ \A h \in Hands : looked[h].row.due # Epoch
  /\ wroteStale \/ completed = Epoch \/ Ahead(reminder.due)
  /\ \A h \in Hands : looked[h].fresh => wroteStale \/ completed = Epoch \/ Ahead(looked[h].row.due)

SanitationInv == SanitationTypeOK /\ Timely /\ OnMeansScheduled

HandSteps == {"idle", "write", "done", "refused"}

LEMMA HandMoves ==
  ASSUME SanitationTypeOK, NEW h \in Hands, NEW step \in HandSteps, HandGoto(h, step)
  PROVE  /\ handPc' \in [Hands -> HandSteps]
         /\ handPc'[h] = step /\ \A g \in Hands : g # h => handPc'[g] = handPc[g]
  BY DEF SanitationTypeOK, HandGoto, HandSteps

\* A request that is done stays done while another that is not moves.
LEMMA PushStands ==
  ASSUME SanitationTypeOK, NEW h \in Hands, NEW step \in HandSteps, HandGoto(h, step), duty' = duty,
         handPc[h] # "done",
         \E g \in Hands : duty[g].kind = "push" /\ duty[g].enabled = "on" /\ handPc[g] = "done"
  PROVE  \E g \in Hands : duty'[g].kind = "push" /\ duty'[g].enabled = "on" /\ handPc'[g] = "done"
<1>1. PICK g \in Hands : duty[g].kind = "push" /\ duty[g].enabled = "on" /\ handPc[g] = "done"
  OBVIOUS
<1>2. g # h
  BY <1>1
<1>3. handPc'[g] = "done"
  BY <1>1, <1>2, HandMoves
<1>4. QED
  BY <1>1, <1>3

LEMMA DueTyped ==
  ASSUME SanitationTypeOK
  PROVE  /\ reminder \in Reminder /\ reminder.due \in Int /\ reminder.enabled \in BOOLEAN
         /\ reminder.interval \in Intervals
         /\ tick \in Nat /\ completed \in Nat
         /\ \A h \in Hands : /\ looked[h] \in [row: Reminder, fresh: BOOLEAN]
                             /\ looked[h].row \in Reminder /\ looked[h].row.due \in Int
                             /\ looked[h].row.interval \in Intervals /\ looked[h].row.enabled \in BOOLEAN
                             /\ duty[h] \in Duty
<1>1. \A h \in Hands : looked[h] \in [row: Reminder, fresh: BOOLEAN] /\ duty[h] \in Duty
  BY DEF SanitationTypeOK
<1>2. \A h \in Hands : looked[h].row \in Reminder
  BY <1>1
<1>3. \A r \in Reminder : r.due \in Int /\ r.interval \in Intervals /\ r.enabled \in BOOLEAN
  BY DEF Reminder
<1>4. QED
  BY <1>1, <1>2, <1>3 DEF SanitationTypeOK

LEMMA IntervalsPositive ==
  \A i \in Intervals : i \in Nat /\ i >= 1
  BY SanitationConstants

LEMMA StartsTimely == SanitationInit => SanitationInv
<1> SUFFICES ASSUME SanitationInit PROVE SanitationInv
  OBVIOUS
<1>1. PICK i \in Intervals : reminder \in {[enabled |-> FALSE, interval |-> i, due |-> NoDate],
                                           [enabled |-> TRUE, interval |-> i, due |-> 1]}
  BY DEF SanitationInit
<1>2. reminder \in Reminder /\ reminder.due \in {NoDate, 1} /\ (reminder.enabled => reminder.due = 1)
  <2>1. CASE reminder = [enabled |-> FALSE, interval |-> i, due |-> NoDate]
    BY <2>1 DEF Reminder, NoDate
  <2>2. CASE reminder = [enabled |-> TRUE, interval |-> i, due |-> 1]
    BY <2>2 DEF Reminder
  <2>3. QED
    BY <1>1, <2>1, <2>2
<1>3. SanitationTypeOK
  BY <1>2, SanitationConstants DEF SanitationInit, SanitationTypeOK, Epoch
<1>4. \A h \in Hands : looked[h].row.due \in {NoDate, 1}
  BY <1>2 DEF SanitationInit
<1>5. Timely
  BY <1>2, <1>4 DEF SanitationInit, Timely, Ahead, NoDate, Epoch
<1>6. OnMeansScheduled
  BY <1>2 DEF OnMeansScheduled, NoDate, Epoch
<1>7. QED
  BY <1>3, <1>5, <1>6 DEF SanitationInv

\* What a handler that writes the row has to write.
LEMMA WritesTimely ==
  ASSUME SanitationInv, NEW h \in Hands, HandGoto(h, "done"), handPc[h] # "done", duty' = duty, tick' = tick,
         completed' = completed, looked' = looked,
         wroteStale' \in BOOLEAN, wroteStale => wroteStale',
         reminder' \in Reminder, reminder'.due # Epoch,
         wroteStale' \/ completed = Epoch \/ Ahead(reminder'.due),
         reminder'.enabled /\ reminder'.due = NoDate =>
           \E g \in Hands : duty'[g].kind = "push" /\ duty'[g].enabled = "on" /\ handPc'[g] = "done"
  PROVE  SanitationInv'
<1>1. handPc' \in [Hands -> HandSteps]
  BY HandMoves DEF SanitationInv, HandSteps
<1>2. SanitationTypeOK'
  BY <1>1 DEF SanitationInv, SanitationTypeOK, HandSteps
<1>3. Timely'
  BY DEF SanitationInv, Timely, Ahead
<1>4. OnMeansScheduled'
  BY DEF OnMeansScheduled
<1>5. QED
  BY <1>2, <1>3, <1>4 DEF SanitationInv

LEMMA SetTimely ==
  ASSUME SanitationInv, NEW h \in Hands, SetReminder(h)
  PROVE  SanitationInv'
<1>1. /\ looked[h].row \in Reminder /\ looked[h].row.due \in Int /\ looked[h].row.interval \in Intervals
      /\ looked[h].row.enabled \in BOOLEAN /\ duty[h] \in Duty /\ tick \in Nat /\ completed \in Nat
  BY DueTyped DEF SanitationInv
<1>2. Interval_(h) \in Intervals /\ Interval_(h) \in Nat /\ Interval_(h) >= 1 /\ Enabled(h) \in BOOLEAN
  <2>1. duty[h].interval \in Intervals \cup {0}
    BY <1>1 DEF Duty
  <2>2. QED
    BY <1>1, <2>1, IntervalsPositive DEF Interval_, Enabled
<1>3. tick >= 1 /\ completed <= tick
  BY DEF SanitationInv, Timely
<1> DEFINE next == IF ~Enabled(h) THEN NoDate
                   ELSE IF Reschedules(h) THEN tick + Interval_(h) ELSE DateOf(looked[h].row.due)
<1>4. reminder' = [enabled |-> Enabled(h), interval |-> Interval_(h), due |-> next]
  BY DEF SetReminder
<1>5. ~Reschedules(h) => looked[h].row.due # NoDate /\ DateOf(looked[h].row.due) = looked[h].row.due
  BY DEF Reschedules, DateOf
<1>6. next \in Int /\ next # Epoch /\ (Enabled(h) => next # NoDate)
  <2>1. looked[h].row.due # Epoch
    BY DEF SanitationInv, Timely
  <2>2. CASE ~Enabled(h)
    BY <2>2 DEF NoDate, Epoch
  <2>3. CASE Enabled(h) /\ Reschedules(h)
    <3>1. next = tick + Interval_(h)
      BY <2>3
    <3>2. QED
      BY <1>1, <1>2, <1>3, <3>1 DEF NoDate, Epoch
  <2>4. CASE Enabled(h) /\ ~Reschedules(h)
    BY <1>1, <1>5, <2>1, <2>4
  <2>5. QED
    BY <2>2, <2>3, <2>4
<1>7. wroteStale' = (wroteStale \/ ~looked[h].fresh)
  BY DEF SetReminder
<1>8. looked[h].fresh \in BOOLEAN /\ wroteStale \in BOOLEAN
  <2>1. looked[h] \in [row: Reminder, fresh: BOOLEAN]
    BY DueTyped DEF SanitationInv
  <2>2. QED
    BY <2>1 DEF SanitationInv, SanitationTypeOK
<1>9. wroteStale' \/ completed = Epoch \/ Ahead(next)
  <2>1. SUFFICES ASSUME ~wroteStale, looked[h].fresh, completed # Epoch PROVE Ahead(next)
    BY <1>7
  <2>2. Ahead(looked[h].row.due)
    BY <2>1 DEF SanitationInv, Timely
  <2>3. CASE ~Enabled(h)
    BY <2>3 DEF Ahead
  <2>4. CASE Enabled(h) /\ Reschedules(h)
    <3>1. next = tick + Interval_(h)
      BY <2>4
    <3>2. QED
      BY <1>1, <1>2, <1>3, <3>1 DEF Ahead
  <2>5. CASE Enabled(h) /\ ~Reschedules(h)
    BY <1>5, <2>2, <2>5
  <2>6. QED
    BY <2>3, <2>4, <2>5
<1>10. reminder' \in Reminder /\ reminder'.due = next /\ reminder'.enabled = Enabled(h)
  <2> HIDE DEF next
  <2>1. reminder'.due = next /\ reminder'.enabled = Enabled(h)
    BY <1>4, Zenon
  <2>2. QED
    BY <1>2, <1>4, <1>6, <2>1 DEF Reminder
<1>11. /\ HandGoto(h, "done") /\ handPc[h] # "done" /\ duty' = duty /\ tick' = tick
       /\ completed' = completed /\ looked' = looked /\ wroteStale' \in BOOLEAN /\ (wroteStale => wroteStale')
  BY <1>7, <1>8 DEF SetReminder
<1> HIDE DEF next
<1>12. wroteStale' \/ completed = Epoch \/ Ahead(reminder'.due)
  BY <1>9, <1>10
<1>13. ~(reminder'.enabled /\ reminder'.due = NoDate)
  BY <1>6, <1>10
<1>14. QED
  BY <1>6, <1>10, <1>11, <1>12, <1>13, WritesTimely

LEMMA SnoozeTimely ==
  ASSUME SanitationInv, NEW h \in Hands, Snooze(h)
  PROVE  SanitationInv'
<1>1. reminder \in Reminder /\ tick \in Nat /\ completed \in Nat /\ tick >= 1 /\ completed <= tick
  BY DueTyped DEF SanitationInv, Timely
<1>2. reminder' \in Reminder /\ reminder'.due = tick + 1
  BY <1>1 DEF Snooze, Reminder
<1>3. Ahead(reminder'.due) /\ reminder'.due # Epoch /\ reminder'.due # NoDate
  BY <1>1, <1>2 DEF Ahead, Epoch, NoDate
<1>4. wroteStale' \in BOOLEAN /\ (wroteStale => wroteStale')
  BY DEF Snooze, SanitationInv, SanitationTypeOK
<1>5. /\ HandGoto(h, "done") /\ handPc[h] # "done" /\ duty' = duty /\ tick' = tick
      /\ completed' = completed /\ looked' = looked
  BY DEF Snooze
<1>6. QED
  BY <1>2, <1>3, <1>4, <1>5, WritesTimely

LEMMA PushTimely ==
  ASSUME SanitationInv, NEW h \in Hands, PushReminder(h)
  PROVE  SanitationInv'
<1>1. reminder \in Reminder /\ duty[h] \in Duty /\ reminder.enabled \in BOOLEAN /\ reminder.interval \in Intervals
  BY DueTyped DEF SanitationInv
<1> DEFINE on == IF duty[h].enabled = "unasked" THEN reminder.enabled ELSE duty[h].enabled = "on"
           every == IF duty[h].interval = 0 THEN reminder.interval ELSE duty[h].interval
<1>2. on \in BOOLEAN /\ every \in Intervals
  BY <1>1 DEF Duty
<1>3. reminder' = [reminder EXCEPT !.enabled = on, !.interval = every]
  BY DEF PushReminder
<1> HIDE DEF every
<1>4. reminder' \in Reminder /\ reminder'.due = reminder.due /\ reminder'.enabled = on
  <2> HIDE DEF on
  <2>1. reminder' \in Reminder /\ reminder'.due = reminder.due
    BY <1>1, <1>2, <1>3 DEF Reminder
  <2>2. reminder'.enabled = on
    BY <1>1, <1>3, Zenon DEF Reminder
  <2>3. QED
    BY <2>1, <2>2
<1>5. /\ HandGoto(h, "done") /\ handPc[h] = "write" /\ duty' = duty /\ tick' = tick /\ duty[h].kind = "push"
      /\ completed' = completed /\ looked' = looked /\ wroteStale' = wroteStale
  BY DEF PushReminder
<1>6. wroteStale' \in BOOLEAN /\ (wroteStale => wroteStale')
  BY <1>5 DEF SanitationInv, SanitationTypeOK
<1>7. reminder'.due # Epoch /\ (wroteStale' \/ completed = Epoch \/ Ahead(reminder'.due))
  BY <1>4, <1>5 DEF SanitationInv, Timely
<1>8. ASSUME reminder'.enabled, reminder'.due = NoDate
      PROVE  \E g \in Hands : duty'[g].kind = "push" /\ duty'[g].enabled = "on" /\ handPc'[g] = "done"
  <2>1. CASE duty[h].enabled = "on"
    <3>1. handPc'[h] = "done"
      BY <1>5, HandMoves DEF SanitationInv, HandSteps
    <3>2. QED
      BY <1>5, <2>1, <3>1
  <2>2. CASE duty[h].enabled # "on"
    <3>1. reminder.enabled
      BY <1>4, <1>8, <2>2
    <3>2. \E g \in Hands : duty[g].kind = "push" /\ duty[g].enabled = "on" /\ handPc[g] = "done"
      BY <1>4, <1>8, <3>1 DEF SanitationInv, OnMeansScheduled
    <3>3. QED
      BY <1>5, <3>2, PushStands DEF SanitationInv, HandSteps
  <2>3. QED
    BY <2>1, <2>2
<1>9. QED
  BY <1>4, <1>5, <1>6, <1>7, <1>8, WritesTimely

LEMMA CompleteTimely ==
  ASSUME SanitationInv, NEW h \in Hands, Complete(h)
  PROVE  SanitationInv'
<1>1. /\ reminder \in Reminder /\ looked[h].row.interval \in Intervals
      /\ tick \in Nat /\ completed \in Nat /\ tick >= 1
      /\ \A g \in Hands : looked[g] \in [row: Reminder, fresh: BOOLEAN]
  BY DueTyped DEF SanitationInv, Timely
<1>2. NextDue(h) \in Nat /\ NextDue(h) > tick
  BY <1>1, IntervalsPositive DEF NextDue
<1>3. reminder' \in Reminder /\ reminder'.due = NextDue(h)
  BY <1>1, <1>2 DEF Complete, Reminder
<1>4. looked' \in [Hands -> [row: Reminder, fresh: BOOLEAN]]
  BY <1>1 DEF Complete
<1>5. \A g \in Hands : looked'[g].row = looked[g].row /\ looked'[g].fresh = FALSE
  <2>1. \A g \in Hands : looked'[g] = [looked[g] EXCEPT !.fresh = FALSE]
    BY DEF Complete
  <2>2. QED
    BY <1>1, <2>1
<1>6. handPc' \in [Hands -> HandSteps]
  BY HandMoves DEF Complete, SanitationInv, HandSteps
<1>7. completed' = tick /\ wroteStale' = FALSE /\ tick' = tick /\ duty' = duty
  BY DEF Complete
<1>8. SanitationTypeOK'
  BY <1>1, <1>3, <1>4, <1>6, <1>7 DEF SanitationInv, SanitationTypeOK, HandSteps
<1>9. \A g \in Hands : looked'[g].row.due # Epoch
  BY <1>5 DEF SanitationInv, Timely
<1>10. reminder'.due # Epoch /\ Ahead(reminder.due)'
  BY <1>1, <1>2, <1>3, <1>7 DEF Ahead, Epoch
<1>11. Timely'
  BY <1>1, <1>5, <1>7, <1>9, <1>10 DEF Timely
<1>12. reminder'.due \notin {NoDate, Epoch}
  BY <1>2, <1>3, <1>10 DEF NoDate
<1>13. OnMeansScheduled'
  BY <1>12 DEF OnMeansScheduled
<1>14. QED
  BY <1>8, <1>11, <1>13 DEF SanitationInv

LEMMA LookTimely ==
  ASSUME SanitationInv, NEW h \in Hands, LookAtReminder(h)
  PROVE  SanitationInv'
<1>1. reminder \in Reminder /\ \A g \in Hands : looked[g] \in [row: Reminder, fresh: BOOLEAN]
  BY DueTyped DEF SanitationInv
<1>2. looked' = [looked EXCEPT ![h] = [row |-> reminder, fresh |-> TRUE]]
  BY DEF LookAtReminder
<1>3. looked' \in [Hands -> [row: Reminder, fresh: BOOLEAN]]
  BY <1>1, <1>2 DEF SanitationInv, SanitationTypeOK
<1>4. \A g \in Hands : IF g = h THEN looked'[g] = [row |-> reminder, fresh |-> TRUE] ELSE looked'[g] = looked[g]
  BY <1>2 DEF SanitationInv, SanitationTypeOK
<1>5. PICK step \in HandSteps : step # "done" /\ HandGoto(h, step)
  BY DEF LookAtReminder, HandSteps
<1>6. handPc' \in [Hands -> HandSteps]
  BY <1>5, HandMoves DEF SanitationInv
<1>7. duty' = duty /\ reminder' = reminder /\ tick' = tick /\ completed' = completed /\ wroteStale' = wroteStale
      /\ handPc[h] = "idle"
  BY DEF LookAtReminder
<1>8. SanitationTypeOK'
  BY <1>3, <1>6, <1>7 DEF SanitationInv, SanitationTypeOK, HandSteps
<1>9. Timely'
  <2>1. \A g \in Hands : /\ looked'[g].row.due # Epoch
                         /\ looked'[g].fresh => wroteStale \/ completed = Epoch \/ Ahead(looked'[g].row.due)
    BY <1>4 DEF SanitationInv, Timely
  <2>2. QED
    BY <1>7, <2>1 DEF SanitationInv, Timely, Ahead
<1>10. OnMeansScheduled'
  <2>1. SUFFICES ASSUME reminder'.enabled, reminder'.due \in {NoDate, Epoch}
                 PROVE  \E g \in Hands : duty'[g].kind = "push" /\ duty'[g].enabled = "on" /\ handPc'[g] = "done"
    BY DEF OnMeansScheduled
  <2>2. \E g \in Hands : duty[g].kind = "push" /\ duty[g].enabled = "on" /\ handPc[g] = "done"
    BY <1>7, <2>1 DEF SanitationInv, OnMeansScheduled
  <2>3. QED
    BY <1>5, <1>7, <2>2, PushStands DEF SanitationInv
<1>11. QED
  BY <1>8, <1>9, <1>10 DEF SanitationInv

LEMMA TimeTimely ==
  ASSUME SanitationInv, TimePasses
  PROVE  SanitationInv'
<1>1. /\ tick' = tick + 1 /\ duty' = duty /\ handPc' = handPc /\ looked' = looked /\ reminder' = reminder
      /\ completed' = completed /\ wroteStale' = wroteStale /\ tick \in Nat /\ completed \in Nat
  BY DEF TimePasses, SanitationInv, SanitationTypeOK
<1>2. SanitationTypeOK'
  BY <1>1 DEF SanitationInv, SanitationTypeOK
<1>3. Timely'
  <2>1. tick' >= 1 /\ completed' <= tick'
    BY <1>1 DEF SanitationInv, Timely
  <2>2. QED
    BY <1>1, <2>1 DEF SanitationInv, Timely, Ahead
<1>4. OnMeansScheduled'
  BY <1>1 DEF SanitationInv, OnMeansScheduled
<1>5. QED
  BY <1>2, <1>3, <1>4 DEF SanitationInv

LEMMA SanitationStep == SanitationInv /\ [SanitationNext]_sanitationVars => SanitationInv'
<1> SUFFICES ASSUME SanitationInv, [SanitationNext]_sanitationVars PROVE SanitationInv'
  OBVIOUS
<1>1. ASSUME NEW h \in Hands,
             LookAtReminder(h) \/ SetReminder(h) \/ Snooze(h) \/ Complete(h) \/ PushReminder(h)
      PROVE  SanitationInv'
  BY <1>1, LookTimely, SetTimely, SnoozeTimely, CompleteTimely, PushTimely
<1>2. CASE TimePasses
  BY <1>2, TimeTimely
<1>3. CASE UNCHANGED sanitationVars
  BY <1>3 DEF sanitationVars, SanitationInv, SanitationTypeOK, Timely, Ahead, OnMeansScheduled
<1>4. QED
  BY <1>1, <1>2, <1>3 DEF SanitationNext

\* The wipe-down reminder comes when it should, whoever saves, snoozes, completes and pushes at
\* once (setSanitationSettings, snooze and completeSanitationReminder of settings.service.ts and the
\* push of organization-settings.service.ts): just after a round it does not stand on the board
\* unless a save that had read the row before wrote the old time back, and one that is on has a time
\* unless the owner's push turned it on.
THEOREM WipeDowns == SanitationSpec => []WipeDownsKeepTime
<1>1. SanitationInv => WipeDownsKeepTime
  <2> SUFFICES ASSUME SanitationInv, Due, completed # Epoch, tick <= completed PROVE wroteStale
    BY DEF WipeDownsKeepTime, RestsAfterCompletion, SanitationInv
  <2>1. reminder.due \in Int /\ tick \in Nat /\ completed \in Nat
    BY DueTyped DEF SanitationInv
  <2>2. ~Ahead(reminder.due)
    BY <2>1 DEF Due, Ahead
  <2>3. QED
    BY <2>2 DEF SanitationInv, Timely
<1>2. QED
  BY <1>1, StartsTimely, SanitationStep, PTL DEF SanitationSpec

\* The reminder is a row of its table in every state, also as a request has read it before.
THEOREM SanitationTyped == SanitationSpec => []SanitationTypeOK
<1>1. SanitationInv => SanitationTypeOK
  BY DEF SanitationInv
<1> QED BY <1>1, StartsTimely, SanitationStep, PTL DEF SanitationSpec

-----------------------------------------------------------------------------
(***************************************************************************)
(* Settings.  A row that is written and not committed is one request's;    *)
(* what it is about to commit is what it read, or another one committed    *)
(* between.                                                                *)
(***************************************************************************)

Holding(e) == editPc[e] = "commit" /\ ~Pushes(e)
Pushing(e) == Pushes(e) /\ editPc[e] \in {"push", "commit"}
Saves(e)   == edit[e].kind \in {"save", "strictSave"}

\* Each request is where its kind leads.
Courses ==
  \A e \in Editors :
    /\ editPc[e] = "write" => ~Pushes(e)
    /\ editPc[e] = "default" => Pushes(e)
    /\ editPc[e] = "push" => edit[e].kind = "all"
    /\ Pushing(e) /\ editPc[e] = "commit" => toPush[e] = {}

\* A row that is written and not committed is its request's alone, and so is the default.
RowsHeld ==
  /\ \A e \in Editors : unsaved[e] # NoRow <=> Holding(e)
  /\ \A e, u \in Editors : (Holding(e) /\ Holding(u) /\ edit[e].shop = edit[u].shop) => e = u
  /\ \A e, u \in Editors : (Pushing(e) /\ Pushing(u)) => e = u

\* What is about to be committed: a save's own reading, a patch's row as it still is.
Composed ==
  \A e \in Editors : Holding(e) =>
    IF Saves(e) THEN unsaved[e] = Over_Row(e, formRead[e])
    ELSE settings[edit[e].shop] # NoRow /\ unsaved[e] = Over_Row(e, settings[edit[e].shop])

\* A request has passed a shop: it is done, or it has pushed to it.
Passed(e, s) ==
  \/ editPc[e] = "done"
  \/ editPc[e] \in {"push", "commit", "refused"} /\ edit[e].kind = "all" /\ s \notin toPush[e]

\* Whoever gave a value asked for it and has passed the shop, and so has whom a save saw.
Givers ==
  /\ \A s \in Shops, c \in Columns, e \in Editors : giver[s][c] = e =>
       c \in Asks(e) /\ edit[e].kind # "future" /\ Passed(e, s) /\ settings[s] # NoRow
  /\ \A s \in Shops : settings[s] = NoRow => given[s] = Factory
  /\ \A e \in Editors, c \in Columns, u \in Editors : sawGiver[e][c] = u => Passed(u, edit[e].shop)

\* The overlap that excuses a column.
Overlapped(s, c) ==
  \E e \in Editors : /\ editPc[e] = "done" /\ Saves(e)
                     /\ edit[e].shop = s /\ c \notin Asks(e)
                     /\ sawGiver[e][c] # giver[s][c]

\* What a save carries of a column nobody asked for since is what was asked for it.
ReadingsStand ==
  \A e \in Editors, c \in Columns :
    (/\ Saves(e) /\ editPc[e] \in {"write", "commit"} /\ c \notin Asks(e)
     /\ sawGiver[e][c] = giver[edit[e].shop][c])
      => formRead[e][c] = given[edit[e].shop][c] \/ Overlapped(edit[e].shop, c)

\* A push that is under way has a shop still before it where an earlier push's value stands.
PushesInTurn ==
  \A p, q \in Editors : \A s \in Shops : \A c \in Columns :
    (p # q /\ Pushes(p) /\ editPc[p] = "done" /\ giver[s][c] = p /\ Pushing(q) /\ c \in Asks(q) /\ edit[q].kind = "all")
      => s \in toPush[q]

SettingsInv ==
  /\ SettingsTypeOK /\ Courses /\ RowsHeld /\ Composed /\ Givers /\ ReadingsStand /\ PushesInTurn
  /\ RevertedOnlyByOverlap /\ PushesDoNotMix

EditSteps == {"idle", "write", "default", "push", "commit", "done", "refused"}

LEMMA EditMoves ==
  ASSUME SettingsTypeOK, NEW e \in Editors, NEW step \in EditSteps, EditGoto(e, step)
  PROVE  /\ editPc' \in [Editors -> EditSteps]
         /\ editPc'[e] = step /\ \A u \in Editors : u # e => editPc'[u] = editPc[u]
  BY DEF SettingsTypeOK, EditGoto, EditSteps

LEMMA AsksTyped ==
  ASSUME SettingsTypeOK, NEW e \in Editors
  PROVE  /\ edit[e].shop \in Shops /\ edit[e].kind \in {"save", "strictSave", "patch", "future", "all"}
         /\ Asks(e) \subseteq Columns /\ \A c \in Asks(e) : edit[e].asks[c] \in Settable
<1>1. edit[e] \in EditAsked
  BY DEF SettingsTypeOK
<1>2. edit[e].asks \in Partial
  BY <1>1 DEF EditAsked
<1>3. PICK C \in SUBSET Columns : edit[e].asks \in [C -> Settable]
  BY <1>2 DEF Partial
<1>4. QED
  BY <1>1, <1>3 DEF EditAsked, Asks

LEMMA OverTyped ==
  ASSUME SettingsTypeOK, NEW e \in Editors, NEW row \in Filled
  PROVE  /\ Over_Row(e, row) \in Filled /\ Over_Row(e, row) # NoRow
         /\ \A c \in Columns : Over_Row(e, row)[c] = IF c \in Asks(e) THEN edit[e].asks[c] ELSE row[c]
<1>1. Over_Row(e, row) \in Filled
  BY AsksTyped DEF Over_Row, Filled
<1>2. QED
  BY <1>1, SettingsConstants DEF Over_Row

\* Whoever has passed a shop has passed it for good.
LEMMA PassedStays ==
  ASSUME SettingsTypeOK, edit' = edit, NEW e \in Editors, editPc[e] \notin {"done", "refused"},
         \A u \in Editors : u # e => editPc'[u] = editPc[u] /\ toPush'[u] = toPush[u],
         editPc[e] \in {"push", "commit"} =>
           editPc'[e] = "done" \/ (editPc'[e] \in {"push", "commit", "refused"} /\ toPush'[e] \subseteq toPush[e])
  PROVE  \A u \in Editors, s \in Shops : Passed(u, s) => Passed(u, s)'
  BY DEF Passed

\* What excuses a column goes on excusing it.
LEMMA OverlapStays ==
  ASSUME edit' = edit, giver' = giver,
         \A u \in Editors : editPc[u] = "done" => editPc'[u] = "done" /\ sawGiver'[u] = sawGiver[u]
  PROVE  /\ \A s \in Shops, c \in Columns : Overlapped(s, c) => Overlapped(s, c)'
         /\ RevertedOnlyByOverlap /\ settings' = settings /\ given' = given => RevertedOnlyByOverlap'
<1>1. ASSUME NEW s \in Shops, NEW c \in Columns, Overlapped(s, c)
      PROVE  Overlapped(s, c)'
  <2>1. PICK u \in Editors : /\ editPc[u] = "done" /\ Saves(u) /\ edit[u].shop = s /\ c \notin Asks(u)
                             /\ sawGiver[u][c] # giver[s][c]
    BY <1>1 DEF Overlapped
  <2>2. QED
    BY <2>1 DEF Overlapped, Saves, Asks
<1>2. QED
  BY <1>1 DEF RevertedOnlyByOverlap, Overlapped, Saves

LEMMA SettingsStart == SettingsInit => SettingsInv
<1> SUFFICES ASSUME SettingsInit PROVE SettingsInv
  OBVIOUS
<1>1. /\ edit \in [Editors -> EditAsked] /\ settings \in [Shops -> Filled \cup {NoRow}]
      /\ Factory \in Filled /\ NoRow \notin Filled /\ Original \notin Editors
  BY SettingsConstants DEF SettingsInit
<1>2. \A e \in Editors : edit[e].shop \in Shops
  BY <1>1 DEF EditAsked
<1>3. \A s \in Shops : given[s] \in Filled
  BY <1>1 DEF SettingsInit
<1>4. SettingsTypeOK
  BY <1>1, <1>2, <1>3 DEF SettingsInit, SettingsTypeOK
<1>5. Courses /\ RowsHeld /\ Composed /\ ReadingsStand /\ PushesInTurn /\ PushesDoNotMix
  BY DEF SettingsInit, Courses, RowsHeld, Composed, ReadingsStand, PushesInTurn, PushesDoNotMix, Holding, Pushing
<1>6. Givers
  BY <1>1, <1>2 DEF SettingsInit, Givers
<1>7. RevertedOnlyByOverlap
  BY <1>1 DEF SettingsInit, RevertedOnlyByOverlap
<1>8. QED
  BY <1>4, <1>5, <1>6, <1>7 DEF SettingsInv

\* The parts of the invariant that a step keeps which commits nothing to any shop and leaves
\* what others are doing alone: all that is left to show is what it does to its own request.
LEMMA QuietKeeps ==
  ASSUME SettingsInv, NEW e \in Editors,
         edit' = edit /\ settings' = settings /\ giver' = giver /\ given' = given,
         editPc' \in [Editors -> EditSteps], editPc[e] \notin {"done", "refused"},
         editPc'[e] = "done" => ~Saves(e),
         \A u \in Editors : u # e => /\ editPc'[u] = editPc[u] /\ toPush'[u] = toPush[u]
                                     /\ unsaved'[u] = unsaved[u] /\ sawGiver'[u] = sawGiver[u]
                                     /\ formRead'[u] = formRead[u],
         editPc[e] \in {"push", "commit"} => editPc'[e] \in {"done", "refused"} /\ toPush'[e] = toPush[e],
         \/ sawGiver'[e] = sawGiver[e] \/ sawGiver'[e] = giver[edit[e].shop]
  PROVE  Givers' /\ RevertedOnlyByOverlap' /\ \A s \in Shops, c \in Columns : Overlapped(s, c) => Overlapped(s, c)'
<1>1. \A u \in Editors, s \in Shops : Passed(u, s) => Passed(u, s)'
  BY PassedStays DEF SettingsInv
<1>2. \A u \in Editors : edit[u].shop \in Shops
  BY AsksTyped DEF SettingsInv
<1>3. \A s \in Shops, c \in Columns, u \in Editors : giver[s][c] = u => Passed(u, s)'
  BY <1>1 DEF SettingsInv, Givers
<1>4. \A u \in Editors, c \in Columns, v \in Editors : sawGiver'[u][c] = v => Passed(v, edit[u].shop)
  BY <1>2 DEF SettingsInv, Givers
<1>5. \A u \in Editors, s \in Shops, v \in Editors : edit[u].shop = s /\ Passed(v, edit[u].shop) => Passed(v, s)'
  BY <1>1
<1>6. Givers'
  <2>1. ASSUME NEW s \in Shops, NEW c \in Columns, NEW u \in Editors, giver'[s][c] = u
        PROVE  (c \in Asks(u))' /\ edit'[u].kind # "future" /\ Passed(u, s)' /\ settings'[s] # NoRow
    BY <1>3, <2>1 DEF SettingsInv, Givers, Asks
  <2>2. ASSUME NEW u \in Editors, NEW c \in Columns, NEW v \in Editors, sawGiver'[u][c] = v
        PROVE  Passed(v, edit[u].shop)'
    <3>1. \A s \in Shops : edit[u].shop = s => Passed(v, s)'
      BY <1>4, <1>5, <2>2
    <3>2. QED
      BY <1>2, <3>1 DEF Passed
  <2>3. QED
    BY <2>1, <2>2 DEF SettingsInv, Givers
<1>7. \A u \in Editors : editPc[u] = "done" => editPc'[u] = "done" /\ sawGiver'[u] = sawGiver[u]
  OBVIOUS
<1>8. QED
  BY <1>6, <1>7, OverlapStays DEF SettingsInv
LEMMA ReadKeeps ==
  ASSUME SettingsInv, NEW e \in Editors, ReadSettings(e)
  PROVE  SettingsInv'
<1> DEFINE row == settings[edit[e].shop]
           step == IF row = NoRow /\ edit[e].kind = "strictSave" THEN "refused" ELSE "write"
<1>1. /\ editPc[e] = "idle" /\ Saves(e) /\ EditGoto(e, step)
      /\ formRead' = [formRead EXCEPT ![e] = IF row = NoRow THEN Factory ELSE row]
      /\ sawGiver' = [sawGiver EXCEPT ![e] = giver[edit[e].shop]]
      /\ edit' = edit /\ unsaved' = unsaved /\ toPush' = toPush /\ settings' = settings
      /\ orgDefault' = orgDefault /\ giver' = giver /\ given' = given
  BY DEF ReadSettings, Saves
<1>2. SettingsTypeOK /\ edit[e].shop \in Shops
  BY AsksTyped DEF SettingsInv
<1>3. /\ editPc' \in [Editors -> EditSteps] /\ editPc'[e] = step /\ step \in {"refused", "write"}
      /\ \A u \in Editors : u # e => editPc'[u] = editPc[u]
  BY <1>1, <1>2, EditMoves DEF EditSteps
<1> HIDE DEF step
<1>4. /\ formRead' \in [Editors -> Filled] /\ formRead'[e] = IF row = NoRow THEN Factory ELSE row
      /\ \A u \in Editors : u # e => formRead'[u] = formRead[u] /\ sawGiver'[u] = sawGiver[u]
      /\ sawGiver'[e] = giver[edit[e].shop]
  BY <1>1, <1>2, SettingsConstants DEF SettingsTypeOK
<1>5. sawGiver' \in [Editors -> [Columns -> Editors \cup {Original}]]
  BY <1>1, <1>2 DEF SettingsTypeOK
<1>6. SettingsTypeOK'
  BY <1>1, <1>2, <1>3, <1>4, <1>5 DEF SettingsTypeOK, EditSteps
<1>7. Givers' /\ RevertedOnlyByOverlap' /\ \A s \in Shops, c \in Columns : Overlapped(s, c) => Overlapped(s, c)'
  BY <1>1, <1>3, <1>4, QuietKeeps
<1>8. Courses' /\ RowsHeld' /\ Composed'
  BY <1>1, <1>3, <1>4 DEF SettingsInv, Courses, RowsHeld, Composed, Pushing, Pushes, Holding, Saves, Over_Row, Asks
<1>9. ReadingsStand'
  <2>1. \A s \in Shops, c \in Columns : settings[s] # NoRow => settings[s][c] = given[s][c] \/ Overlapped(s, c)
    BY DEF SettingsInv, RevertedOnlyByOverlap, Overlapped, Saves
  <2>2. \A c \in Columns : formRead'[e][c] = given[edit[e].shop][c] \/ Overlapped(edit[e].shop, c)
    BY <1>2, <1>4, <2>1 DEF SettingsInv, Givers
  <2>3. ASSUME NEW u \in Editors, NEW c \in Columns, NEW s \in Shops, s = edit[u].shop,
               Saves(u), editPc'[u] \in {"write", "commit"}, c \notin Asks(u), sawGiver'[u][c] = giver[s][c]
        PROVE  formRead'[u][c] = given[s][c] \/ Overlapped(s, c)
    BY <1>3, <1>4, <2>2, <2>3 DEF SettingsInv, ReadingsStand
  <2>4. \A u \in Editors : edit[u].shop \in Shops
    BY <1>2, AsksTyped
  <2>5. QED
    BY <1>1, <1>7, <2>3, <2>4 DEF ReadingsStand, Saves, Asks, Overlapped
<1>10. PushesInTurn' /\ PushesDoNotMix'
  BY <1>1, <1>3 DEF SettingsInv, PushesInTurn, PushesDoNotMix, Pushing, Pushes, Asks
<1>11. QED
  BY <1>6, <1>7, <1>8, <1>9, <1>10 DEF SettingsInv
\* A step in which nobody reads leaves the readings standing.
LEMMA ReadingsKept ==
  ASSUME SettingsInv, edit' = edit, giver' = giver, given' = given, formRead' = formRead, sawGiver' = sawGiver,
         \A u \in Editors : Saves(u) /\ editPc'[u] \in {"write", "commit"} => editPc[u] \in {"write", "commit"},
         \A s \in Shops, c \in Columns : Overlapped(s, c) => Overlapped(s, c)'
  PROVE  ReadingsStand'
<1>1. ASSUME NEW u \in Editors, NEW c \in Columns, NEW s \in Shops, s = edit[u].shop,
             Saves(u), editPc'[u] \in {"write", "commit"}, c \notin Asks(u), sawGiver[u][c] = giver[s][c]
      PROVE  formRead[u][c] = given[s][c] \/ Overlapped(s, c)'
  BY <1>1 DEF SettingsInv, ReadingsStand
<1>2. \A u \in Editors : edit[u].shop \in Shops
  BY AsksTyped DEF SettingsInv
<1>3. QED
  BY <1>1, <1>2 DEF ReadingsStand, Saves, Asks, Overlapped

LEMMA BeginKeeps ==
  ASSUME SettingsInv, NEW e \in Editors, BeginEdit(e)
  PROVE  SettingsInv'
<1> DEFINE step == IF Pushes(e) THEN "default" ELSE "write"
<1>1. /\ editPc[e] = "idle" /\ ~Saves(e) /\ EditGoto(e, step) /\ formRead' = formRead /\ sawGiver' = sawGiver
      /\ edit' = edit /\ unsaved' = unsaved /\ toPush' = toPush /\ settings' = settings
      /\ orgDefault' = orgDefault /\ giver' = giver /\ given' = given
  BY DEF BeginEdit, Saves
<1>2. SettingsTypeOK
  BY DEF SettingsInv
<1>3. /\ editPc' \in [Editors -> EditSteps] /\ editPc'[e] = step
      /\ \A u \in Editors : u # e => editPc'[u] = editPc[u]
  BY <1>1, <1>2, EditMoves DEF EditSteps
<1>4. SettingsTypeOK'
  BY <1>1, <1>2, <1>3 DEF SettingsTypeOK, EditSteps
<1>5. Givers' /\ RevertedOnlyByOverlap' /\ \A s \in Shops, c \in Columns : Overlapped(s, c) => Overlapped(s, c)'
  BY <1>1, <1>3, QuietKeeps
<1>6. Courses' /\ RowsHeld' /\ Composed'
  BY <1>1, <1>3 DEF SettingsInv, Courses, RowsHeld, Composed, Pushing, Pushes, Holding, Saves, Over_Row, Asks
<1>7. ReadingsStand'
  BY <1>1, <1>3, <1>5, ReadingsKept
<1>8. PushesInTurn' /\ PushesDoNotMix'
  BY <1>1, <1>3 DEF SettingsInv, PushesInTurn, PushesDoNotMix, Pushing, Pushes, Asks
<1>9. QED
  BY <1>4, <1>5, <1>6, <1>7, <1>8 DEF SettingsInv

LEMMA WriteKeeps ==
  ASSUME SettingsInv, NEW e \in Editors, WriteSettings(e)
  PROVE  SettingsInv'
<1> DEFINE s == edit[e].shop
           read == IF edit[e].kind = "patch" THEN settings[s] ELSE formRead[e]
<1>1. /\ editPc[e] = "write" /\ ~RowLocked(e, s) /\ formRead' = formRead /\ sawGiver' = sawGiver
      /\ edit' = edit /\ toPush' = toPush /\ settings' = settings
      /\ orgDefault' = orgDefault /\ giver' = giver /\ given' = given
  BY DEF WriteSettings
<1>2. SettingsTypeOK /\ s \in Shops
  BY AsksTyped DEF SettingsInv
<1>3. /\ ~Pushes(e) /\ edit[e].kind \in {"patch", "save", "strictSave"} /\ unsaved[e] = NoRow
  BY <1>1, <1>2, AsksTyped DEF SettingsInv, Courses, Pushes, RowsHeld, Holding
<1>4. CASE edit[e].kind = "patch" /\ settings[s] = NoRow
  <2>1. EditGoto(e, "refused") /\ unsaved' = unsaved
    BY <1>4 DEF WriteSettings
  <2>2. /\ editPc' \in [Editors -> EditSteps] /\ editPc'[e] = "refused"
        /\ \A u \in Editors : u # e => editPc'[u] = editPc[u]
    BY <1>2, <2>1, EditMoves DEF EditSteps
  <2>3. SettingsTypeOK'
    BY <1>1, <1>2, <2>1, <2>2 DEF SettingsTypeOK, EditSteps
  <2>4. Givers' /\ RevertedOnlyByOverlap' /\ \A x \in Shops, c \in Columns : Overlapped(x, c) => Overlapped(x, c)'
    BY <1>1, <2>1, <2>2, QuietKeeps
  <2>5. Courses' /\ RowsHeld' /\ Composed'
    BY <1>1, <2>1, <2>2 DEF SettingsInv, Courses, RowsHeld, Composed, Pushing, Pushes, Holding, Saves, Over_Row, Asks
  <2>6. ReadingsStand'
    BY <1>1, <2>2, <2>4, ReadingsKept
  <2>7. PushesInTurn' /\ PushesDoNotMix'
    BY <1>1, <2>2 DEF SettingsInv, PushesInTurn, PushesDoNotMix, Pushing, Pushes, Asks
  <2>8. QED
    BY <2>3, <2>4, <2>5, <2>6, <2>7 DEF SettingsInv
<1>5. CASE ~(edit[e].kind = "patch" /\ settings[s] = NoRow)
  <2>1. EditGoto(e, "commit") /\ unsaved' = [unsaved EXCEPT ![e] = Over_Row(e, read)]
    BY <1>5 DEF WriteSettings, Merged
  <2>2. /\ editPc' \in [Editors -> EditSteps] /\ editPc'[e] = "commit"
        /\ \A u \in Editors : u # e => editPc'[u] = editPc[u]
    BY <1>2, <2>1, EditMoves DEF EditSteps
  <2>3. read \in Filled
    BY <1>2, <1>5 DEF SettingsTypeOK
  <2>4. Over_Row(e, read) \in Filled /\ Over_Row(e, read) # NoRow
    BY <1>2, <2>3, OverTyped
  <2>5. /\ unsaved' \in [Editors -> Filled \cup {NoRow}] /\ unsaved'[e] = Over_Row(e, read)
        /\ \A u \in Editors : u # e => unsaved'[u] = unsaved[u]
    BY <1>2, <2>1, <2>4 DEF SettingsTypeOK
  <2>6. SettingsTypeOK'
    BY <1>1, <1>2, <2>2, <2>5 DEF SettingsTypeOK, EditSteps
  <2>7. Givers' /\ RevertedOnlyByOverlap' /\ \A x \in Shops, c \in Columns : Overlapped(x, c) => Overlapped(x, c)'
    BY <1>1, <1>3, <2>2, <2>5, QuietKeeps
  <2>8. Courses' /\ RowsHeld'
    <3>1. \A u \in Editors \ {e} : Holding(u) => edit[u].shop # s
      BY <1>1 DEF SettingsInv, RowsHeld, RowLocked
    <3>2. \A u \in Editors : u # e => (Holding(u)' <=> Holding(u)) /\ (Pushing(u)' <=> Pushing(u))
      BY <1>1, <2>2 DEF Holding, Pushing, Pushes
    <3>3. Holding(e)' /\ ~Pushing(e)'
      BY <1>1, <1>3, <2>2 DEF Holding, Pushing, Pushes
    <3>4. RowsHeld'
      BY <1>1, <2>4, <2>5, <3>1, <3>2, <3>3 DEF SettingsInv, RowsHeld
    <3>5. Courses'
      BY <1>1, <1>3, <2>2 DEF SettingsInv, Courses, Pushing, Pushes
    <3>6. QED
      BY <3>4, <3>5
  <2>9. Composed'
    <3>1. ASSUME NEW u \in Editors, u # e, Holding(u)'
          PROVE  IF Saves(u) THEN unsaved'[u] = Over_Row(u, formRead[u])
                 ELSE settings[edit[u].shop] # NoRow /\ unsaved'[u] = Over_Row(u, settings[edit[u].shop])
      BY <1>1, <2>2, <2>5, <3>1 DEF SettingsInv, Composed, Holding, Pushes
    <3>2. IF Saves(e) THEN unsaved'[e] = Over_Row(e, formRead[e])
          ELSE settings[edit[e].shop] # NoRow /\ unsaved'[e] = Over_Row(e, settings[edit[e].shop])
      BY <1>3, <1>5, <2>5 DEF Saves
    <3>3. \A u \in Editors : /\ Saves(u)' <=> Saves(u)
                             /\ Over_Row(u, formRead[u])' = Over_Row(u, formRead[u])
                             /\ Over_Row(u, settings[edit[u].shop])' = Over_Row(u, settings[edit[u].shop])
      BY <1>1 DEF Saves, Over_Row, Asks
    <3>4. QED
      BY <1>1, <3>1, <3>2, <3>3 DEF Composed
  <2>10. ReadingsStand'
    BY <1>1, <2>2, <2>7, ReadingsKept
  <2>11. PushesInTurn' /\ PushesDoNotMix'
    BY <1>1, <1>3, <2>2 DEF SettingsInv, PushesInTurn, PushesDoNotMix, Pushing, Pushes, Asks
  <2>12. QED
    BY <2>6, <2>7, <2>8, <2>9, <2>10, <2>11 DEF SettingsInv
<1>6. QED
  BY <1>4, <1>5

LEMMA SaveDefaultKeeps ==
  ASSUME SettingsInv, NEW e \in Editors, SaveDefault(e)
  PROVE  SettingsInv'
<1> DEFINE step == IF edit[e].kind = "all" THEN "push" ELSE "commit"
<1>1. /\ editPc[e] = "default" /\ ~DefaultTaken(e) /\ EditGoto(e, step)
      /\ toPush' = [toPush EXCEPT ![e] = IF edit[e].kind = "all" THEN Shops ELSE {}]
      /\ formRead' = formRead /\ sawGiver' = sawGiver /\ edit' = edit /\ unsaved' = unsaved
      /\ settings' = settings /\ orgDefault' = orgDefault /\ giver' = giver /\ given' = given
  BY DEF SaveDefault
<1>2. SettingsTypeOK /\ Pushes(e) /\ ~Saves(e)
  BY <1>1 DEF SettingsInv, Courses, Pushes, Saves
<1>3. /\ editPc' \in [Editors -> EditSteps] /\ editPc'[e] = step
      /\ \A u \in Editors : u # e => editPc'[u] = editPc[u]
  BY <1>1, <1>2, EditMoves DEF EditSteps
<1>4. /\ toPush' \in [Editors -> SUBSET Shops] /\ toPush'[e] = IF edit[e].kind = "all" THEN Shops ELSE {}
      /\ \A u \in Editors : u # e => toPush'[u] = toPush[u]
  BY <1>1, <1>2 DEF SettingsTypeOK
<1>5. SettingsTypeOK'
  BY <1>1, <1>2, <1>3, <1>4 DEF SettingsTypeOK, EditSteps
<1>6. Givers' /\ RevertedOnlyByOverlap' /\ \A s \in Shops, c \in Columns : Overlapped(s, c) => Overlapped(s, c)'
  BY <1>1, <1>2, <1>3, <1>4, QuietKeeps
<1>7. \A u \in Editors \ {e} : ~Pushing(u)
  BY <1>1 DEF DefaultTaken, Pushing
<1>8. Courses' /\ RowsHeld' /\ Composed'
  BY <1>1, <1>2, <1>3, <1>4, <1>7 DEF SettingsInv, Courses, RowsHeld, Composed, Pushing, Pushes, Holding, Saves, Over_Row, Asks
<1>9. ReadingsStand'
  BY <1>1, <1>2, <1>3, <1>6, ReadingsKept
<1>10. PushesInTurn' /\ PushesDoNotMix'
  BY <1>1, <1>2, <1>3, <1>4 DEF SettingsInv, PushesInTurn, PushesDoNotMix, Pushing, Pushes, Asks
<1>11. QED
  BY <1>5, <1>6, <1>8, <1>9, <1>10 DEF SettingsInv
LEMMA CommitDefaultKeeps ==
  ASSUME SettingsInv, NEW e \in Editors, CommitDefault(e)
  PROVE  SettingsInv'
<1>1. /\ editPc[e] = "commit" /\ Pushes(e) /\ EditGoto(e, "done") /\ toPush' = toPush
      /\ orgDefault' = Over_Row(e, orgDefault)
      /\ formRead' = formRead /\ sawGiver' = sawGiver /\ edit' = edit /\ unsaved' = unsaved
      /\ settings' = settings /\ giver' = giver /\ given' = given
  BY DEF CommitDefault
<1>2. SettingsTypeOK /\ ~Saves(e) /\ Pushing(e) /\ toPush[e] = {}
  BY <1>1 DEF SettingsInv, Pushes, Saves, Pushing, Courses
<1>3. /\ editPc' \in [Editors -> EditSteps] /\ editPc'[e] = "done"
      /\ \A u \in Editors : u # e => editPc'[u] = editPc[u]
  BY <1>1, <1>2, EditMoves DEF EditSteps
<1>4. orgDefault' \in Filled
  BY <1>1, <1>2, OverTyped DEF SettingsTypeOK
<1>5. SettingsTypeOK'
  BY <1>1, <1>2, <1>3, <1>4 DEF SettingsTypeOK, EditSteps
<1>6. Givers' /\ RevertedOnlyByOverlap' /\ \A s \in Shops, c \in Columns : Overlapped(s, c) => Overlapped(s, c)'
  BY <1>1, <1>2, <1>3, QuietKeeps
<1>7. Courses' /\ RowsHeld' /\ Composed'
  BY <1>1, <1>2, <1>3 DEF SettingsInv, Courses, RowsHeld, Composed, Pushing, Pushes, Holding, Saves, Over_Row, Asks
<1>8. ReadingsStand'
  BY <1>1, <1>2, <1>3, <1>6, ReadingsKept
<1>9. \A u \in Editors \ {e} : ~Pushing(u)
  BY <1>2 DEF SettingsInv, RowsHeld
<1>10. PushesInTurn'
  BY <1>1, <1>3, <1>9 DEF SettingsInv, PushesInTurn, Pushing, Pushes, Asks
<1>11. PushesDoNotMix'
  <2>1. ASSUME NEW p \in Editors, p # e, Pushes(p), editPc[p] = "done",
               NEW s \in Shops, NEW t \in Shops, NEW c \in Columns, giver[s][c] = p, giver[t][c] = e
        PROVE  FALSE
    <3>1. c \in Asks(e) /\ edit[e].kind = "all"
      BY <1>1, <2>1 DEF SettingsInv, Givers, Pushes
    <3>2. s \in toPush[e]
      BY <1>2, <2>1, <3>1 DEF SettingsInv, PushesInTurn
    <3>3. QED
      BY <1>2, <3>2
  <2>2. QED
    BY <1>1, <1>3, <2>1 DEF SettingsInv, PushesDoNotMix, Pushes
<1>12. QED
  BY <1>5, <1>6, <1>7, <1>8, <1>10, <1>11 DEF SettingsInv

LEMMA DropKeeps ==
  ASSUME SettingsInv, NEW e \in Editors, DropEdit(e)
  PROVE  SettingsInv'
<1>1. /\ editPc[e] \in {"write", "default", "push", "commit"} /\ EditGoto(e, "refused")
      /\ unsaved' = [unsaved EXCEPT ![e] = NoRow] /\ toPush' = toPush /\ orgDefault' = orgDefault
      /\ formRead' = formRead /\ sawGiver' = sawGiver /\ edit' = edit
      /\ settings' = settings /\ giver' = giver /\ given' = given
  BY DEF DropEdit
<1>2. SettingsTypeOK
  BY DEF SettingsInv
<1>3. /\ editPc' \in [Editors -> EditSteps] /\ editPc'[e] = "refused"
      /\ \A u \in Editors : u # e => editPc'[u] = editPc[u]
  BY <1>1, <1>2, EditMoves DEF EditSteps
<1>4. /\ unsaved' \in [Editors -> Filled \cup {NoRow}] /\ unsaved'[e] = NoRow
      /\ \A u \in Editors : u # e => unsaved'[u] = unsaved[u]
  BY <1>1, <1>2 DEF SettingsTypeOK
<1>5. SettingsTypeOK'
  BY <1>1, <1>2, <1>3, <1>4 DEF SettingsTypeOK, EditSteps
<1>6. Givers' /\ RevertedOnlyByOverlap' /\ \A s \in Shops, c \in Columns : Overlapped(s, c) => Overlapped(s, c)'
  BY <1>1, <1>3, <1>4, QuietKeeps
<1>7. Courses' /\ RowsHeld' /\ Composed'
  BY <1>1, <1>3, <1>4 DEF SettingsInv, Courses, RowsHeld, Composed, Pushing, Pushes, Holding, Saves, Over_Row, Asks
<1>8. ReadingsStand'
  BY <1>1, <1>3, <1>6, ReadingsKept
<1>9. PushesInTurn' /\ PushesDoNotMix'
  BY <1>1, <1>3 DEF SettingsInv, PushesInTurn, PushesDoNotMix, Pushing, Pushes, Asks
<1>10. QED
  BY <1>5, <1>6, <1>7, <1>8, <1>9 DEF SettingsInv

\* What a shop and its column have when one request has given what it asked to one shop.
LEMMA Gives ==
  ASSUME SettingsTypeOK, NEW e \in Editors, NEW s \in Shops, Give(e, {s})
  PROVE  /\ giver' \in [Shops -> [Columns -> Editors \cup {Original}]] /\ given' \in [Shops -> Filled]
         /\ \A t \in Shops, c \in Columns :
              IF t = s /\ c \in Asks(e) THEN giver'[t][c] = e /\ given'[t][c] = edit[e].asks[c]
              ELSE giver'[t][c] = giver[t][c] /\ given'[t][c] = given[t][c]
<1>1. /\ giver' = [t \in Shops |-> [c \in Columns |-> IF t \in {s} /\ c \in Asks(e) THEN e ELSE giver[t][c]]]
      /\ given' = [t \in Shops |-> [c \in Columns |-> IF t \in {s} /\ c \in Asks(e) THEN edit[e].asks[c] ELSE given[t][c]]]
  BY DEF Give
<1>2. \A t \in Shops, c \in Columns : giver[t][c] \in Editors \cup {Original} /\ given[t][c] \in Settable
  BY DEF SettingsTypeOK, Filled
<1>3. \A c \in Asks(e) : edit[e].asks[c] \in Settable
  BY AsksTyped
<1>4. QED
  BY <1>1, <1>2, <1>3 DEF Filled

\* The parts of the invariant that a step keeps which changes one shop's row, with whoever did it
\* named as the giver of what it asked for.
LEMMA GivingKeeps ==
  ASSUME SettingsInv, NEW e \in Editors, NEW s \in Shops, NEW row \in Filled, settings' \in [Shops -> Filled \cup {NoRow}],
         Give(e, {s}), settings'[s] = row, \A t \in Shops : t # s => settings'[t] = settings[t],
         edit' = edit, formRead' = formRead, sawGiver' = sawGiver,
         editPc' \in [Editors -> EditSteps], edit[e].kind # "future",
         ~Passed(e, s), Passed(e, s)', \A u \in Editors, t \in Shops : Passed(u, t) => Passed(u, t)',
         editPc[e] = "done" => editPc'[e] = "done", editPc'[e] \in {"write", "commit"} => ~Saves(e),
         \A u \in Editors : u # e => editPc'[u] = editPc[u],
         \A c \in Asks(e) : row[c] = edit[e].asks[c],
         \A c \in Columns \ Asks(e) : row[c] # given[s][c] => Overlapped(s, c)'
  PROVE  Givers' /\ ReadingsStand' /\ RevertedOnlyByOverlap'
<1>1. SettingsTypeOK /\ row # NoRow /\ \A u \in Editors : edit[u].shop \in Shops
  BY AsksTyped, SettingsConstants DEF SettingsInv
<1>2. \A t \in Shops, c \in Columns :
        IF t = s /\ c \in Asks(e) THEN giver'[t][c] = e /\ given'[t][c] = edit[e].asks[c]
        ELSE giver'[t][c] = giver[t][c] /\ given'[t][c] = given[t][c]
  BY <1>1, Gives
<1>3. given' \in [Shops -> Filled]
  BY <1>1, Gives
<1>4. Givers'
  <2>1. ASSUME NEW t \in Shops, NEW c \in Columns, NEW u \in Editors, giver'[t][c] = u
        PROVE  (c \in Asks(u))' /\ edit'[u].kind # "future" /\ Passed(u, t)' /\ settings'[t] # NoRow
    <3>1. CASE t = s /\ c \in Asks(e)
      <4>1. u = e
        BY <1>2, <2>1, <3>1
      <4>2. Passed(u, t)'
        BY <3>1, <4>1 DEF Passed
      <4>3. QED
        BY <1>1, <3>1, <4>1, <4>2 DEF Asks
    <3>2. CASE ~(t = s /\ c \in Asks(e))
      <4>1. giver[t][c] = u
        BY <1>2, <2>1, <3>2
      <4>2. Passed(u, t)' /\ settings'[t] # NoRow /\ c \in Asks(u) /\ edit[u].kind # "future"
        BY <1>1, <4>1 DEF SettingsInv, Givers
      <4>3. QED
        BY <4>2 DEF Asks
    <3>3. QED
      BY <3>1, <3>2
  <2>2. ASSUME NEW t \in Shops, settings'[t] = NoRow PROVE given'[t] = Factory
    <3>1. t # s /\ settings[t] = NoRow
      BY <1>1, <2>2
    <3>2. given[t] = Factory /\ given[t] \in Filled /\ given'[t] \in Filled
      BY <1>1, <1>3, <3>1 DEF SettingsInv, Givers, SettingsTypeOK
    <3>3. \A c \in Columns : given'[t][c] = given[t][c]
      BY <1>2, <3>1
    <3>4. QED
      BY <3>2, <3>3 DEF Filled
  <2>3. ASSUME NEW u \in Editors, NEW c \in Columns, NEW v \in Editors, sawGiver'[u][c] = v
        PROVE  Passed(v, edit[u].shop)'
    <3>1. Passed(v, edit[u].shop)
      BY <2>3 DEF SettingsInv, Givers
    <3>2. \A t \in Shops : t = edit[u].shop => Passed(v, t)'
      BY <3>1
    <3>3. QED
      BY <1>1, <3>2 DEF Passed
  <2>4. QED
    BY <2>1, <2>2, <2>3 DEF Givers
\* Nobody has seen e as a giver of the shop, so an overlap stays one.
<1>5. \A u \in Editors, c \in Columns : edit[u].shop = s => sawGiver[u][c] # e
  BY DEF SettingsInv, Givers
<1>6. ASSUME NEW t \in Shops, NEW c \in Columns, Overlapped(t, c) PROVE Overlapped(t, c)'
  <2>1. PICK u \in Editors : /\ editPc[u] = "done" /\ Saves(u) /\ edit[u].shop = t /\ c \notin Asks(u)
                             /\ sawGiver[u][c] # giver[t][c]
    BY <1>6 DEF Overlapped
  <2>2. editPc'[u] = "done" /\ sawGiver[u][c] # giver'[t][c]
    BY <1>2, <1>5, <2>1
  <2>3. QED
    BY <2>1, <2>2 DEF Overlapped, Saves, Asks
<1>7. ReadingsStand'
  <2>1. ASSUME NEW u \in Editors, NEW c \in Columns, NEW t \in Shops, t = edit[u].shop,
               Saves(u), editPc'[u] \in {"write", "commit"}, c \notin Asks(u), sawGiver[u][c] = giver'[t][c]
        PROVE  formRead[u][c] = given'[t][c] \/ Overlapped(t, c)'
    <3>1. u # e
      BY <2>1
    <3>2. ~(t = s /\ c \in Asks(e))
      BY <1>2, <1>5, <2>1
    <3>3. giver'[t][c] = giver[t][c] /\ given'[t][c] = given[t][c]
      BY <1>2, <3>2
    <3>4. formRead[u][c] = given[t][c] \/ Overlapped(t, c)
      BY <2>1, <3>1, <3>3 DEF SettingsInv, ReadingsStand
    <3>5. QED
      BY <1>6, <3>3, <3>4
  <2>2. QED
    BY <1>1, <2>1 DEF ReadingsStand, Saves, Asks, Overlapped
<1>8. RevertedOnlyByOverlap'
  <2>1. ASSUME NEW t \in Shops, NEW c \in Columns, settings'[t] # NoRow, settings'[t][c] # given'[t][c]
        PROVE  Overlapped(t, c)'
    <3>1. CASE t = s
      BY <1>2, <2>1, <3>1
    <3>2. CASE t # s
      <4>1. settings[t] # NoRow /\ settings[t][c] # given[t][c]
        BY <1>2, <2>1, <3>2
      <4>2. Overlapped(t, c)
        BY <4>1 DEF SettingsInv, RevertedOnlyByOverlap, Overlapped, Saves
      <4>3. QED
        BY <1>6, <4>2
    <3>3. QED
      BY <3>1, <3>2
  <2>2. QED
    BY <2>1 DEF RevertedOnlyByOverlap, Overlapped, Saves
<1>9. QED
  BY <1>4, <1>7, <1>8
LEMMA CommitSettingsKeeps ==
  ASSUME SettingsInv, NEW e \in Editors, CommitSettings(e)
  PROVE  SettingsInv'
<1> DEFINE s == edit[e].shop
<1>1. /\ Holding(e) /\ EditGoto(e, "done") /\ settings' = [settings EXCEPT ![s] = unsaved[e]]
      /\ unsaved' = [unsaved EXCEPT ![e] = NoRow] /\ Give(e, {s})
      /\ edit' = edit /\ formRead' = formRead /\ sawGiver' = sawGiver /\ toPush' = toPush
      /\ orgDefault' = orgDefault
  BY DEF CommitSettings, Holding
<1>2. SettingsTypeOK /\ s \in Shops /\ edit[e].kind \in {"patch", "save", "strictSave"} /\ editPc[e] = "commit"
  BY <1>1, AsksTyped DEF SettingsInv, Holding, Pushes
<1>3. /\ editPc' \in [Editors -> EditSteps] /\ editPc'[e] = "done"
      /\ \A u \in Editors : u # e => editPc'[u] = editPc[u]
  BY <1>1, <1>2, EditMoves DEF EditSteps
<1>4. unsaved[e] # NoRow /\ unsaved[e] \in Filled
  BY <1>1, <1>2 DEF SettingsInv, RowsHeld, SettingsTypeOK
<1>5. /\ settings' \in [Shops -> Filled \cup {NoRow}] /\ settings'[s] = unsaved[e]
      /\ \A t \in Shops : t # s => settings'[t] = settings[t]
  BY <1>1, <1>2, <1>4 DEF SettingsTypeOK
<1>6. /\ unsaved' \in [Editors -> Filled \cup {NoRow}] /\ unsaved'[e] = NoRow
      /\ \A u \in Editors : u # e => unsaved'[u] = unsaved[u]
  BY <1>1, <1>2 DEF SettingsTypeOK
<1>7. /\ giver' \in [Shops -> [Columns -> Editors \cup {Original}]] /\ given' \in [Shops -> Filled]
      /\ \A t \in Shops, c \in Columns :
           IF t = s /\ c \in Asks(e) THEN giver'[t][c] = e /\ given'[t][c] = edit[e].asks[c]
           ELSE giver'[t][c] = giver[t][c] /\ given'[t][c] = given[t][c]
  BY <1>1, <1>2, Gives
<1>8. SettingsTypeOK'
  BY <1>1, <1>2, <1>3, <1>5, <1>6, <1>7 DEF SettingsTypeOK, EditSteps
<1>9. \A u \in Editors, t \in Shops : Passed(u, t) => Passed(u, t)'
  BY <1>1, <1>2, <1>3, PassedStays
<1>10. ~Passed(e, s) /\ Passed(e, s)'
  BY <1>1, <1>2, <1>3 DEF Passed
<1>11. IF Saves(e) THEN unsaved[e] = Over_Row(e, formRead[e])
       ELSE settings[s] # NoRow /\ unsaved[e] = Over_Row(e, settings[s])
  BY <1>1 DEF SettingsInv, Composed
<1>12. PICK row \in Filled : /\ unsaved[e] = Over_Row(e, row)
                            /\ IF Saves(e) THEN row = formRead[e] ELSE settings[s] # NoRow /\ row = settings[s]
  BY <1>2, <1>11 DEF SettingsTypeOK
<1>13. \A c \in Columns : unsaved[e][c] = IF c \in Asks(e) THEN edit[e].asks[c] ELSE row[c]
  BY <1>2, <1>12, OverTyped
<1>14. \A c \in Asks(e) : c \in Columns
  BY <1>2, AsksTyped
<1>15. ASSUME NEW c \in Columns \ Asks(e), unsaved[e][c] # given[s][c]
       PROVE  Overlapped(s, c)'
  <2>1. row[c] # given[s][c] /\ giver'[s][c] = giver[s][c]
    BY <1>2, <1>7, <1>13, <1>15
  <2>2. CASE Saves(e) /\ sawGiver[e][c] # giver[s][c]
    BY <1>1, <1>3, <2>1, <2>2 DEF Overlapped, Saves, Asks
  <2>3. CASE ~(Saves(e) /\ sawGiver[e][c] # giver[s][c])
    <3>1. Overlapped(s, c)
      <4>1. CASE Saves(e)
        BY <1>2, <1>12, <2>1, <2>3, <4>1 DEF SettingsInv, ReadingsStand
      <4>2. CASE ~Saves(e)
        BY <1>2, <1>12, <2>1, <4>2 DEF SettingsInv, RevertedOnlyByOverlap, Overlapped, Saves
      <4>3. QED
        BY <4>1, <4>2
    <3>2. PICK u \in Editors : /\ editPc[u] = "done" /\ Saves(u) /\ edit[u].shop = s /\ c \notin Asks(u)
                               /\ sawGiver[u][c] # giver[s][c]
      BY <3>1 DEF Overlapped
    <3>3. editPc'[u] = "done"
      BY <1>3, <3>2
    <3>4. QED
      BY <1>1, <2>1, <3>2, <3>3 DEF Overlapped, Saves, Asks
  <2>4. QED
    BY <2>2, <2>3
<1>16. Givers' /\ ReadingsStand' /\ RevertedOnlyByOverlap'
  <2>1. /\ \A c \in Asks(e) : unsaved[e][c] = edit[e].asks[c]
        /\ \A c \in Columns \ Asks(e) : unsaved[e][c] # given[s][c] => Overlapped(s, c)'
        /\ edit[e].kind # "future" /\ editPc[e] = "done" => editPc'[e] = "done"
        /\ editPc'[e] \in {"write", "commit"} => ~Saves(e)
    BY <1>2, <1>3, <1>13, <1>14, <1>15
  <2>2. QED
    BY <1>1, <1>2, <1>3, <1>4, <1>5, <1>9, <1>10, <2>1, GivingKeeps
<1>17. Courses' /\ RowsHeld'
  BY <1>1, <1>3, <1>6 DEF SettingsInv, Courses, RowsHeld, Pushing, Pushes, Holding
<1>18. Composed'
  <2>1. ASSUME NEW u \in Editors, Holding(u)'
        PROVE  IF Saves(u) THEN unsaved'[u] = Over_Row(u, formRead[u])
               ELSE settings'[edit[u].shop] # NoRow /\ unsaved'[u] = Over_Row(u, settings'[edit[u].shop])
    <3>1. u # e /\ Holding(u)
      BY <1>1, <1>3, <2>1 DEF Holding, Pushes
    <3>2. edit[u].shop # s /\ edit[u].shop \in Shops
      BY <1>1, <1>2, <3>1, AsksTyped DEF SettingsInv, RowsHeld
    <3>3. QED
      BY <1>5, <1>6, <3>1, <3>2 DEF SettingsInv, Composed
  <2>2. QED
    BY <1>1, <2>1 DEF Composed, Saves, Over_Row, Asks
<1>19. PushesInTurn'
  <2>1. ASSUME NEW p \in Editors, NEW q \in Editors, NEW t \in Shops, NEW c \in Columns, p # q, Pushes(p),
               editPc'[p] = "done", giver'[t][c] = p, Pushing(q)', c \in Asks(q), edit[q].kind = "all"
        PROVE  t \in toPush[q]
    <3>1. p # e /\ q # e
      BY <1>1, <1>2, <1>3, <2>1 DEF Pushes, Pushing
    <3>2. giver[t][c] = p
      BY <1>7, <2>1, <3>1
    <3>3. QED
      BY <1>1, <1>3, <2>1, <3>1, <3>2 DEF SettingsInv, PushesInTurn, Pushing, Pushes
  <2>2. QED
    BY <1>1, <2>1 DEF PushesInTurn, Pushes, Asks, Pushing
<1>20. PushesDoNotMix'
  <2>1. ASSUME NEW p \in Editors, NEW q \in Editors, NEW t \in Shops, NEW v \in Shops, NEW c \in Columns, p # q,
               editPc'[p] = "done", editPc'[q] = "done", Pushes(p), Pushes(q), giver'[t][c] = p, giver'[v][c] = q
        PROVE  FALSE
    <3>1. p # e /\ q # e
      BY <1>2, <2>1 DEF Pushes
    <3>2. giver[t][c] = p /\ giver[v][c] = q
      BY <1>7, <2>1, <3>1
    <3>3. QED
      BY <1>3, <2>1, <3>1, <3>2 DEF SettingsInv, PushesDoNotMix
  <2>2. QED
    BY <1>1, <2>1 DEF PushesDoNotMix, Pushes
<1>21. QED
  BY <1>8, <1>16, <1>17, <1>18, <1>19, <1>20 DEF SettingsInv

LEMMA PushKeeps ==
  ASSUME SettingsInv, NEW e \in Editors, NEW s \in Shops, PushTo(e, s)
  PROVE  SettingsInv'
<1> DEFINE step == IF toPush[e] = {s} THEN "commit" ELSE "push"
<1>1. /\ editPc[e] = "push" /\ s \in toPush[e] /\ ~RowLocked(e, s) /\ EditGoto(e, step)
      /\ toPush' = [toPush EXCEPT ![e] = @ \ {s}] /\ unsaved' = unsaved
      /\ edit' = edit /\ formRead' = formRead /\ sawGiver' = sawGiver /\ orgDefault' = orgDefault
  BY DEF PushTo
<1>2. SettingsTypeOK /\ edit[e].kind = "all" /\ Pushing(e) /\ Pushes(e) /\ ~Saves(e)
  BY <1>1 DEF SettingsInv, Courses, Pushing, Pushes, Saves
<1>3. /\ editPc' \in [Editors -> EditSteps] /\ editPc'[e] = step /\ editPc'[e] \in {"push", "commit"}
      /\ \A u \in Editors : u # e => editPc'[u] = editPc[u]
  BY <1>1, <1>2, EditMoves DEF EditSteps
<1>4. /\ toPush' \in [Editors -> SUBSET Shops] /\ toPush'[e] = toPush[e] \ {s}
      /\ \A u \in Editors : u # e => toPush'[u] = toPush[u]
  BY <1>1, <1>2 DEF SettingsTypeOK
<1>5. \A u \in Editors, t \in Shops : Passed(u, t) => Passed(u, t)'
  BY <1>1, <1>2, <1>3, <1>4, PassedStays
<1>6. ~Passed(e, s) /\ Passed(e, s)'
  BY <1>1, <1>2, <1>3, <1>4 DEF Passed
<1>7. Courses' /\ RowsHeld'
  BY <1>1, <1>2, <1>3, <1>4 DEF SettingsInv, Courses, RowsHeld, Pushing, Pushes, Holding
<1>8. \A u \in Editors : Holding(u) => edit[u].shop # s
  BY <1>1, <1>2 DEF SettingsInv, RowsHeld, RowLocked, Holding
<1>9. \A u \in Editors : (Holding(u)' <=> Holding(u)) /\ (Pushing(u)' <=> Pushing(u))
  BY <1>1, <1>2, <1>3 DEF Holding, Pushing, Pushes
<1>10. CASE settings[s] = NoRow
  <2>1. settings' = settings /\ giver' = giver /\ given' = given
    BY <1>10 DEF PushTo
  <2>2. SettingsTypeOK'
    BY <1>1, <1>2, <1>3, <1>4, <2>1 DEF SettingsTypeOK, EditSteps
  <2>3. /\ RevertedOnlyByOverlap' /\ \A t \in Shops, c \in Columns : Overlapped(t, c) => Overlapped(t, c)'
    <3>1. \A u \in Editors : editPc[u] = "done" => editPc'[u] = "done" /\ sawGiver'[u] = sawGiver[u]
      BY <1>1, <1>3
    <3>2. QED
      BY <1>1, <2>1, <3>1, OverlapStays DEF SettingsInv
  <2>4. ReadingsStand'
    BY <1>1, <1>2, <1>3, <2>1, <2>3, ReadingsKept
  <2>5. Composed'
    BY <1>1, <1>9, <2>1 DEF SettingsInv, Composed, Saves, Over_Row, Asks
  <2>6. Givers'
    <3>1. ASSUME NEW t \in Shops, NEW c \in Columns, NEW u \in Editors, giver'[t][c] = u
          PROVE  (c \in Asks(u))' /\ edit'[u].kind # "future" /\ Passed(u, t)' /\ settings'[t] # NoRow
      BY <1>1, <1>5, <2>1, <3>1 DEF SettingsInv, Givers, Asks
    <3>2. ASSUME NEW u \in Editors, NEW c \in Columns, NEW v \in Editors, sawGiver'[u][c] = v
          PROVE  Passed(v, edit[u].shop)'
      <4>1. Passed(v, edit[u].shop) /\ edit[u].shop \in Shops
        BY <1>1, <1>2, <3>2, AsksTyped DEF SettingsInv, Givers
      <4>2. \A t \in Shops : t = edit[u].shop => Passed(v, t)'
        BY <1>5, <4>1
      <4>3. QED
        BY <1>1, <4>1, <4>2 DEF Passed
    <3>3. QED
      BY <2>1, <3>1, <3>2 DEF SettingsInv, Givers
  <2>7. PushesInTurn'
    <3>1. ASSUME NEW p \in Editors, NEW t \in Shops, NEW c \in Columns, giver[t][c] = p PROVE t # s
      BY <1>10, <3>1 DEF SettingsInv, Givers
    <3>2. ASSUME NEW p \in Editors, NEW q \in Editors, NEW t \in Shops, NEW c \in Columns, p # q, Pushes(p),
                 editPc'[p] = "done", giver[t][c] = p, Pushing(q)', c \in Asks(q), edit[q].kind = "all"
          PROVE  t \in toPush'[q]
      <4>1. editPc[p] = "done" /\ Pushing(q)
        BY <1>3, <1>9, <3>2
      <4>2. t \in toPush[q] /\ t # s
        BY <3>1, <3>2, <4>1 DEF SettingsInv, PushesInTurn
      <4>3. QED
        BY <1>4, <4>2
    <3>3. QED
      BY <1>1, <2>1, <3>2 DEF PushesInTurn, Pushes, Asks
  <2>8. PushesDoNotMix'
    BY <1>1, <1>3, <2>1 DEF SettingsInv, PushesDoNotMix, Pushes
  <2>9. QED
    BY <1>7, <2>2, <2>3, <2>4, <2>5, <2>6, <2>7, <2>8 DEF SettingsInv
<1>11. CASE settings[s] # NoRow
  <2> DEFINE row == Over_Row(e, settings[s])
  <2>1. settings' = [settings EXCEPT ![s] = row] /\ Give(e, {s})
    BY <1>11 DEF PushTo
  <2>2. settings[s] \in Filled
    BY <1>2, <1>11 DEF SettingsTypeOK
  <2>3. row \in Filled /\ row # NoRow
        /\ \A c \in Columns : row[c] = IF c \in Asks(e) THEN edit[e].asks[c] ELSE settings[s][c]
    BY <1>2, <2>2, OverTyped
  <2> HIDE DEF row
  <2>4. /\ settings' \in [Shops -> Filled \cup {NoRow}] /\ settings'[s] = row
        /\ \A t \in Shops : t # s => settings'[t] = settings[t]
    BY <1>2, <2>1, <2>3 DEF SettingsTypeOK
  <2>5. /\ giver' \in [Shops -> [Columns -> Editors \cup {Original}]] /\ given' \in [Shops -> Filled]
        /\ \A t \in Shops, c \in Columns :
             IF t = s /\ c \in Asks(e) THEN giver'[t][c] = e /\ given'[t][c] = edit[e].asks[c]
             ELSE giver'[t][c] = giver[t][c] /\ given'[t][c] = given[t][c]
    BY <1>2, <2>1, Gives
  <2>6. SettingsTypeOK'
    BY <1>1, <1>2, <1>3, <1>4, <2>4, <2>5 DEF SettingsTypeOK, EditSteps
  <2>7. ASSUME NEW c \in Columns \ Asks(e), row[c] # given[s][c] PROVE Overlapped(s, c)'
    <3>1. Overlapped(s, c)
      BY <1>11, <2>3, <2>7 DEF SettingsInv, RevertedOnlyByOverlap, Overlapped, Saves
    <3>2. PICK u \in Editors : /\ editPc[u] = "done" /\ Saves(u) /\ edit[u].shop = s /\ c \notin Asks(u)
                               /\ sawGiver[u][c] # giver[s][c]
      BY <3>1 DEF Overlapped
    <3>3. editPc'[u] = "done" /\ giver'[s][c] = giver[s][c]
      BY <1>1, <1>3, <2>5, <2>7, <3>2
    <3>4. QED
      BY <1>1, <3>2, <3>3 DEF Overlapped, Saves, Asks
  <2>8. Givers' /\ ReadingsStand' /\ RevertedOnlyByOverlap'
    <3>1. /\ \A c \in Asks(e) : row[c] = edit[e].asks[c]
          /\ \A c \in Columns \ Asks(e) : row[c] # given[s][c] => Overlapped(s, c)'
          /\ edit[e].kind # "future" /\ editPc[e] = "done" => editPc'[e] = "done"
      BY <1>1, <1>2, <2>3, <2>7, AsksTyped
    <3>2. QED
      BY <1>1, <1>2, <1>3, <1>5, <1>6, <2>1, <2>3, <2>4, <3>1, GivingKeeps
  <2>9. Composed'
    <3>1. ASSUME NEW u \in Editors, Holding(u)'
          PROVE  IF Saves(u) THEN unsaved[u] = Over_Row(u, formRead[u])
                 ELSE settings'[edit[u].shop] # NoRow /\ unsaved[u] = Over_Row(u, settings'[edit[u].shop])
      <4>1. Holding(u) /\ edit[u].shop # s /\ edit[u].shop \in Shops
        BY <1>2, <1>8, <1>9, <3>1, AsksTyped
      <4>2. QED
        BY <2>4, <4>1 DEF SettingsInv, Composed
    <3>2. QED
      BY <1>1, <3>1 DEF Composed, Saves, Over_Row, Asks
  <2>10. PushesInTurn'
    <3>1. ASSUME NEW p \in Editors, NEW q \in Editors, NEW t \in Shops, NEW c \in Columns, p # q, Pushes(p),
                 editPc'[p] = "done", giver'[t][c] = p, Pushing(q)', c \in Asks(q), edit[q].kind = "all"
          PROVE  t \in toPush'[q]
      <4>1. p # e /\ editPc[p] = "done" /\ Pushing(q)
        BY <1>3, <1>9, <3>1
      <4>2. giver[t][c] = p /\ ~(t = s /\ c \in Asks(e))
        BY <2>5, <3>1, <4>1
      <4>3. t \in toPush[q]
        BY <3>1, <4>1, <4>2 DEF SettingsInv, PushesInTurn
      <4>4. QED
        BY <1>4, <3>1, <4>2, <4>3
    <3>2. QED
      BY <1>1, <3>1 DEF PushesInTurn, Pushes, Asks
  <2>11. PushesDoNotMix'
    <3>1. ASSUME NEW p \in Editors, NEW q \in Editors, NEW t \in Shops, NEW v \in Shops, NEW c \in Columns, p # q,
                 editPc'[p] = "done", editPc'[q] = "done", Pushes(p), Pushes(q), giver'[t][c] = p, giver'[v][c] = q
          PROVE  FALSE
      <4>1. p # e /\ q # e
        BY <1>3, <3>1
      <4>2. giver[t][c] = p /\ giver[v][c] = q
        BY <2>5, <3>1, <4>1
      <4>3. QED
        BY <1>3, <3>1, <4>1, <4>2 DEF SettingsInv, PushesDoNotMix
    <3>2. QED
      BY <1>1, <3>1 DEF PushesDoNotMix, Pushes
  <2>12. QED
    BY <1>7, <2>6, <2>8, <2>9, <2>10, <2>11 DEF SettingsInv
<1>12. QED
  BY <1>10, <1>11

LEMMA SettingsStep == SettingsInv /\ [SettingsNext]_settingsVars => SettingsInv'
<1> SUFFICES ASSUME SettingsInv, [SettingsNext]_settingsVars PROVE SettingsInv'
  OBVIOUS
<1>1. ASSUME NEW e \in Editors, ReadSettings(e) PROVE SettingsInv'
  BY <1>1, ReadKeeps
<1>2. ASSUME NEW e \in Editors, BeginEdit(e) PROVE SettingsInv'
  BY <1>2, BeginKeeps
<1>3. ASSUME NEW e \in Editors, WriteSettings(e) PROVE SettingsInv'
  BY <1>3, WriteKeeps
<1>4. ASSUME NEW e \in Editors, CommitSettings(e) PROVE SettingsInv'
  BY <1>4, CommitSettingsKeeps
<1>5. ASSUME NEW e \in Editors, SaveDefault(e) PROVE SettingsInv'
  BY <1>5, SaveDefaultKeeps
<1>6. ASSUME NEW e \in Editors, NEW s \in Shops, PushTo(e, s) PROVE SettingsInv'
  BY <1>6, PushKeeps
<1>7. ASSUME NEW e \in Editors, CommitDefault(e) PROVE SettingsInv'
  BY <1>7, CommitDefaultKeeps
<1>8. ASSUME NEW e \in Editors, DropEdit(e) PROVE SettingsInv'
  BY <1>8, DropKeeps
<1>9. CASE UNCHANGED settingsVars
  <2>1. SettingsTypeOK' /\ Courses' /\ RowsHeld' /\ PushesInTurn' /\ PushesDoNotMix'
    BY <1>9 DEF settingsVars, SettingsInv, SettingsTypeOK, Courses, RowsHeld, PushesInTurn, PushesDoNotMix,
                Pushing, Pushes, Holding, Asks
  <2>2. Composed' /\ Givers'
    BY <1>9 DEF settingsVars, SettingsInv, Composed, Givers, Passed, Pushes, Holding, Saves, Over_Row, Asks
  <2>3. ReadingsStand' /\ RevertedOnlyByOverlap'
    BY <1>9 DEF settingsVars, SettingsInv, ReadingsStand, RevertedOnlyByOverlap, Overlapped, Saves, Asks
  <2>4. QED
    BY <2>1, <2>2, <2>3 DEF SettingsInv
<1>10. QED
  BY <1>1, <1>2, <1>3, <1>4, <1>5, <1>6, <1>7, <1>8, <1>9 DEF SettingsNext

\* A setting that was saved is lost to no other request but a save that overlapped it, and of two
\* pushes by the organization no shop keeps the one and another the other (the saves of
\* settings.service.ts, pushToLocations of organization-settings.service.ts): for any number of
\* shops, columns, saves, patches and pushes.
THEOREM OverlapsExplain == SettingsSpec => []OverwritesNeedOverlap
<1>1. SettingsInv => OverwritesNeedOverlap
  BY DEF SettingsInv, OverwritesNeedOverlap
<1>2. QED
  BY <1>1, SettingsStart, SettingsStep, PTL DEF SettingsSpec

\* A request that saves or pushes is at one of its handler's steps, what it read and will commit are rows,
\* and every value of a column was given by somebody.
THEOREM SettingsTyped == SettingsSpec => []SettingsTypeOK
<1>1. SettingsInv => SettingsTypeOK
  BY DEF SettingsInv
<1> QED BY <1>1, SettingsStart, SettingsStep, PTL DEF SettingsSpec

-----------------------------------------------------------------------------
(***************************************************************************)
(* Pool.  Every connection is in the pool once or held by one place of one *)
(* request, and the middleware's flags say which.                          *)
(***************************************************************************)

\* The middleware's connection is the request's from when it was got until finish() has run, and
\* finish() runs when the response is sent or when a client is heard to hang up.
Lending ==
  \A v \in Requests :
    /\ visitPc[v] = "connect" <=> lent[v] = NoConn
    /\ v \in settled => visitPc[v] \notin {"connect", "begin"}
    /\ visitPc[v] = "sent" => v \in settled
    /\ visitPc[v] \in {"work", "nests"} => (v \in settled <=> hung[v] = "late")
    /\ visitPc[v] = "over" => v \in settled \/ hung[v] = "early"
    /\ hung[v] = "late" => v \in settled

\* A nested transaction has a connection while it works, inside the handler.
Nesting ==
  \A v \in Requests, p \in Places :
    /\ nestPc[v][p] = "work" <=> nestConn[v][p] # NoConn
    /\ nestPc[v][p] = "work" => visitPc[v] = "nests"

\* A connection is the pool's or somebody's, ...
Conserved == \A c \in Connections : idle[c] \in {0, 1} /\ (idle[c] = 0 <=> \E v \in Requests : Holds(v, c))

\* ... and nobody else's.
OneClaim ==
  \A c \in Connections, v, u \in Requests :
    /\ (lent[v] = c /\ lent[u] = c /\ v \notin settled /\ u \notin settled) => v = u
    /\ \A p \in Places : (lent[v] = c /\ v \notin settled) => nestConn[u][p] # c
    /\ \A p, q \in Places : (nestConn[v][p] = c /\ nestConn[u][q] = c) => v = u /\ p = q

\* The session variables are a request's while it has the connection, and nobody's before.
Scoped ==
  /\ \A c \in Connections : idle[c] = 1 => scope[c] = NoPlace
  /\ \A v \in Requests : v \notin settled =>
       /\ visitPc[v] = "begin" => scope[lent[v]] = NoPlace
       /\ visitPc[v] \in {"work", "nests"} => scope[lent[v]] = Scope(v)

PoolInv == PoolTypeOK /\ Lending /\ Nesting /\ Conserved /\ OneClaim /\ Scoped /\ RunsUnderItsOwnShop
VisitSteps == {"connect", "begin", "work", "nests", "sent", "over"}

LEMMA VisitMoves ==
  ASSUME PoolTypeOK, NEW v \in Requests, NEW step \in VisitSteps, VisitGoto(v, step)
  PROVE  /\ visitPc' \in [Requests -> VisitSteps]
         /\ visitPc'[v] = step /\ \A u \in Requests : u # v => visitPc'[u] = visitPc[u]
  BY DEF PoolTypeOK, VisitGoto, VisitSteps

LEMMA ScopeTyped ==
  ASSUME PoolTypeOK, NEW v \in Requests
  PROVE  Scope(v) \in Places \cup {NoPlace}
<1>1. person[v] \in Person
  BY DEF PoolTypeOK
<1>2. QED
  BY <1>1 DEF Person, Scope

LEMMA PoolStarts == PoolInit => PoolInv
<1> SUFFICES ASSUME PoolInit PROVE PoolInv
  OBVIOUS
<1>1. PoolTypeOK
  BY PoolConstants DEF PoolInit, PoolTypeOK
<1>2. Lending /\ Nesting /\ OneClaim /\ Scoped /\ RunsUnderItsOwnShop
  BY PoolConstants DEF PoolInit, Lending, Nesting, OneClaim, Scoped, RunsUnderItsOwnShop
<1>3. Conserved
  BY PoolConstants DEF PoolInit, Conserved, Holds
<1>4. QED
  BY <1>1, <1>2, <1>3 DEF PoolInv

\* finish() gives the connection back, clean, or has done so before.
LEMMA Finishes ==
  ASSUME PoolInv, NEW v \in Requests, Finish(v), lent[v] # NoConn,
         person' = person, lent' = lent, nestConn' = nestConn
  PROVE  /\ settled' = settled \cup {v} /\ idle' \in [Connections -> Nat]
         /\ scope' \in [Connections -> Places \cup {NoPlace}]
         /\ \A c \in Connections : c # lent[v] \/ v \in settled => scope'[c] = scope[c]
         /\ Conserved' /\ OneClaim' /\ \A c \in Connections : idle'[c] = 1 => scope'[c] = NoPlace
         /\ \A u \in Requests : (u \notin settled' /\ lent[u] # NoConn) => scope'[lent[u]] = scope[lent[u]]
<1> DEFINE c == lent[v]
<1>1. PoolTypeOK /\ c \in Connections /\ \A u \in Requests : lent[u] \in Connections \cup {NoConn}
  BY DEF PoolInv, PoolTypeOK
<1>2. CASE v \in settled
  <2>1. settled' = settled /\ idle' = idle /\ scope' = scope
    BY <1>2 DEF Finish, Settled
  <2>2. Conserved' /\ OneClaim'
    BY <2>1 DEF PoolInv, Conserved, OneClaim, Holds
  <2>3. QED
    BY <1>1, <1>2, <2>1, <2>2 DEF PoolInv, PoolTypeOK, Scoped
<1>3. CASE v \notin settled
  <2>1. /\ settled' = settled \cup {v} /\ idle' = [idle EXCEPT ![c] = @ + 1]
        /\ scope' = [scope EXCEPT ![c] = NoPlace]
    BY <1>3 DEF Finish, Settled, ScopeAfter
  <2>2. idle[c] = 0
    BY <1>1, <1>3 DEF PoolInv, Conserved, Holds
  <2>3. /\ idle' \in [Connections -> Nat] /\ idle'[c] = 1 /\ \A d \in Connections : d # c => idle'[d] = idle[d]
    BY <1>1, <2>1, <2>2 DEF PoolTypeOK
  <2>4. /\ scope' \in [Connections -> Places \cup {NoPlace}] /\ scope'[c] = NoPlace
        /\ \A d \in Connections : d # c => scope'[d] = scope[d]
    BY <1>1, <2>1 DEF PoolTypeOK
  <2>5. \A u \in Requests : ~Holds(u, c)'
    BY <1>1, <1>3, <2>1 DEF PoolInv, OneClaim, Holds
  <2>6. \A d \in Connections, u \in Requests : d # c => (Holds(u, d)' <=> Holds(u, d))
    BY <2>1 DEF Holds
  <2>7. Conserved'
    BY <2>3, <2>5, <2>6 DEF PoolInv, Conserved
  <2>8. OneClaim'
    BY <2>1 DEF PoolInv, OneClaim
  <2>9. \A u \in Requests : (u \notin settled' /\ lent[u] # NoConn) => lent[u] # c
    BY <1>1, <1>3, <2>1 DEF PoolInv, OneClaim
  <2>10. QED
    BY <1>1, <1>3, <2>1, <2>3, <2>4, <2>7, <2>8, <2>9 DEF PoolInv, Scoped
<1>4. QED
  BY <1>2, <1>3

LEMMA ConnectKeeps ==
  ASSUME PoolInv, NEW v \in Requests, Connect(v)
  PROVE  PoolInv'
<1>1. PICK c \in Connections : /\ idle[c] > 0 /\ idle' = [idle EXCEPT ![c] = @ - 1]
                               /\ lent' = [lent EXCEPT ![v] = c]
  BY DEF Connect
<1>2. /\ visitPc[v] = "connect" /\ VisitGoto(v, "begin") /\ person' = person /\ settled' = settled
      /\ hung' = hung /\ nestPc' = nestPc /\ nestConn' = nestConn /\ scope' = scope /\ ranIn' = ranIn
  BY DEF Connect
<1>3. PoolTypeOK /\ lent[v] = NoConn /\ v \notin settled
  BY <1>2 DEF PoolInv, Lending
<1>4. /\ visitPc' \in [Requests -> VisitSteps] /\ visitPc'[v] = "begin"
      /\ \A u \in Requests : u # v => visitPc'[u] = visitPc[u]
  BY <1>2, <1>3, VisitMoves DEF VisitSteps
<1>5. idle[c] = 1 /\ \A u \in Requests : ~Holds(u, c)
  BY <1>1 DEF PoolInv, Conserved
<1>6. /\ idle' \in [Connections -> Nat] /\ idle'[c] = 0 /\ \A d \in Connections : d # c => idle'[d] = idle[d]
  BY <1>1, <1>3, <1>5 DEF PoolTypeOK
<1>7. /\ lent' \in [Requests -> Connections \cup {NoConn}] /\ lent'[v] = c
      /\ \A u \in Requests : u # v => lent'[u] = lent[u]
  BY <1>1, <1>3 DEF PoolTypeOK
<1>8. PoolTypeOK'
  BY <1>2, <1>3, <1>4, <1>6, <1>7 DEF PoolTypeOK, VisitSteps
<1>9. Lending' /\ Nesting'
  BY <1>2, <1>3, <1>4, <1>7, PoolConstants DEF PoolInv, Lending, Nesting
<1>10. Conserved'
  <2>1. Holds(v, c)'
    BY <1>2, <1>3, <1>7 DEF Holds
  <2>2. \A d \in Connections, u \in Requests : d # c => (Holds(u, d)' <=> Holds(u, d))
    BY <1>2, <1>3, <1>7, PoolConstants DEF Holds
  <2>3. QED
    BY <1>6, <2>1, <2>2 DEF PoolInv, Conserved
<1>11. OneClaim'
  BY <1>2, <1>3, <1>5, <1>7, PoolConstants DEF PoolInv, OneClaim, Holds
<1>12. Scoped'
  <2>1. \A d \in Connections : idle'[d] = 1 => scope[d] = NoPlace
    BY <1>5, <1>6 DEF PoolInv, Scoped
  <2>2. scope[c] = NoPlace
    BY <1>5 DEF PoolInv, Scoped
  <2>3. QED
    BY <1>2, <1>4, <1>7, <2>1, <2>2 DEF PoolInv, Scoped, Scope
<1>13. RunsUnderItsOwnShop'
  BY <1>2 DEF PoolInv, RunsUnderItsOwnShop, Scope
<1>14. QED
  BY <1>8, <1>9, <1>10, <1>11, <1>12, <1>13 DEF PoolInv

LEMMA BeginVisitKeeps ==
  ASSUME PoolInv, NEW v \in Requests, BeginVisit(v)
  PROVE  PoolInv'
<1>1. /\ visitPc[v] = "begin" /\ person' = person /\ lent' = lent /\ hung' = hung /\ nestPc' = nestPc
      /\ nestConn' = nestConn /\ ranIn' = ranIn
  BY DEF BeginVisit
<1>2. PoolTypeOK /\ lent[v] \in Connections /\ lent[v] # NoConn /\ v \notin settled
      /\ \A u \in Requests : lent[u] \in Connections \cup {NoConn}
  BY <1>1 DEF PoolInv, PoolTypeOK, Lending
<1>3. CASE Forbidden(v)
  <2>1. Finish(v) /\ VisitGoto(v, "over")
    BY <1>3 DEF BeginVisit
  <2>2. /\ visitPc' \in [Requests -> VisitSteps] /\ visitPc'[v] = "over"
        /\ \A u \in Requests : u # v => visitPc'[u] = visitPc[u]
    BY <1>2, <2>1, VisitMoves DEF VisitSteps
  <2>3. /\ settled' = settled \cup {v} /\ idle' \in [Connections -> Nat]
        /\ scope' \in [Connections -> Places \cup {NoPlace}]
        /\ Conserved' /\ OneClaim' /\ \A c \in Connections : idle'[c] = 1 => scope'[c] = NoPlace
        /\ \A u \in Requests : (u \notin settled' /\ lent[u] # NoConn) => scope'[lent[u]] = scope[lent[u]]
    BY <1>1, <1>2, <2>1, Finishes
  <2>4. PoolTypeOK'
    BY <1>1, <1>2, <2>2, <2>3 DEF PoolTypeOK, VisitSteps
  <2>5. Lending' /\ Nesting'
    BY <1>1, <1>2, <2>2, <2>3 DEF PoolInv, Lending, Nesting
  <2>6. Scoped'
    BY <1>1, <1>2, <2>2, <2>3 DEF PoolInv, Lending, Scoped, Scope
  <2>7. RunsUnderItsOwnShop'
    BY <1>1 DEF PoolInv, RunsUnderItsOwnShop, Scope
  <2>8. QED
    BY <2>3, <2>4, <2>5, <2>6, <2>7 DEF PoolInv
<1>4. CASE ~Forbidden(v)
  <2>1. /\ scope' = IF Scope(v) = NoPlace THEN scope ELSE [scope EXCEPT ![lent[v]] = Scope(v)]
        /\ VisitGoto(v, "work") /\ settled' = settled /\ idle' = idle
    BY <1>4 DEF BeginVisit
  <2>2. /\ visitPc' \in [Requests -> VisitSteps] /\ visitPc'[v] = "work"
        /\ \A u \in Requests : u # v => visitPc'[u] = visitPc[u]
    BY <1>2, <2>1, VisitMoves DEF VisitSteps
  <2>3. scope[lent[v]] = NoPlace /\ Scope(v) \in Places \cup {NoPlace}
    BY <1>1, <1>2, ScopeTyped DEF PoolInv, Scoped
  <2>4. /\ scope' \in [Connections -> Places \cup {NoPlace}] /\ scope'[lent[v]] = Scope(v)
        /\ \A c \in Connections : c # lent[v] => scope'[c] = scope[c]
    BY <1>2, <2>1, <2>3 DEF PoolTypeOK
  <2>5. PoolTypeOK'
    BY <1>1, <1>2, <2>1, <2>2, <2>4 DEF PoolTypeOK, VisitSteps
  <2>6. Lending' /\ Nesting'
    <3>1. hung[v] # "late"
      BY <1>1, <1>2 DEF PoolInv, Lending
    <3>2. QED
      BY <1>1, <1>2, <2>1, <2>2, <3>1 DEF PoolInv, Lending, Nesting
  <2>7. Conserved' /\ OneClaim'
    BY <1>1, <2>1 DEF PoolInv, Conserved, OneClaim, Holds
  <2>8. Scoped'
    <3>1. idle[lent[v]] = 0
      BY <1>2 DEF PoolInv, Conserved, Holds
    <3>2. \A u \in Requests : (u # v /\ u \notin settled /\ lent[u] # NoConn) => scope'[lent[u]] = scope[lent[u]]
      BY <1>2, <2>4 DEF PoolInv, OneClaim
    <3>3. \A c \in Connections : idle[c] = 1 => scope'[c] = NoPlace
      BY <2>4, <3>1 DEF PoolInv, Scoped
    <3>4. QED
      BY <1>1, <1>2, <2>1, <2>2, <2>4, <3>2, <3>3 DEF PoolInv, Lending, Scoped, Scope
  <2>9. RunsUnderItsOwnShop'
    BY <1>1 DEF PoolInv, RunsUnderItsOwnShop, Scope
  <2>10. QED
    BY <2>5, <2>6, <2>7, <2>8, <2>9 DEF PoolInv
<1>5. QED
  BY <1>3, <1>4

LEMMA StatementKeeps ==
  ASSUME PoolInv, NEW v \in Requests, Statement(v)
  PROVE  PoolInv'
<1>1. /\ visitPc[v] = "work" /\ VisitGoto(v, "nests") /\ ranIn' = [ranIn EXCEPT ![v] = @ \cup {scope[lent[v]]}]
      /\ idle' = idle /\ person' = person /\ lent' = lent /\ hung' = hung /\ nestPc' = nestPc
      /\ nestConn' = nestConn /\ scope' = scope /\ settled' = settled
  BY DEF Statement, Kept
<1>2. PoolTypeOK /\ lent[v] \in Connections
  BY <1>1 DEF PoolInv, PoolTypeOK, Lending
<1>3. /\ visitPc' \in [Requests -> VisitSteps] /\ visitPc'[v] = "nests"
      /\ \A u \in Requests : u # v => visitPc'[u] = visitPc[u]
  BY <1>1, <1>2, VisitMoves DEF VisitSteps
<1>4. scope[lent[v]] \in Places \cup {NoPlace}
  BY <1>2 DEF PoolTypeOK
<1>5. /\ ranIn' \in [Requests -> SUBSET (Places \cup {NoPlace})] /\ ranIn'[v] = ranIn[v] \cup {scope[lent[v]]}
      /\ \A u \in Requests : u # v => ranIn'[u] = ranIn[u]
  BY <1>1, <1>2, <1>4 DEF PoolTypeOK
<1>6. PoolTypeOK'
  BY <1>1, <1>2, <1>3, <1>5 DEF PoolTypeOK, VisitSteps
<1>7. Lending' /\ Nesting'
  BY <1>1, <1>3 DEF PoolInv, Lending, Nesting
<1>8. Conserved' /\ OneClaim'
  BY <1>1 DEF PoolInv, Conserved, OneClaim, Holds
<1>9. Scoped'
  BY <1>1, <1>3 DEF PoolInv, Scoped, Scope
<1>10. RunsUnderItsOwnShop'
  <2>1. hung[v] # "late" => scope[lent[v]] = Scope(v)
    BY <1>1 DEF PoolInv, Lending, Scoped
  <2>2. QED
    BY <1>1, <1>5, <2>1 DEF PoolInv, RunsUnderItsOwnShop, Scope
<1>11. QED
  BY <1>6, <1>7, <1>8, <1>9, <1>10 DEF PoolInv
\* An assignment to one entry of a table of tables.
LEMMA EntryMoves ==
  ASSUME NEW S, NEW f \in [Requests -> [Places -> S]], NEW v \in Requests, NEW p \in Places, NEW x \in S
  PROVE  /\ [f EXCEPT ![v][p] = x] \in [Requests -> [Places -> S]]
         /\ [f EXCEPT ![v][p] = x][v][p] = x
         /\ \A u \in Requests, q \in Places : u # v \/ q # p => [f EXCEPT ![v][p] = x][u][q] = f[u][q]
  OBVIOUS

LEMMA NestConnectKeeps ==
  ASSUME PoolInv, NEW v \in Requests, NEW p \in Places, NestConnect(v, p)
  PROVE  PoolInv'
<1>1. PICK c \in Connections : /\ idle[c] > 0 /\ idle' = [idle EXCEPT ![c] = @ - 1]
                               /\ nestConn' = [nestConn EXCEPT ![v][p] = c] /\ scope' = [scope EXCEPT ![c] = p]
  BY DEF NestConnect
<1>2. /\ visitPc[v] = "nests" /\ nestPc[v][p] = "due" /\ nestPc' = [nestPc EXCEPT ![v][p] = "work"]
      /\ person' = person /\ visitPc' = visitPc /\ settled' = settled /\ hung' = hung /\ lent' = lent /\ ranIn' = ranIn
  BY DEF NestConnect
<1>3. PoolTypeOK /\ nestConn[v][p] = NoConn
  BY <1>2 DEF PoolInv, Nesting
<1>4. idle[c] = 1 /\ \A u \in Requests : ~Holds(u, c)
  BY <1>1 DEF PoolInv, Conserved
<1>5. /\ idle' \in [Connections -> Nat] /\ idle'[c] = 0 /\ \A d \in Connections : d # c => idle'[d] = idle[d]
  BY <1>1, <1>3, <1>4 DEF PoolTypeOK
<1>6. /\ scope' \in [Connections -> Places \cup {NoPlace}] /\ \A d \in Connections : d # c => scope'[d] = scope[d]
  BY <1>1, <1>3 DEF PoolTypeOK
<1>7. /\ nestPc' \in [Requests -> [Places -> {"due", "work", "done"}]]
      /\ nestConn' \in [Requests -> [Places -> Connections \cup {NoConn}]]
      /\ nestPc'[v][p] = "work" /\ nestConn'[v][p] = c
      /\ \A u \in Requests, q \in Places :
           u # v \/ q # p => nestPc'[u][q] = nestPc[u][q] /\ nestConn'[u][q] = nestConn[u][q]
  <2>1. /\ nestPc \in [Requests -> [Places -> {"due", "work", "done"}]]
        /\ nestConn \in [Requests -> [Places -> Connections \cup {NoConn}]]
    BY <1>3 DEF PoolTypeOK
  <2>2. /\ nestPc' \in [Requests -> [Places -> {"due", "work", "done"}]] /\ nestPc'[v][p] = "work"
        /\ \A u \in Requests, q \in Places : u # v \/ q # p => nestPc'[u][q] = nestPc[u][q]
    BY <1>2, <2>1, EntryMoves
  <2>3. /\ nestConn' \in [Requests -> [Places -> Connections \cup {NoConn}]] /\ nestConn'[v][p] = c
        /\ \A u \in Requests, q \in Places : u # v \/ q # p => nestConn'[u][q] = nestConn[u][q]
    BY <1>1, <2>1, EntryMoves
  <2>4. QED
    BY <2>2, <2>3
<1>8. PoolTypeOK'
  BY <1>2, <1>3, <1>5, <1>6, <1>7 DEF PoolTypeOK
<1>9. Lending' /\ Nesting'
  BY <1>2, <1>7, PoolConstants DEF PoolInv, Lending, Nesting
<1>10. Conserved'
  <2>1. Holds(v, c)'
    BY <1>7 DEF Holds
  <2>2. ASSUME NEW d \in Connections, d # c, NEW u \in Requests PROVE Holds(u, d)' <=> Holds(u, d)
    <3>1. \A q \in Places : nestConn'[u][q] = d <=> nestConn[u][q] = d
      BY <1>3, <1>7, <2>2, PoolConstants
    <3>2. QED
      BY <1>2, <3>1 DEF Holds
  <2>3. QED
    BY <1>5, <2>1, <2>2 DEF PoolInv, Conserved
<1>11. OneClaim'
  <2>1. \A u \in Requests : ~(lent[u] = c /\ u \notin settled) /\ \A q \in Places : nestConn[u][q] # c
    BY <1>4 DEF Holds
  <2>2. ASSUME NEW d \in Connections, NEW u \in Requests, NEW w \in Requests, NEW q \in Places, NEW r \in Places,
               nestConn'[u][q] = d, nestConn'[w][r] = d
        PROVE  u = w /\ q = r
    <3>1. CASE d = c
      <4>1. u = v /\ q = p
        BY <1>7, <2>1, <2>2, <3>1
      <4>2. w = v /\ r = p
        BY <1>7, <2>1, <2>2, <3>1
      <4>3. QED
        BY <4>1, <4>2
    <3>2. CASE d # c
      <4>1. nestConn[u][q] = d /\ nestConn[w][r] = d
        BY <1>7, <2>2, <3>2
      <4>2. QED
        BY <4>1 DEF PoolInv, OneClaim
    <3>3. QED
      BY <3>1, <3>2
  <2>3. ASSUME NEW d \in Connections, NEW u \in Requests, NEW w \in Requests, NEW q \in Places,
               lent[u] = d, u \notin settled, nestConn'[w][q] = d
        PROVE  FALSE
    <3>1. d # c
      BY <2>1, <2>3
    <3>2. nestConn[w][q] = d
      BY <1>7, <2>3, <3>1
    <3>3. QED
      BY <2>3, <3>2 DEF PoolInv, OneClaim
  <2>4. QED
    BY <1>2, <2>2, <2>3 DEF PoolInv, OneClaim
<1>12. Scoped'
  <2>1. \A u \in Requests : u \notin settled /\ lent[u] # NoConn => lent[u] # c /\ lent[u] \in Connections
    BY <1>3, <1>4 DEF Holds, PoolTypeOK
  <2>2. \A d \in Connections : idle'[d] = 1 => scope'[d] = NoPlace
    BY <1>5, <1>6 DEF PoolInv, Scoped
  <2>3. QED
    BY <1>2, <1>6, <2>1, <2>2 DEF PoolInv, Lending, Scoped, Scope
<1>13. RunsUnderItsOwnShop'
  BY <1>2 DEF PoolInv, RunsUnderItsOwnShop, Scope
<1>14. QED
  BY <1>8, <1>9, <1>10, <1>11, <1>12, <1>13 DEF PoolInv

LEMMA NestFinishKeeps ==
  ASSUME PoolInv, NEW v \in Requests, NEW p \in Places, NEW fails \in BOOLEAN, NestFinish(v, p, fails)
  PROVE  PoolInv'
<1>1. nestPc[v][p] = "work" /\ PoolTypeOK /\ nestConn[v][p] \in Connections
  BY DEF NestFinish, PoolInv, Nesting, PoolTypeOK
<1>2. PICK c \in Connections : c = nestConn[v][p]
  BY <1>1
<1>3. /\ nestPc[v][p] = "work" /\ idle' = [idle EXCEPT ![c] = @ + 1] /\ scope' = [scope EXCEPT ![c] = NoPlace]
      /\ nestPc' = [nestPc EXCEPT ![v][p] = "done"] /\ nestConn' = [nestConn EXCEPT ![v][p] = NoConn]
      /\ person' = person /\ visitPc' = visitPc /\ settled' = settled /\ hung' = hung /\ lent' = lent /\ ranIn' = ranIn
  BY <1>2 DEF NestFinish, NestFailed, ScopeAfter
<1>4. PoolTypeOK /\ c \in Connections /\ nestConn[v][p] = c
  BY <1>1, <1>2
<1>5. idle[c] = 0
  BY <1>4 DEF PoolInv, Conserved, Holds
<1>6. /\ idle' \in [Connections -> Nat] /\ idle'[c] = 1 /\ \A d \in Connections : d # c => idle'[d] = idle[d]
  BY <1>3, <1>4, <1>5 DEF PoolTypeOK
<1>7. /\ scope' \in [Connections -> Places \cup {NoPlace}] /\ scope'[c] = NoPlace
      /\ \A d \in Connections : d # c => scope'[d] = scope[d]
  BY <1>3, <1>4 DEF PoolTypeOK
<1>8. /\ nestPc' \in [Requests -> [Places -> {"due", "work", "done"}]]
      /\ nestConn' \in [Requests -> [Places -> Connections \cup {NoConn}]]
      /\ nestPc'[v][p] = "done" /\ nestConn'[v][p] = NoConn
      /\ \A u \in Requests, q \in Places :
           u # v \/ q # p => nestPc'[u][q] = nestPc[u][q] /\ nestConn'[u][q] = nestConn[u][q]
  <2>1. /\ nestPc \in [Requests -> [Places -> {"due", "work", "done"}]]
        /\ nestConn \in [Requests -> [Places -> Connections \cup {NoConn}]]
    BY <1>4 DEF PoolTypeOK
  <2>2. /\ nestPc' \in [Requests -> [Places -> {"due", "work", "done"}]] /\ nestPc'[v][p] = "done"
        /\ \A u \in Requests, q \in Places : u # v \/ q # p => nestPc'[u][q] = nestPc[u][q]
    BY <1>3, <2>1, EntryMoves
  <2>3. /\ nestConn' \in [Requests -> [Places -> Connections \cup {NoConn}]] /\ nestConn'[v][p] = NoConn
        /\ \A u \in Requests, q \in Places : u # v \/ q # p => nestConn'[u][q] = nestConn[u][q]
    BY <1>3, <2>1, EntryMoves
  <2>4. QED
    BY <2>2, <2>3
<1>9. PoolTypeOK'
  BY <1>3, <1>4, <1>6, <1>7, <1>8 DEF PoolTypeOK
<1>10. Lending' /\ Nesting'
  BY <1>3, <1>8 DEF PoolInv, Lending, Nesting
<1>11. \A u \in Requests : ~(lent[u] = c /\ u \notin settled)
  BY <1>4 DEF PoolInv, OneClaim
<1>12. Conserved'
  <2>1. \A u \in Requests : ~Holds(u, c)'
    <3>1. \A u \in Requests, q \in Places : nestConn'[u][q] # c
      <4>1. \A u \in Requests, q \in Places : u # v \/ q # p => nestConn[u][q] # c
        BY <1>4 DEF PoolInv, OneClaim
      <4>2. NoConn # c
        BY <1>4, PoolConstants
      <4>3. QED
        BY <1>8, <4>1, <4>2
    <3>2. QED
      BY <1>3, <1>11, <3>1 DEF Holds
  <2>2. ASSUME NEW d \in Connections, d # c, NEW u \in Requests PROVE Holds(u, d)' <=> Holds(u, d)
    <3>1. \A q \in Places : nestConn'[u][q] = d <=> nestConn[u][q] = d
      <4>1. \A q \in Places : u # v \/ q # p => nestConn'[u][q] = nestConn[u][q]
        BY <1>8
      <4>2. NoConn # d /\ nestConn[v][p] # d /\ nestConn'[v][p] # d
        BY <1>4, <1>8, <2>2, PoolConstants
      <4>3. QED
        BY <4>1, <4>2
    <3>2. QED
      BY <1>3, <3>1 DEF Holds
  <2>3. QED
    BY <1>6, <2>1, <2>2 DEF PoolInv, Conserved
<1>13. OneClaim'
  BY <1>3, <1>8, PoolConstants DEF PoolInv, OneClaim
<1>14. Scoped'
  <2>1. \A u \in Requests : u \notin settled /\ lent[u] # NoConn => lent[u] # c /\ lent[u] \in Connections
    BY <1>4, <1>11 DEF PoolTypeOK
  <2>2. \A d \in Connections : idle'[d] = 1 => scope'[d] = NoPlace
    BY <1>6, <1>7 DEF PoolInv, Scoped
  <2>3. QED
    BY <1>3, <1>7, <2>1, <2>2 DEF PoolInv, Lending, Scoped, Scope
<1>15. RunsUnderItsOwnShop'
  BY <1>3 DEF PoolInv, RunsUnderItsOwnShop, Scope
<1>16. QED
  BY <1>9, <1>10, <1>12, <1>13, <1>14, <1>15 DEF PoolInv

\* The steps that end a request's use of its connection, and the one that finds it ended.
LEMMA EndKeeps ==
  ASSUME PoolInv, NEW v \in Requests, Respond(v) \/ Close(v) \/ HangUp(v)
  PROVE  PoolInv'
<1>1. /\ person' = person /\ lent' = lent /\ nestPc' = nestPc /\ nestConn' = nestConn /\ ranIn' = ranIn
  BY DEF Respond, Close, HangUp
<1>2. PoolTypeOK
  BY DEF PoolInv
<1>3. ASSUME Finish(v), lent[v] # NoConn, visitPc' \in [Requests -> VisitSteps], hung' \in [Requests -> {"no", "early", "late"}],
             \A u \in Requests : u # v => visitPc'[u] = visitPc[u] /\ hung'[u] = hung[u],
             hung[v] = "late" => hung'[v] = "late",
             visitPc[v] \in {"work", "nests", "sent"},
             \/ visitPc'[v] \in {"work", "nests"} /\ visitPc'[v] = visitPc[v] /\ hung'[v] = "late"
             \/ visitPc'[v] \in {"sent", "over"} /\ \A p \in Places : nestPc[v][p] # "work"
      PROVE  PoolInv'
  <2>1. /\ settled' = settled \cup {v} /\ idle' \in [Connections -> Nat]
        /\ scope' \in [Connections -> Places \cup {NoPlace}]
        /\ Conserved' /\ OneClaim' /\ \A c \in Connections : idle'[c] = 1 => scope'[c] = NoPlace
        /\ \A u \in Requests : (u \notin settled' /\ lent[u] # NoConn) => scope'[lent[u]] = scope[lent[u]]
    BY <1>1, <1>3, Finishes
  <2>2. PoolTypeOK'
    BY <1>1, <1>2, <1>3, <2>1 DEF PoolTypeOK, VisitSteps
  <2>3. Lending'
    BY <1>1, <1>3, <2>1 DEF PoolInv, Lending
  <2>4. Nesting'
    BY <1>1, <1>3 DEF PoolInv, Nesting
  <2>5. Scoped'
    BY <1>1, <1>3, <2>1 DEF PoolInv, Lending, Scoped, Scope
  <2>6. RunsUnderItsOwnShop'
    BY <1>1, <1>3 DEF PoolInv, RunsUnderItsOwnShop, Scope
  <2>7. QED
    BY <2>1, <2>2, <2>3, <2>4, <2>5, <2>6 DEF PoolInv
<1>4. CASE Respond(v) /\ hung[v] = "no"
  <2>1. /\ Finish(v) /\ VisitGoto(v, "sent") /\ visitPc[v] = "nests" /\ hung' = hung
        /\ \A p \in Places : nestPc[v][p] = "done"
    BY <1>4 DEF Respond
  <2>2. /\ visitPc' \in [Requests -> VisitSteps] /\ visitPc'[v] = "sent"
        /\ \A u \in Requests : u # v => visitPc'[u] = visitPc[u]
    BY <1>2, <2>1, VisitMoves DEF VisitSteps
  <2>3. lent[v] # NoConn /\ hung \in [Requests -> {"no", "early", "late"}]
    BY <2>1 DEF PoolInv, Lending, PoolTypeOK
  <2>4. QED
    BY <1>3, <2>1, <2>2, <2>3
<1>5. CASE Close(v)
  <2>1. /\ Finish(v) /\ VisitGoto(v, "over") /\ visitPc[v] = "sent" /\ hung' = hung
    BY <1>5 DEF Close
  <2>2. /\ visitPc' \in [Requests -> VisitSteps] /\ visitPc'[v] = "over"
        /\ \A u \in Requests : u # v => visitPc'[u] = visitPc[u]
    BY <1>2, <2>1, VisitMoves DEF VisitSteps
  <2>3. lent[v] # NoConn /\ hung \in [Requests -> {"no", "early", "late"}] /\ \A p \in Places : nestPc[v][p] # "work"
    BY <2>1 DEF PoolInv, Lending, Nesting, PoolTypeOK
  <2>4. QED
    BY <1>3, <2>1, <2>2, <2>3
<1>6. CASE HangUp(v) /\ visitPc[v] \in {"work", "nests"}
  <2>1. /\ Finish(v) /\ visitPc' = visitPc /\ hung' = [hung EXCEPT ![v] = "late"]
    BY <1>6 DEF HangUp
  <2>2. /\ lent[v] # NoConn /\ hung' \in [Requests -> {"no", "early", "late"}] /\ hung'[v] = "late"
        /\ visitPc' \in [Requests -> VisitSteps] /\ \A u \in Requests : u # v => hung'[u] = hung[u]
    BY <1>6, <2>1 DEF PoolInv, Lending, PoolTypeOK, VisitSteps
  <2>3. QED
    BY <1>3, <1>6, <2>1, <2>2
<1>7. CASE (Respond(v) /\ hung[v] # "no") \/ (HangUp(v) /\ visitPc[v] \notin {"work", "nests"})
  <2>1. /\ settled' = settled /\ idle' = idle /\ scope' = scope
        /\ \/ visitPc[v] = "nests" /\ hung[v] # "no" /\ hung' = hung /\ VisitGoto(v, "over")
              /\ \A p \in Places : nestPc[v][p] = "done"
           \/ visitPc[v] \in {"connect", "begin"} /\ visitPc' = visitPc /\ hung' = [hung EXCEPT ![v] = "early"]
    BY <1>7 DEF Respond, HangUp
  <2>2. /\ visitPc' \in [Requests -> VisitSteps] /\ hung' \in [Requests -> {"no", "early", "late"}]
        /\ \A u \in Requests : u # v => visitPc'[u] = visitPc[u] /\ hung'[u] = hung[u]
        /\ \/ visitPc[v] = "nests" /\ visitPc'[v] = "over" /\ hung[v] # "no" /\ hung'[v] = hung[v]
              /\ \A p \in Places : nestPc[v][p] = "done"
           \/ visitPc[v] \in {"connect", "begin"} /\ visitPc'[v] = visitPc[v] /\ hung'[v] = "early"
    <3>1. visitPc \in [Requests -> VisitSteps] /\ hung \in [Requests -> {"no", "early", "late"}]
      BY <1>2 DEF PoolTypeOK, VisitSteps
    <3>2. VisitGoto(v, "over") => /\ visitPc' \in [Requests -> VisitSteps] /\ visitPc'[v] = "over"
                                  /\ \A u \in Requests : u # v => visitPc'[u] = visitPc[u]
      BY <1>2, VisitMoves DEF VisitSteps
    <3>3. QED
      BY <2>1, <3>1, <3>2
  <2>3. PoolTypeOK'
    BY <1>1, <1>2, <2>1, <2>2 DEF PoolTypeOK, VisitSteps
  <2>4. hung[v] # "no" => hung[v] \in {"early", "late"}
    BY <1>2 DEF PoolTypeOK
  <2>5. Lending' /\ Nesting'
    BY <1>1, <2>1, <2>2, <2>4 DEF PoolInv, Lending, Nesting
  <2>6. Conserved' /\ OneClaim'
    BY <1>1, <2>1 DEF PoolInv, Conserved, OneClaim, Holds
  <2>7. Scoped'
    BY <1>1, <2>1, <2>2 DEF PoolInv, Scoped, Scope
  <2>8. RunsUnderItsOwnShop'
    <3>1. hung'[v] # "late" => hung[v] # "late"
      BY <2>2 DEF PoolInv, Lending
    <3>2. QED
      BY <1>1, <2>2, <3>1 DEF PoolInv, RunsUnderItsOwnShop, Scope
  <2>9. QED
    BY <2>3, <2>5, <2>6, <2>7, <2>8 DEF PoolInv
<1>8. QED
  BY <1>4, <1>5, <1>6, <1>7

LEMMA PoolStep == PoolInv /\ [PoolNext]_poolVars => PoolInv'
<1> SUFFICES ASSUME PoolInv, [PoolNext]_poolVars PROVE PoolInv'
  OBVIOUS
<1>1. ASSUME NEW v \in Requests, Connect(v) PROVE PoolInv'
  BY <1>1, ConnectKeeps
<1>2. ASSUME NEW v \in Requests, BeginVisit(v) PROVE PoolInv'
  BY <1>2, BeginVisitKeeps
<1>3. ASSUME NEW v \in Requests, Statement(v) PROVE PoolInv'
  BY <1>3, StatementKeeps
<1>4. ASSUME NEW v \in Requests, Respond(v) \/ Close(v) \/ HangUp(v) PROVE PoolInv'
  BY <1>4, EndKeeps
<1>5. ASSUME NEW v \in Requests, NEW p \in Places, NestConnect(v, p) PROVE PoolInv'
  BY <1>5, NestConnectKeeps
<1>6. ASSUME NEW v \in Requests, NEW p \in Places, NEW fails \in BOOLEAN, NestFinish(v, p, fails) PROVE PoolInv'
  BY <1>6, NestFinishKeeps
<1>7. CASE UNCHANGED poolVars
  <2>1. PoolTypeOK' /\ Lending' /\ Nesting'
    BY <1>7 DEF poolVars, PoolInv, PoolTypeOK, Lending, Nesting
  <2>2. Conserved' /\ OneClaim'
    BY <1>7 DEF poolVars, PoolInv, Conserved, OneClaim, Holds
  <2>3. Scoped' /\ RunsUnderItsOwnShop'
    BY <1>7 DEF poolVars, PoolInv, Scoped, RunsUnderItsOwnShop, Scope
  <2>4. QED
    BY <2>1, <2>2, <2>3 DEF PoolInv
<1>8. QED
  BY <1>1, <1>2, <1>3, <1>4, <1>5, <1>6, <1>7 DEF PoolNext

\* Of the requests that hold a connection there is at most one.
LEMMA HoldersAreOne ==
  ASSUME PoolInv, NEW c \in Connections
  PROVE  idle[c] + Cardinality({v \in Requests : Holds(v, c)}) <= 1
<1> DEFINE holders == {v \in Requests : Holds(v, c)}
<1>1. CASE idle[c] = 0
  <2>1. PICK v \in Requests : Holds(v, c)
    BY <1>1 DEF PoolInv, Conserved
  <2>2. \A u \in Requests : Holds(u, c) => u = v
    BY <2>1 DEF PoolInv, OneClaim, Holds
  <2>3. holders = {v}
    BY <2>1, <2>2
  <2>4. Cardinality(holders) = 1
    BY <2>3, FS_Singleton
  <2>5. QED
    BY <1>1, <2>4
<1>2. CASE idle[c] = 1
  <2>1. holders = {}
    BY <1>2 DEF PoolInv, Conserved
  <2>2. Cardinality(holders) = 0
    BY <2>1, FS_EmptySet
  <2>3. QED
    BY <1>2, <2>2
<1>3. QED
  BY <1>1, <1>2 DEF PoolInv, Conserved

\* No connection serves two requests and none runs under another's shop, whoever hangs up when and
\* however nested transactions fail; and the pool runs dry only for requests that nest and clients
\* who left before they were listened for (rls-transaction.middleware.ts, scoped-query.ts,
\* kysely-from-client.ts, pool.ts), for any number of requests, shops and connections.
THEOREM PoolKeptApart == PoolSpec => []ConnectionsKeptApart
<1>1. ASSUME PoolInv PROVE ConnectionsKeptApart
  <2>1. OneHolder
    BY <1>1, HoldersAreOne DEF OneHolder
  <2>2. StuckOnlyByNesting
    <3> SUFFICES ASSUME \A v \in InFlight : AwaitsConnection(v), NEW c \in Connections, idle[c] = 0
                 PROVE  \E v \in Requests : Holds(v, c) /\ (visitPc[v] = "nests" \/ hung[v] = "early")
      BY DEF StuckOnlyByNesting
    <3>1. PICK v \in Requests : Holds(v, c)
      BY <1>1 DEF PoolInv, Conserved
    <3>2. CASE \E p \in Places : nestConn[v][p] = c
      <4>1. visitPc[v] = "nests"
        BY <1>1, <3>2, PoolConstants DEF PoolInv, Nesting
      <4>2. QED
        BY <3>1, <4>1
    <3>3. CASE lent[v] = c /\ v \notin settled
      <4>1. visitPc[v] # "connect" /\ (visitPc[v] = "over" => hung[v] = "early")
        BY <1>1, <3>3, PoolConstants DEF PoolInv, Lending
      <4>2. visitPc[v] # "over" => visitPc[v] = "nests"
        BY <4>1 DEF InFlight, AwaitsConnection
      <4>3. QED
        BY <3>1, <4>1, <4>2
    <3>4. QED
      BY <3>1, <3>2, <3>3 DEF Holds
  <2>3. QED
    BY <1>1, <2>1, <2>2 DEF PoolInv, ConnectionsKeptApart
<1>2. QED
  BY <1>1, PoolStarts, PoolStep, PTL DEF PoolSpec

\* A request holds connections or none, a connection is scoped to a shop or to none, and no connection is
\* given back more often than it was lent.
THEOREM PoolTyped == PoolSpec => []PoolTypeOK
<1>1. PoolInv => PoolTypeOK
  BY DEF PoolInv
<1> QED BY <1>1, PoolStarts, PoolStep, PTL DEF PoolSpec

-----------------------------------------------------------------------------
(***************************************************************************)
(* Successions: RatesSucceed and ScheduleIsAsDecided.  The rows a request  *)
(* takes stay locked by it until it ends, so a request that seeks them     *)
(* again finds them as it left them; the invariant says of each request in *)
(* its course which rows it holds, which it has laid, and what the         *)
(* committed tables hold.                                                  *)
(***************************************************************************)

Seeking  == {"pay", "publish", "week", "default", "recurring"}
Writing  == {"seek", "take", "model", "lay", "decide", "strike", "commit"}
SaveSteps == Writing \cup {"idle", "done", "refused"}
Rate     == [slot: Slots, by: Savers \cup {First}, from: Nat, to: Nat]
Approves(s) == order[s].kind \in {"oneTime", "recurring"}
Decides(s)  == order[s].change \in Changes

SuccessionTyped ==
  /\ SuccessionTypeOK /\ order \in Orders /\ rates \subseteq Rate
  /\ before \in [Savers -> SUBSET Savers] /\ stampOf \in [Savers -> Nat]
  /\ sought \in [Savers -> SUBSET Row] /\ taken \in [Savers -> SUBSET Row] /\ laid \in [Savers -> SUBSET Row]

\* Each request is where its kind leads, and what it has written is there until it ends.
SaveCourses ==
  \A s \in Savers :
    /\ savePc[s] \in {"seek", "take"} => order[s].kind \in Seeking
    /\ savePc[s] = "model" => order[s].kind = "pay"
    /\ savePc[s] = "lay" => order[s].kind \in Seeking \cup {"oneTime"}
    /\ savePc[s] = "decide" => Decides(s)
    /\ savePc[s] = "strike" => order[s].kind = "removeService"
    /\ taken[s] # {} => savePc[s] \in {"model", "lay", "decide", "commit"} /\ order[s].kind # "deny"
    /\ laid[s] # {} => savePc[s] \in {"decide", "commit"}
    /\ savePc[s] \in {"decide", "commit"} =>
         \/ laid[s] = {} /\ order[s].kind \in {"deny", "removeService"}
         \/ laid[s] = {} /\ order[s].kind = "default" /\ order[s].article \in gone
         \/ /\ order[s].kind \notin {"deny", "removeService"}
            /\ laid[s] = {[slot |-> k, by |-> s, article |-> order[s].article] : k \in order[s].lays}

\* A row that is or was in force: one of the first, or laid by a request that is done.
Known(x) ==
  \/ x \in Standing /\ x.by = First
  \/ x \in Row /\ x.by \in Savers /\ savePc[x.by] = "done" /\ x.slot \in order[x.by].lays /\ x.article = order[x.by].article

RowsKnown ==
  /\ \A x \in current : Known(x)
  /\ \A s \in Savers : \A x \in sought[s] : Known(x) /\ x.slot \in order[s].covers
  /\ \A s \in Savers : \A x \in taken[s] : Known(x) /\ x.slot \in Touches(order[s])
  /\ \A x, y \in current : x.slot = y.slot => x = y

\* A taken row is one transaction's, and so is the slot of a laid one.
SlotsHeld ==
  /\ \A s, u \in Savers : s # u => taken[s] \cap taken[u] = {}
  /\ \A s, u \in Savers : \A x \in laid[s], y \in taken[u] \cup laid[u] : x.slot = y.slot => s = u
  /\ \A s \in Savers : \A x \in laid[s], y \in current : x.slot = y.slot => y \in taken[s]
  /\ \A s \in Savers : \A x \in taken[s] : x.article = NoArticle => x \in current

\* The clock readings of the pay handlers, and the rates they have opened.
Stamped ==
  /\ now >= 2
  /\ \A s \in Savers : (order[s].kind = "pay" /\ savePc[s] # "idle") => stampOf[s] \in 2 .. (now - 1)
  /\ \A s, u \in Savers : (/\ order[s].kind = "pay" /\ savePc[s] # "idle"
                           /\ order[u].kind = "pay" /\ savePc[u] # "idle" /\ stampOf[s] = stampOf[u]) => s = u

PaySlot(k) == \E s \in Savers : order[s].kind = "pay" /\ k \in order[s].covers

\* A barber's rate that is open is the row in force, and one there is.
RatesFit ==
  /\ \A p \in rates : IF p.by = First THEN p.from = 1
                      ELSE /\ order[p.by].kind = "pay" /\ savePc[p.by] = "done" /\ p.from = stampOf[p.by]
                           /\ p.slot \in order[p.by].lays
  /\ \A p, q \in rates : (p.slot = q.slot /\ p.by = q.by) => p = q
  /\ \A p \in rates : IF PaySlot(p.slot)
                      THEN /\ p.to = Open <=> \E x \in current : x.slot = p.slot /\ x.by = p.by
                           /\ \E x \in current : x.slot = p.slot
                      ELSE p.by = First /\ p.to = Open
  /\ \A x \in current : PaySlot(x.slot) => \E p \in rates : p.slot = x.slot /\ p.by = x.by

\* Of the requests that were done when another looked, the rows it covers do not outlive it.
FormsFollow ==
  \A s \in Savers :
    /\ \A u \in before[s] : savePc[u] = "done"
    /\ before[s] # {} => order[s].kind \in Seeking /\ savePc[s] \notin {"idle", "seek"}
    /\ \A y \in current : (y.by \in before[s] /\ y.slot \in order[s].covers) =>
         /\ savePc[s] = "take" => y \in sought[s]
         /\ savePc[s] \in {"model", "lay", "decide", "commit"} => y \in taken[s]
         /\ savePc[s] # "done"

\* A decision that is about to commit is its change's only one, and a denial's is pending still.
Decisions ==
  /\ \A s, u \in Savers : (/\ savePc[s] = "commit" /\ savePc[u] = "commit" /\ Decides(s)
                           /\ order[s].change = order[u].change) => s = u
  /\ \A s \in Savers : (savePc[s] = "commit" /\ order[s].kind = "deny") => decided[order[s].change] = "pending"
  /\ \A s \in Savers : (savePc[s] = "done" /\ Approves(s)) => decided[order[s].change] = "approved"

SuccessionInv ==
  /\ SuccessionTyped /\ SaveCourses /\ RowsKnown /\ SlotsHeld /\ Stamped /\ RatesFit /\ FormsFollow /\ Decisions
  /\ NeverWithout /\ OneRateAtATime /\ DefaultLostOnlyByRemoval

LEMMA SaveMoves ==
  ASSUME SuccessionTyped, NEW s \in Savers, NEW step \in SaveSteps, SaveGoto(s, step)
  PROVE  /\ savePc' \in [Savers -> SaveSteps]
         /\ savePc'[s] = step /\ \A u \in Savers : u # s => savePc'[u] = savePc[u]
  BY DEF SuccessionTyped, SuccessionTypeOK, SaveGoto, SaveSteps, Writing

LEMMA OrderTyped ==
  ASSUME SuccessionTyped, NEW s \in Savers
  PROVE  /\ order[s].kind \in Kinds /\ order[s].covers \subseteq Slots /\ order[s].lays \subseteq Slots
         /\ order[s].article \in Articles \cup {NoArticle} /\ order[s].change \in Changes \cup {NoChange}
<1>1. order[s] \in Order
  BY DEF SuccessionTyped, SuccessionTypeOK
<1>2. QED
  BY <1>1 DEF Order

LEMMA OrdersFit ==
  ASSUME SuccessionTyped, NEW s \in Savers, NEW u \in Savers
  PROVE  /\ order[s].kind \in {"pay", "publish", "default"} => order[s].lays = order[s].covers
         /\ order[s].kind = "week" => order[s].lays \subseteq order[s].covers
         /\ order[s].kind \in {"default", "removeService"} <=> order[s].article \in Articles
         /\ order[s].kind \in {"oneTime", "recurring", "deny"} <=> order[s].change \in Changes
         /\ order[s].kind \in {"deny", "removeService"} => Touches(order[s]) = {}
         /\ Touches(order[s]) \cap Touches(order[u]) # {} =>
              /\ Table(order[s]) = Table(order[u])
              /\ order[s].kind = "week" /\ order[u].kind = "week" => order[s].covers = order[u].covers
         /\ order[s].kind # "default" => \A x \in Standing : x.slot \in Touches(order[s]) => x.article = NoArticle
         /\ order[s].kind = "default" => \E x \in Standing : x.slot \in order[s].covers
  BY OrdersFitTheTables DEF SuccessionTyped

\* Two requests that touch one slot write to one table.
LEMMA OneTable ==
  ASSUME SuccessionTyped, NEW s \in Savers, NEW u \in Savers, NEW k, k \in Touches(order[s]), k \in Touches(order[u])
  PROVE  Table(order[s]) = Table(order[u])
  BY OrdersFit

LEMMA RowTyped ==
  ASSUME NEW x \in Row
  PROVE  x.slot \in Slots /\ x.by \in Savers \cup {First} /\ x.article \in Articles \cup {NoArticle}
         /\ x = [slot |-> x.slot, by |-> x.by, article |-> x.article]
  BY DEF Row

LEMMA KnownIsRow ==
  ASSUME NEW x, Known(x)
  PROVE  x \in Row
  BY SuccessionConstants DEF Known

\* Two known rows of one slot by one request are one.
LEMMA KnownOnce ==
  ASSUME NEW x, NEW y, Known(x), Known(y), x.slot = y.slot, x.by = y.by
  PROVE  x = y
<1>1. x \in Row /\ y \in Row
  BY KnownIsRow
<1>2. CASE x.by = First
  <2>1. x \in Standing /\ y \in Standing
    BY <1>2, SuccessionConstants DEF Known
  <2>2. QED
    BY <2>1, SuccessionConstants
<1>3. CASE x.by # First
  <2>1. x.article = y.article
    BY <1>3 DEF Known
  <2>2. QED
    BY <1>1, <2>1, RowTyped
<1>4. QED
  BY <1>2, <1>3

\* A known row of a slot that a request other than a default touches names no service.
LEMMA NoService ==
  ASSUME SuccessionTyped, NEW x, Known(x), NEW s \in Savers, x.slot \in Touches(order[s]), order[s].kind # "default"
  PROVE  x.article = NoArticle
<1>1. CASE x \in Standing
  BY <1>1, OrdersFit
<1>2. CASE x \notin Standing
  <2>1. /\ x.by \in Savers /\ x.slot \in Touches(order[x.by]) /\ x.article = order[x.by].article
    BY <1>2 DEF Known, Touches
  <2>2. Table(order[x.by]) = Table(order[s])
    BY <2>1, OneTable
  <2>3. order[x.by].kind # "default"
    BY <2>2 DEF Table
  <2>4. order[x.by].kind # "removeService"
    BY <2>1, OrdersFit
  <2>5. order[x.by].article \notin Articles
    BY <2>1, <2>3, <2>4, OrdersFit
  <2>6. QED
    BY <2>1, <2>5, OrderTyped
<1>3. QED
  BY <1>1, <1>2

\* The parts of the invariant that any step keeps which commits nothing.
LEMMA QuietSave ==
  ASSUME SuccessionInv, order' = order, current' = current, gone' = gone, rates' = rates, decided' = decided,
         \A u \in Savers : savePc'[u] = "done" <=> savePc[u] = "done",
         \A u \in Savers : savePc[u] # "idle" => stampOf'[u] = stampOf[u]
  PROVE  /\ NeverWithout' /\ OneRateAtATime' /\ DefaultLostOnlyByRemoval' /\ RatesFit'
         /\ \A x : Known(x) <=> Known(x)'
         /\ \A s \in Savers : (savePc'[s] = "done" /\ Approves(s)') => decided'[order'[s].change] = "approved"
<1>1. NeverWithout' /\ OneRateAtATime'
  BY DEF SuccessionInv, NeverWithout, OneRateAtATime, AskedFor
<1>2. DefaultLostOnlyByRemoval'
  <2> SUFFICES ASSUME NEW s \in AskedFor({"default"}), ~\E x \in current : x.slot \in order[s].covers
               PROVE  \/ \E x \in Standing : x.article \in gone
                      \/ \E u \in AskedFor({"default"}) : savePc'[u] = "done" /\ order[u].article \in gone
    BY DEF DefaultLostOnlyByRemoval, AskedFor
  <2>1. \/ \E x \in Standing : x.article \in gone
        \/ \E u \in AskedFor({"default"}) : savePc[u] = "done" /\ order[u].article \in gone
    BY DEF SuccessionInv, DefaultLostOnlyByRemoval
  <2>2. QED
    BY <2>1 DEF AskedFor
<1>3. RatesFit'
  <2>1. \A p \in rates : p.by # First => p.by \in Savers
    BY DEF SuccessionInv, SuccessionTyped, Rate
  <2>2. QED
    BY <2>1 DEF SuccessionInv, RatesFit, PaySlot
<1>4. \A x : Known(x) <=> Known(x)'
  BY DEF Known
<1>5. QED
  BY <1>1, <1>2, <1>3, <1>4 DEF SuccessionInv, Decisions, Approves

LEMMA SuccessionStarts == SuccessionInit => SuccessionInv
<1> SUFFICES ASSUME SuccessionInit PROVE SuccessionInv
  OBVIOUS
<1>1. /\ order \in Orders /\ savePc = [s \in Savers |-> "idle"] /\ current = Standing /\ gone = {} /\ now = 2
      /\ decided = [q \in Changes |-> "pending"]
      /\ \A s \in Savers : before[s] = {} /\ sought[s] = {} /\ taken[s] = {} /\ laid[s] = {} /\ stampOf[s] = 0
      /\ rates = {[slot |-> x.slot, by |-> First, from |-> 1, to |-> Open] : x \in Standing}
  BY DEF SuccessionInit
<1>2. \A x \in Standing : x.slot \in Slots
  BY SuccessionConstants, RowTyped
<1>3. rates \subseteq Rate
  BY <1>1, <1>2 DEF Rate, Open
<1>4. SuccessionTyped
  <2>1. order \in [Savers -> Order]
    BY <1>1, SuccessionConstants
  <2>2. \A p \in rates : p.slot \in Slots /\ p.from \in Nat /\ p.to \in Nat
    BY <1>3 DEF Rate
  <2>3. /\ before \in [Savers -> SUBSET Savers] /\ stampOf \in [Savers -> Nat]
        /\ sought \in [Savers -> SUBSET Row] /\ taken \in [Savers -> SUBSET Row] /\ laid \in [Savers -> SUBSET Row]
    BY DEF SuccessionInit
  <2>4. QED
    BY <1>1, <1>3, <2>1, <2>2, <2>3, SuccessionConstants DEF SuccessionTyped, SuccessionTypeOK
<1>5. SaveCourses /\ SlotsHeld /\ FormsFollow
  BY <1>1 DEF SaveCourses, SlotsHeld, FormsFollow
<1>6. Decisions /\ Stamped
  BY <1>1 DEF Decisions, Stamped
<1>7. NeverWithout /\ DefaultLostOnlyByRemoval
  <2>1. \A s \in AskedFor({"default"}) : \E x \in Standing : x.slot \in order[s].covers
    BY <1>4, OrdersFit DEF AskedFor
  <2>2. QED
    BY <1>1, <2>1 DEF NeverWithout, DefaultLostOnlyByRemoval
<1>8. \A p \in rates : p.by = First /\ p.from = 1 /\ p.to = Open /\ \E x \in Standing : x.slot = p.slot
  BY <1>1
<1>9. \A p, q \in rates : p.slot = q.slot => p = q
  BY <1>1
<1>10. \A x \in Standing : Known(x)
  BY SuccessionConstants DEF Known
<1>11. RowsKnown
  BY <1>1, <1>10, SuccessionConstants DEF RowsKnown
<1>12. RatesFit
  <2>1. \A x \in current : \E p \in rates : p.slot = x.slot /\ p.by = x.by
    <3> SUFFICES ASSUME NEW x \in Standing PROVE \E p \in rates : p.slot = x.slot /\ p.by = x.by
      BY <1>1
    <3>1. [slot |-> x.slot, by |-> First, from |-> 1, to |-> Open] \in rates
      BY <1>1
    <3>2. QED
      BY <3>1, SuccessionConstants
  <2>2. QED
    <3>1. \A p \in rates : \E x \in current : x.slot = p.slot /\ x.by = p.by
      BY <1>1, <1>8, SuccessionConstants
    <3>2. QED
      BY <1>8, <1>9, <2>1, <3>1 DEF RatesFit
<1>13. OneRateAtATime
  BY <1>9 DEF OneRateAtATime
<1>14. QED
  BY <1>4, <1>5, <1>6, <1>7, <1>11, <1>12, <1>13 DEF SuccessionInv

LEMMA SaversTyped ==
  ASSUME SuccessionTyped, NEW s \in Savers
  PROVE  /\ savePc[s] \in SaveSteps /\ before[s] \subseteq Savers /\ stampOf[s] \in Nat
         /\ sought[s] \subseteq Row /\ taken[s] \subseteq Row /\ laid[s] \subseteq Row
  BY DEF SuccessionTyped, SuccessionTypeOK, SaveSteps, Writing

\* The types a step keeps which commits nothing.
LEMMA QuietTypes ==
  ASSUME SuccessionTyped, order' = order, current' = current, gone' = gone, rates' = rates, decided' = decided,
         savePc' \in [Savers -> SaveSteps], now' \in Nat,
         before' \in [Savers -> SUBSET Savers], stampOf' \in [Savers -> Nat], sought' \in [Savers -> SUBSET Row],
         taken' \in [Savers -> SUBSET Row], laid' \in [Savers -> SUBSET Row]
  PROVE  SuccessionTyped'
<1>1. \A s \in Savers : sought'[s] \cup taken'[s] \cup laid'[s] \subseteq Row
                        /\ before'[s] \subseteq Savers /\ stampOf'[s] \in Nat
  OBVIOUS
<1>2. QED
  BY <1>1 DEF SuccessionTyped, SuccessionTypeOK, SaveSteps, Writing

\* The first statement of a request, or its refusal.
LEMMA BeginSaveKeeps ==
  ASSUME SuccessionInv, NEW s \in Savers, BeginSave(s)
  PROVE  SuccessionInv'
<1>0. /\ SuccessionTyped /\ SaveCourses /\ RowsKnown /\ SlotsHeld /\ Stamped /\ FormsFollow /\ Decisions
  BY DEF SuccessionInv
<1> DEFINE step == IF Refuses(s) THEN "refused" ELSE FirstWrite(s)
<1>1. /\ savePc[s] = "idle" /\ SaveGoto(s, step)
      /\ order' = order /\ before' = before /\ sought' = sought /\ taken' = taken /\ laid' = laid
      /\ current' = current /\ decided' = decided /\ gone' = gone /\ rates' = rates
      /\ \/ order[s].kind = "pay" /\ stampOf' = [stampOf EXCEPT ![s] = now] /\ now' = now + 1
         \/ order[s].kind # "pay" /\ stampOf' = stampOf /\ now' = now
  BY DEF BeginSave
<1>2. order[s].kind \in Kinds
  BY <1>0, OrderTyped
<1>3. /\ step \in {"refused", "lay", "decide", "strike", "seek"}
      /\ step = "lay" => order[s].kind = "oneTime"
      /\ step = "decide" => order[s].kind = "deny"
      /\ step = "strike" => order[s].kind = "removeService"
      /\ step = "seek" => order[s].kind \in Seeking
  BY <1>2 DEF FirstWrite, Kinds, Seeking
<1> HIDE DEF step
<1>4. step \in SaveSteps
  BY <1>3 DEF SaveSteps, Writing
<1>5. /\ savePc' \in [Savers -> SaveSteps] /\ savePc'[s] = step /\ \A u \in Savers : u # s => savePc'[u] = savePc[u]
  BY <1>0, <1>1, <1>4, SaveMoves
<1>6. now \in Nat /\ stampOf \in [Savers -> Nat]
  BY <1>0 DEF SuccessionTyped, SuccessionTypeOK
<1>7. /\ now' \in Nat /\ stampOf' \in [Savers -> Nat] /\ \A u \in Savers : u # s => stampOf'[u] = stampOf[u]
      /\ order[s].kind = "pay" => stampOf'[s] = now /\ now' = now + 1
      /\ order[s].kind # "pay" => now' = now
  BY <1>1, <1>6
<1>8. SuccessionTyped'
  BY <1>0, <1>1, <1>5, <1>7, QuietTypes DEF SuccessionTyped
<1>9. \A u \in Savers : savePc'[u] = "done" <=> savePc[u] = "done"
  BY <1>1, <1>3, <1>5
<1>10. /\ NeverWithout' /\ OneRateAtATime' /\ DefaultLostOnlyByRemoval' /\ RatesFit'
       /\ \A x : Known(x) <=> Known(x)'
       /\ \A u \in Savers : (savePc'[u] = "done" /\ Approves(u)') => decided'[order'[u].change] = "approved"
  BY <1>1, <1>7, <1>9, QuietSave
<1>11. taken[s] = {} /\ laid[s] = {} /\ before[s] = {}
  BY <1>0, <1>1 DEF SaveCourses, FormsFollow
<1>12. SaveCourses'
  <2>1. order[s].kind = "deny" => Decides(s)
    BY <1>0, OrdersFit DEF Decides
  <2>2. QED
    BY <1>0, <1>1, <1>3, <1>5, <1>11, <2>1 DEF SaveCourses, Decides
<1>13. RowsKnown'
  BY <1>0, <1>1, <1>10 DEF RowsKnown, Touches
<1>14. SlotsHeld'
  BY <1>0, <1>1 DEF SlotsHeld
<1>15. Stamped'
  BY <1>0, <1>1, <1>5, <1>6, <1>7, SaversTyped DEF Stamped
<1>16. FormsFollow'
  <2> SUFFICES ASSUME NEW u \in Savers
               PROVE  /\ \A v \in before[u] : savePc'[v] = "done"
                      /\ before[u] # {} => order[u].kind \in Seeking /\ savePc'[u] \notin {"idle", "seek"}
                      /\ \A y \in current : (y.by \in before[u] /\ y.slot \in order[u].covers) =>
                           /\ savePc'[u] = "take" => y \in sought[u]
                           /\ savePc'[u] \in {"model", "lay", "decide", "commit"} => y \in taken[u]
                           /\ savePc'[u] # "done"
    BY <1>1 DEF FormsFollow
  <2>1. \A v \in before[u] : savePc'[v] = "done"
    BY <1>0, <1>9, SaversTyped DEF FormsFollow
  <2>2. CASE u = s
    BY <1>11, <2>2
  <2>3. CASE u # s
    BY <1>0, <1>5, <2>1, <2>3 DEF FormsFollow
  <2>4. QED
    BY <2>2, <2>3
<1>17. Decisions'
  BY <1>0, <1>1, <1>3, <1>5, <1>10 DEF Decisions, Decides, Approves
<1>18. QED
  BY <1>8, <1>10, <1>12, <1>13, <1>14, <1>15, <1>16, <1>17 DEF SuccessionInv

\* The snapshot of an update.
LEMMA SeekKeeps ==
  ASSUME SuccessionInv, NEW s \in Savers, Seek(s)
  PROVE  SuccessionInv'
<1>0. /\ SuccessionTyped /\ SaveCourses /\ RowsKnown /\ SlotsHeld /\ Stamped /\ FormsFollow /\ Decisions
  BY DEF SuccessionInv
<1>1. /\ savePc[s] = "seek" /\ SaveGoto(s, "take")
      /\ before' = [before EXCEPT ![s] = {u \in Savers : savePc[u] = "done"}]
      /\ sought' = [sought EXCEPT ![s] = Sought(s)]
      /\ order' = order /\ taken' = taken /\ laid' = laid /\ current' = current /\ decided' = decided
      /\ gone' = gone /\ now' = now /\ stampOf' = stampOf /\ rates' = rates
  BY DEF Seek
<1>2. /\ savePc' \in [Savers -> SaveSteps] /\ savePc'[s] = "take" /\ \A u \in Savers : u # s => savePc'[u] = savePc[u]
  <2>1. "take" \in SaveSteps
    BY DEF SaveSteps, Writing
  <2>2. QED
    BY <1>0, <1>1, <2>1, SaveMoves
<1>3. Sought(s) \subseteq Row
  BY <1>0 DEF Sought, SuccessionTyped, SuccessionTypeOK
<1>4. /\ before' \in [Savers -> SUBSET Savers] /\ sought' \in [Savers -> SUBSET Row]
      /\ before'[s] = {u \in Savers : savePc[u] = "done"} /\ sought'[s] = Sought(s)
      /\ \A u \in Savers : u # s => before'[u] = before[u] /\ sought'[u] = sought[u]
  BY <1>0, <1>1, <1>3 DEF SuccessionTyped
<1>5. SuccessionTyped'
  <2>1. /\ now' \in Nat /\ stampOf' \in [Savers -> Nat]
        /\ taken' \in [Savers -> SUBSET Row] /\ laid' \in [Savers -> SUBSET Row]
    BY <1>0, <1>1 DEF SuccessionTyped, SuccessionTypeOK
  <2>2. QED
    BY <1>0, <1>1, <1>2, <1>4, <2>1, QuietTypes
<1>6. \A u \in Savers : savePc'[u] = "done" <=> savePc[u] = "done"
  BY <1>1, <1>2
<1>7. /\ NeverWithout' /\ OneRateAtATime' /\ DefaultLostOnlyByRemoval' /\ RatesFit'
      /\ \A x : Known(x) <=> Known(x)'
      /\ \A u \in Savers : (savePc'[u] = "done" /\ Approves(u)') => decided'[order'[u].change] = "approved"
  BY <1>1, <1>6, QuietSave
<1>8. SaveCourses'
  BY <1>0, <1>1, <1>2 DEF SaveCourses, Decides
<1>9. RowsKnown'
  BY <1>0, <1>1, <1>4, <1>7 DEF RowsKnown, Touches, Sought
<1>10. SlotsHeld'
  BY <1>0, <1>1 DEF SlotsHeld
<1>11. Stamped'
  BY <1>0, <1>1, <1>2 DEF Stamped
<1>12. FormsFollow'
  <2> SUFFICES ASSUME NEW u \in Savers
               PROVE  /\ \A v \in before'[u] : savePc'[v] = "done"
                      /\ before'[u] # {} => order[u].kind \in Seeking /\ savePc'[u] \notin {"idle", "seek"}
                      /\ \A y \in current : (y.by \in before'[u] /\ y.slot \in order[u].covers) =>
                           /\ savePc'[u] = "take" => y \in sought'[u]
                           /\ savePc'[u] \in {"model", "lay", "decide", "commit"} => y \in taken[u]
                           /\ savePc'[u] # "done"
    BY <1>1 DEF FormsFollow
  <2>1. \A v \in before'[u] : savePc'[v] = "done"
    BY <1>0, <1>4, <1>6, SaversTyped DEF FormsFollow
  <2>2. CASE u = s
    BY <1>0, <1>1, <1>2, <1>4, <2>1, <2>2 DEF SaveCourses, Sought
  <2>3. CASE u # s
    BY <1>0, <1>2, <1>4, <2>1, <2>3 DEF FormsFollow
  <2>4. QED
    BY <2>2, <2>3
<1>13. Decisions'
  BY <1>0, <1>1, <1>2, <1>7 DEF Decisions, Decides, Approves
<1>14. QED
  BY <1>5, <1>7, <1>8, <1>9, <1>10, <1>11, <1>12, <1>13 DEF SuccessionInv

\* What a rolled back request had taken and laid is as if it never had.
LEMMA RolledBack ==
  ASSUME SuccessionInv, NEW s \in Savers, savePc[s] \in Writing, RollBackSave(s),
         UNCHANGED <<order, before, sought, current, decided, gone, now, stampOf, rates>>
  PROVE  SuccessionInv'
<1>0. /\ SuccessionTyped /\ SaveCourses /\ RowsKnown /\ SlotsHeld /\ Stamped /\ FormsFollow /\ Decisions
  BY DEF SuccessionInv
<1>1. /\ SaveGoto(s, "refused") /\ taken' = [taken EXCEPT ![s] = {}] /\ laid' = [laid EXCEPT ![s] = {}]
      /\ order' = order /\ before' = before /\ sought' = sought /\ current' = current /\ decided' = decided
      /\ gone' = gone /\ now' = now /\ stampOf' = stampOf /\ rates' = rates
  BY DEF RollBackSave
<1>2. /\ savePc' \in [Savers -> SaveSteps] /\ savePc'[s] = "refused" /\ \A u \in Savers : u # s => savePc'[u] = savePc[u]
  <2>1. "refused" \in SaveSteps
    BY DEF SaveSteps
  <2>2. QED
    BY <1>0, <1>1, <2>1, SaveMoves
<1>3. /\ taken' \in [Savers -> SUBSET Row] /\ laid' \in [Savers -> SUBSET Row]
      /\ taken'[s] = {} /\ laid'[s] = {}
      /\ \A u \in Savers : u # s => taken'[u] = taken[u] /\ laid'[u] = laid[u]
  BY <1>0, <1>1 DEF SuccessionTyped
<1>4. SuccessionTyped'
  <2>1. /\ now' \in Nat /\ stampOf' \in [Savers -> Nat]
        /\ before' \in [Savers -> SUBSET Savers] /\ sought' \in [Savers -> SUBSET Row]
    BY <1>0, <1>1 DEF SuccessionTyped, SuccessionTypeOK
  <2>2. QED
    BY <1>0, <1>1, <1>2, <1>3, <2>1, QuietTypes
<1>5. savePc[s] \notin {"idle", "done"}
  BY DEF Writing
<1>6. \A u \in Savers : savePc'[u] = "done" <=> savePc[u] = "done"
  BY <1>2, <1>5
<1>7. /\ NeverWithout' /\ OneRateAtATime' /\ DefaultLostOnlyByRemoval' /\ RatesFit'
      /\ \A x : Known(x) <=> Known(x)'
      /\ \A u \in Savers : (savePc'[u] = "done" /\ Approves(u)') => decided'[order'[u].change] = "approved"
  BY <1>1, <1>6, QuietSave
<1>8. SaveCourses'
  BY <1>0, <1>1, <1>2, <1>3 DEF SaveCourses, Decides
<1>9. RowsKnown'
  BY <1>0, <1>1, <1>3, <1>7 DEF RowsKnown, Touches
<1>10. SlotsHeld'
  BY <1>0, <1>1, <1>3 DEF SlotsHeld
<1>11. Stamped'
  BY <1>0, <1>1, <1>2, <1>5 DEF Stamped
<1>12. FormsFollow'
  BY <1>0, <1>1, <1>2, <1>3, <1>6, SaversTyped DEF FormsFollow
<1>13. Decisions'
  BY <1>0, <1>1, <1>2, <1>7 DEF Decisions, Decides, Approves
<1>14. QED
  BY <1>4, <1>7, <1>8, <1>9, <1>10, <1>11, <1>12, <1>13 DEF SuccessionInv

LEMMA DropSaveKeeps ==
  ASSUME SuccessionInv, NEW s \in Savers, DropSave(s)
  PROVE  SuccessionInv'
<1>1. savePc[s] \in Writing /\ RollBackSave(s) /\ UNCHANGED <<order, before, sought, current, decided, gone, now, stampOf, rates>>
  BY DEF DropSave, Writing
<1>2. QED
  BY <1>1, RolledBack

\* A step of a request's own course that takes and lays nothing.
LEMMA CourseOnly ==
  ASSUME SuccessionInv, NEW s \in Savers, NEW step \in SaveSteps \ {"done"}, savePc[s] \in Writing, SaveGoto(s, step),
         UNCHANGED <<order, before, sought, taken, laid, current, decided, gone, now, stampOf, rates>>,
         SaveCourses', FormsFollow', Decisions'
  PROVE  SuccessionInv'
<1>0. /\ SuccessionTyped /\ RowsKnown /\ SlotsHeld /\ Stamped
  BY DEF SuccessionInv
<1>1. /\ order' = order /\ before' = before /\ sought' = sought /\ taken' = taken /\ laid' = laid /\ current' = current
      /\ decided' = decided /\ gone' = gone /\ now' = now /\ stampOf' = stampOf /\ rates' = rates
  OBVIOUS
<1>2. /\ savePc' \in [Savers -> SaveSteps] /\ savePc'[s] = step /\ \A u \in Savers : u # s => savePc'[u] = savePc[u]
  BY <1>0, SaveMoves
<1>3. savePc[s] \notin {"idle", "done"}
  BY DEF Writing
<1>4. SuccessionTyped'
  <2>1. /\ now' \in Nat /\ stampOf' \in [Savers -> Nat]
        /\ before' \in [Savers -> SUBSET Savers] /\ sought' \in [Savers -> SUBSET Row]
        /\ taken' \in [Savers -> SUBSET Row] /\ laid' \in [Savers -> SUBSET Row]
    BY <1>0, <1>1 DEF SuccessionTyped, SuccessionTypeOK
  <2>2. QED
    BY <1>0, <1>1, <1>2, <2>1, QuietTypes
<1>5. \A u \in Savers : savePc'[u] = "done" <=> savePc[u] = "done"
  BY <1>2, <1>3
<1>6. /\ NeverWithout' /\ OneRateAtATime' /\ DefaultLostOnlyByRemoval' /\ RatesFit' /\ \A x : Known(x) <=> Known(x)'
  BY <1>1, <1>5, QuietSave
<1>7. RowsKnown'
  BY <1>0, <1>1, <1>6 DEF RowsKnown, Touches
<1>8. SlotsHeld'
  BY <1>0, <1>1 DEF SlotsHeld
<1>9. Stamped'
  BY <1>0, <1>1, <1>2, <1>3 DEF Stamped
<1>10. QED
  BY <1>4, <1>6, <1>7, <1>8, <1>9 DEF SuccessionInv

\* The lookup of the pay model.
LEMMA FindModelKeeps ==
  ASSUME SuccessionInv, NEW s \in Savers, FindModel(s)
  PROVE  SuccessionInv'
<1>0. /\ SuccessionTyped /\ SaveCourses /\ FormsFollow /\ Decisions
  BY DEF SuccessionInv
<1>1. /\ savePc[s] = "model"
      /\ UNCHANGED <<order, before, sought, current, decided, gone, now, stampOf, rates>>
      /\ \/ SaveGoto(s, "lay") /\ UNCHANGED <<taken, laid>>
         \/ RollBackSave(s)
  BY DEF FindModel, Refuse
<1>2. savePc[s] \in Writing
  BY <1>1 DEF Writing
<1>3. CASE RollBackSave(s)
  BY <1>1, <1>2, <1>3, RolledBack
<1>4. CASE SaveGoto(s, "lay") /\ UNCHANGED <<taken, laid>>
  <2>1. "lay" \in SaveSteps \ {"done"}
    BY DEF SaveSteps, Writing
  <2>2. savePc'[s] = "lay" /\ \A u \in Savers : u # s => savePc'[u] = savePc[u]
    BY <1>0, <1>4, <2>1, SaveMoves
  <2>3. SaveCourses'
    BY <1>0, <1>1, <1>4, <2>2 DEF SaveCourses, Decides, Seeking
  <2>4. FormsFollow'
    BY <1>0, <1>1, <1>4, <2>2, SaversTyped DEF FormsFollow
  <2>5. Decisions'
    BY <1>0, <1>1, <2>2 DEF Decisions, Decides, Approves
  <2>6. QED
    BY <1>1, <1>2, <1>4, <2>1, <2>3, <2>4, <2>5, CourseOnly
<1>5. QED
  BY <1>1, <1>3, <1>4

\* A removal deletes its service.
LEMMA StrikeKeeps ==
  ASSUME SuccessionInv, NEW s \in Savers, Strike(s)
  PROVE  SuccessionInv'
<1>0. /\ SuccessionTyped /\ SaveCourses /\ FormsFollow /\ Decisions
  BY DEF SuccessionInv
<1>1. /\ savePc[s] = "strike" /\ SaveGoto(s, "commit")
      /\ UNCHANGED <<order, before, sought, taken, laid, current, decided, gone, now, stampOf, rates>>
  BY DEF Strike
<1>2. savePc[s] \in Writing /\ "commit" \in SaveSteps \ {"done"}
  BY <1>1 DEF Writing, SaveSteps
<1>3. savePc'[s] = "commit" /\ \A u \in Savers : u # s => savePc'[u] = savePc[u]
  BY <1>0, <1>1, <1>2, SaveMoves
<1>4. /\ order[s].kind = "removeService" /\ laid[s] = {} /\ taken[s] = {}
  BY <1>0, <1>1 DEF SaveCourses
<1>5. ~Decides(s)
  BY <1>0, <1>4, OrdersFit DEF Decides
<1>6. before[s] = {}
  BY <1>0, <1>4 DEF FormsFollow, Seeking
<1>7. SaveCourses'
  BY <1>0, <1>1, <1>3, <1>4 DEF SaveCourses, Decides
<1>8. FormsFollow'
  BY <1>0, <1>1, <1>3, <1>6, SaversTyped DEF FormsFollow
<1>9. Decisions'
  BY <1>0, <1>1, <1>3, <1>4, <1>5 DEF Decisions, Decides, Approves
<1>10. QED
  BY <1>1, <1>2, <1>7, <1>8, <1>9, CourseOnly

\* A decision waits for whoever is about to commit one on the same change.
LEMMA DecideKeeps ==
  ASSUME SuccessionInv, NEW s \in Savers, Decide(s)
  PROVE  SuccessionInv'
<1>0. /\ SuccessionTyped /\ SaveCourses /\ FormsFollow /\ Decisions
  BY DEF SuccessionInv
<1> DEFINE step == IF order[s].kind # "deny" \/ Denied(s) THEN "commit" ELSE "refused"
<1>1. /\ savePc[s] = "decide" /\ SaveGoto(s, step)
      /\ \A u \in Savers \ {s} : ~(savePc[u] = "commit" /\ order[u].change = order[s].change)
      /\ UNCHANGED <<order, before, sought, taken, laid, current, decided, gone, now, stampOf, rates>>
  BY DEF Decide
<1>2. /\ savePc[s] \in Writing /\ step \in SaveSteps \ {"done"}
      /\ (step = "commit" /\ order[s].kind = "deny") => decided[order[s].change] = "pending"
      /\ step = "commit" \/ (step = "refused" /\ order[s].kind = "deny")
  BY <1>1 DEF Writing, SaveSteps, Denied, Undecided
<1> HIDE DEF step
<1>3. savePc'[s] = step /\ \A u \in Savers : u # s => savePc'[u] = savePc[u]
  BY <1>0, <1>1, <1>2, SaveMoves
<1>4. order[s].kind = "deny" => laid[s] = {} /\ taken[s] = {}
  BY <1>0, <1>1 DEF SaveCourses
<1>5. SaveCourses'
  BY <1>0, <1>1, <1>2, <1>3, <1>4 DEF SaveCourses, Decides
<1>6. FormsFollow'
  BY <1>0, <1>1, <1>2, <1>3, <1>4, SaversTyped DEF FormsFollow, Seeking
<1>7. Decisions'
  BY <1>0, <1>1, <1>2, <1>3 DEF Decisions, Decides, Approves
<1>8. QED
  BY <1>1, <1>2, <1>5, <1>6, <1>7, CourseOnly

\* An update takes what is still current of the rows it has found.
LEMMA TakeRowsKeeps ==
  ASSUME SuccessionInv, NEW s \in Savers, TakeRows(s)
  PROVE  SuccessionInv'
<1>0. /\ SuccessionTyped /\ SaveCourses /\ RowsKnown /\ SlotsHeld /\ Stamped /\ FormsFollow /\ Decisions
  BY DEF SuccessionInv
<1> DEFINE step == IF order[s].kind = "pay" THEN "model" ELSE "lay"
<1>1. /\ savePc[s] = "take" /\ SaveGoto(s, step) /\ \A u \in Savers \ {s} : sought[s] \cap taken[u] = {}
      /\ taken' = [taken EXCEPT ![s] = sought[s] \cap current]
      /\ order' = order /\ before' = before /\ sought' = sought /\ laid' = laid /\ current' = current
      /\ decided' = decided /\ gone' = gone /\ now' = now /\ stampOf' = stampOf /\ rates' = rates
  BY DEF TakeRows
<1>2. step \in SaveSteps /\ ((step = "model" /\ order[s].kind = "pay") \/ step = "lay")
  BY DEF SaveSteps, Writing
<1> HIDE DEF step
<1>3. /\ savePc' \in [Savers -> SaveSteps] /\ savePc'[s] = step /\ \A u \in Savers : u # s => savePc'[u] = savePc[u]
  BY <1>0, <1>1, <1>2, SaveMoves
<1>4. /\ taken' \in [Savers -> SUBSET Row] /\ taken'[s] = sought[s] \cap current
      /\ \A u \in Savers : u # s => taken'[u] = taken[u]
  BY <1>0, <1>1, SaversTyped DEF SuccessionTyped
<1>5. SuccessionTyped'
  <2>1. /\ now' \in Nat /\ stampOf' \in [Savers -> Nat] /\ laid' \in [Savers -> SUBSET Row]
        /\ before' \in [Savers -> SUBSET Savers] /\ sought' \in [Savers -> SUBSET Row]
    BY <1>0, <1>1 DEF SuccessionTyped, SuccessionTypeOK
  <2>2. QED
    BY <1>0, <1>1, <1>3, <1>4, <2>1, QuietTypes
<1>6. \A u \in Savers : savePc'[u] = "done" <=> savePc[u] = "done"
  BY <1>1, <1>2, <1>3
<1>7. /\ NeverWithout' /\ OneRateAtATime' /\ DefaultLostOnlyByRemoval' /\ RatesFit'
      /\ \A x : Known(x) <=> Known(x)'
      /\ \A u \in Savers : (savePc'[u] = "done" /\ Approves(u)') => decided'[order'[u].change] = "approved"
  BY <1>1, <1>6, QuietSave
<1>8. order[s].kind \in Seeking /\ laid[s] = {}
  BY <1>0, <1>1 DEF SaveCourses
<1>9. SaveCourses'
  BY <1>0, <1>1, <1>2, <1>3, <1>4, <1>8 DEF SaveCourses, Decides, Seeking
<1>10. RowsKnown'
  BY <1>0, <1>1, <1>4, <1>7 DEF RowsKnown, Touches
<1>11. SlotsHeld'
  <2>1. \A v, u \in Savers : v # u => taken'[v] \cap taken'[u] = {}
    BY <1>0, <1>1, <1>4 DEF SlotsHeld
  <2>2. \A v, u \in Savers : \A x \in laid[v], y \in taken'[u] \cup laid[u] : x.slot = y.slot => v = u
    <3> SUFFICES ASSUME NEW v \in Savers, NEW u \in Savers, NEW x \in laid[v], NEW y \in taken'[u] \cup laid[u], x.slot = y.slot
                 PROVE  v = u
      OBVIOUS
    <3>1. CASE u # s \/ y \notin taken'[s]
      BY <1>0, <1>4, <3>1 DEF SlotsHeld
    <3>2. CASE u = s /\ y \in taken'[s] /\ v # s
      <4>1. y \in taken[v]
        BY <1>0, <1>4, <3>2 DEF SlotsHeld
      <4>2. QED
        BY <1>1, <1>4, <3>2, <4>1
    <3>3. QED
      BY <3>1, <3>2
  <2>3. \A v \in Savers : \A x \in laid[v], y \in current : x.slot = y.slot => y \in taken'[v]
    BY <1>0, <1>4, <1>8 DEF SlotsHeld
  <2>4. \A v \in Savers : \A x \in taken'[v] : x.article = NoArticle => x \in current
    BY <1>0, <1>4 DEF SlotsHeld
  <2>5. QED
    BY <1>1, <2>1, <2>2, <2>3, <2>4 DEF SlotsHeld
<1>12. Stamped'
  BY <1>0, <1>1, <1>2, <1>3 DEF Stamped
<1>13. FormsFollow'
  <2> SUFFICES ASSUME NEW u \in Savers
               PROVE  /\ \A v \in before[u] : savePc'[v] = "done"
                      /\ before[u] # {} => order[u].kind \in Seeking /\ savePc'[u] \notin {"idle", "seek"}
                      /\ \A y \in current : (y.by \in before[u] /\ y.slot \in order[u].covers) =>
                           /\ savePc'[u] = "take" => y \in sought[u]
                           /\ savePc'[u] \in {"model", "lay", "decide", "commit"} => y \in taken'[u]
                           /\ savePc'[u] # "done"
    BY <1>1 DEF FormsFollow
  <2>1. \A v \in before[u] : savePc'[v] = "done"
    BY <1>0, <1>6, SaversTyped DEF FormsFollow
  <2>2. CASE u = s
    BY <1>0, <1>1, <1>2, <1>3, <1>4, <1>8, <2>1, <2>2 DEF FormsFollow
  <2>3. CASE u # s
    BY <1>0, <1>3, <1>4, <2>1, <2>3 DEF FormsFollow
  <2>4. QED
    BY <2>2, <2>3
<1>14. Decisions'
  BY <1>0, <1>1, <1>2, <1>3, <1>7 DEF Decisions, Decides, Approves
<1>15. QED
  BY <1>5, <1>7, <1>9, <1>10, <1>11, <1>12, <1>13, <1>14 DEF SuccessionInv

\* The rows a request lays: one a slot, naming its service.
LEMMA LaysRows ==
  ASSUME SuccessionTyped, NEW s \in Savers
  PROVE  /\ Lays(s) \subseteq Row
         /\ order[s].article \in gone => Lays(s) = {}
         /\ order[s].article \notin gone => Lays(s) = {[slot |-> k, by |-> s, article |-> order[s].article] : k \in order[s].lays}
         /\ \A x \in Lays(s) : x.slot \in order[s].lays /\ x.by = s
  BY OrderTyped DEF Lays, Row

\* The rows laid, once no one else has taken or laid one of their slots.
LEMMA LayRowsKeeps ==
  ASSUME SuccessionInv, NEW s \in Savers, LayRows(s)
  PROVE  SuccessionInv'
<1>0. /\ SuccessionTyped /\ SaveCourses /\ RowsKnown /\ SlotsHeld /\ Stamped /\ FormsFollow /\ Decisions
  BY DEF SuccessionInv
<1> DEFINE others == {x \in current \ taken[s] : x.slot \in order[s].lays}
           step == IF order[s].change = NoChange THEN "commit" ELSE "decide"
           adds == IF order[s].kind = "oneTime" THEN others ELSE {}
<1>1. /\ savePc[s] = "lay"
      /\ \A u \in Savers \ {s} : \A x \in taken[u] \cup laid[u] : x.slot \notin order[s].lays
      /\ order' = order /\ before' = before /\ sought' = sought /\ current' = current
      /\ decided' = decided /\ gone' = gone /\ now' = now /\ stampOf' = stampOf /\ rates' = rates
      /\ \/ RollBackSave(s)
         \/ /\ ~(others # {} /\ order[s].kind # "oneTime" /\ Lays(s) # {})
            /\ taken' = [taken EXCEPT ![s] = @ \cup adds] /\ laid' = [laid EXCEPT ![s] = Lays(s)] /\ SaveGoto(s, step)
  BY DEF LayRows, Refuse
<1>2. CASE RollBackSave(s)
  <2>1. savePc[s] \in Writing
    BY <1>1 DEF Writing
  <2>2. QED
    BY <1>1, <1>2, <2>1, RolledBack
<1>3. CASE /\ ~(others # {} /\ order[s].kind # "oneTime" /\ Lays(s) # {})
           /\ taken' = [taken EXCEPT ![s] = @ \cup adds] /\ laid' = [laid EXCEPT ![s] = Lays(s)] /\ SaveGoto(s, step)
  <2>1. step \in {"commit", "decide"} /\ step \in SaveSteps /\ (step = "commit" <=> order[s].change = NoChange)
    BY DEF SaveSteps, Writing
  <2>2. adds \subseteq others /\ (order[s].kind = "oneTime" => adds = others)
    OBVIOUS
  <2>3. \A x \in others : x \in current /\ x \notin taken[s] /\ x.slot \in order[s].lays
    OBVIOUS
  <2>4. \A x \in current : (x \notin taken[s] /\ x.slot \in order[s].lays) => x \in others
    OBVIOUS
  <2> HIDE DEF step, adds, others
  <2>5. /\ savePc' \in [Savers -> SaveSteps] /\ savePc'[s] = step /\ \A u \in Savers : u # s => savePc'[u] = savePc[u]
    BY <1>0, <1>3, <2>1, SaveMoves
  <2>6. /\ Lays(s) \subseteq Row /\ (order[s].article \in gone => Lays(s) = {})
        /\ order[s].article \notin gone => Lays(s) = {[slot |-> k, by |-> s, article |-> order[s].article] : k \in order[s].lays}
        /\ \A x \in Lays(s) : x.slot \in order[s].lays /\ x.by = s
    BY <1>0, LaysRows
  <2>7. adds \subseteq Row
    BY <1>0, <2>2, <2>3 DEF SuccessionTyped, SuccessionTypeOK
  <2>8. /\ taken' \in [Savers -> SUBSET Row] /\ laid' \in [Savers -> SUBSET Row]
        /\ taken'[s] = taken[s] \cup adds /\ laid'[s] = Lays(s)
        /\ \A u \in Savers : u # s => taken'[u] = taken[u] /\ laid'[u] = laid[u]
    BY <1>0, <1>3, <2>6, <2>7 DEF SuccessionTyped
  <2>9. SuccessionTyped'
    <3>1. /\ now' \in Nat /\ stampOf' \in [Savers -> Nat]
          /\ before' \in [Savers -> SUBSET Savers] /\ sought' \in [Savers -> SUBSET Row]
      BY <1>0, <1>1 DEF SuccessionTyped, SuccessionTypeOK
    <3>2. QED
      BY <1>0, <1>1, <2>5, <2>8, <3>1, QuietTypes
  <2>10. \A u \in Savers : savePc'[u] = "done" <=> savePc[u] = "done"
    BY <1>1, <2>1, <2>5
  <2>11. /\ NeverWithout' /\ OneRateAtATime' /\ DefaultLostOnlyByRemoval' /\ RatesFit'
         /\ \A x : Known(x) <=> Known(x)'
         /\ \A u \in Savers : (savePc'[u] = "done" /\ Approves(u)') => decided'[order'[u].change] = "approved"
    BY <1>1, <2>10, QuietSave
  <2>12. /\ order[s].kind \in Seeking \cup {"oneTime"}
         /\ order[s].change # NoChange => Decides(s)
    BY <1>0, <1>1, OrderTyped DEF SaveCourses, Decides
  <2>13. order[s].article \in gone => order[s].kind = "default"
    <3>1. gone \subseteq Articles
      BY <1>0 DEF SuccessionTyped, SuccessionTypeOK
    <3>2. QED
      BY <1>0, <2>12, <3>1, OrdersFit DEF Seeking
  <2>14. SaveCourses'
    <3>1. \/ laid'[s] = {} /\ order[s].kind = "default" /\ order[s].article \in gone
          \/ /\ order[s].kind \notin {"deny", "removeService"}
             /\ laid'[s] = {[slot |-> k, by |-> s, article |-> order[s].article] : k \in order[s].lays}
      BY <2>6, <2>8, <2>12, <2>13 DEF Seeking
    <3>2. order[s].kind # "deny"
      BY <2>12 DEF Seeking
    <3>3. QED
      BY <1>0, <1>1, <2>1, <2>5, <2>8, <2>12, <3>1, <3>2 DEF SaveCourses, Decides
  <2>15. RowsKnown'
    <3>1. \A x \in adds : Known(x) /\ x.slot \in Touches(order[s])
      BY <1>0, <2>2, <2>3 DEF RowsKnown, Touches
    <3>2. QED
      BY <1>0, <1>1, <2>8, <2>11, <3>1 DEF RowsKnown, Touches
  <2>16. SlotsHeld'
    <3>1. \A v, u \in Savers : v # u => taken'[v] \cap taken'[u] = {}
      BY <1>0, <1>1, <2>2, <2>3, <2>8 DEF SlotsHeld
    <3>2. \A v, u \in Savers : \A x \in laid'[v], y \in taken'[u] \cup laid'[u] : x.slot = y.slot => v = u
      <4> SUFFICES ASSUME NEW v \in Savers, NEW u \in Savers, v # u, NEW x \in laid'[v], NEW y \in taken'[u] \cup laid'[u], x.slot = y.slot
                   PROVE  FALSE
        OBVIOUS
      <4>1. CASE v = s
        BY <1>1, <2>6, <2>8, <4>1
      <4>2. CASE v # s /\ u # s
        BY <1>0, <2>8, <4>2 DEF SlotsHeld
      <4>3. CASE u = s
        <5>1. x \in laid[v] /\ x.slot \notin order[s].lays
          BY <1>1, <2>8, <4>3
        <5>2. y \in taken[s]
          BY <2>2, <2>3, <2>6, <2>8, <4>3, <5>1
        <5>3. QED
          BY <1>0, <4>3, <5>1, <5>2 DEF SlotsHeld
      <4>4. QED
        BY <4>1, <4>2, <4>3
    <3>3. \A v \in Savers : \A x \in laid'[v], y \in current : x.slot = y.slot => y \in taken'[v]
      <4> SUFFICES ASSUME NEW v \in Savers, NEW x \in laid'[v], NEW y \in current, x.slot = y.slot PROVE y \in taken'[v]
        OBVIOUS
      <4>1. CASE v # s
        BY <1>0, <2>8, <4>1 DEF SlotsHeld
      <4>2. CASE v = s
        BY <1>3, <2>2, <2>4, <2>6, <2>8, <4>2
      <4>3. QED
        BY <4>1, <4>2
    <3>4. \A v \in Savers : \A x \in taken'[v] : x.article = NoArticle => x \in current
      BY <1>0, <2>2, <2>3, <2>8 DEF SlotsHeld
    <3>5. QED
      BY <1>1, <3>1, <3>2, <3>3, <3>4 DEF SlotsHeld
  <2>17. Stamped'
    BY <1>0, <1>1, <2>1, <2>5 DEF Stamped
  <2>18. FormsFollow'
    <3> SUFFICES ASSUME NEW u \in Savers
                 PROVE  /\ \A v \in before[u] : savePc'[v] = "done"
                        /\ before[u] # {} => order[u].kind \in Seeking /\ savePc'[u] \notin {"idle", "seek"}
                        /\ \A y \in current : (y.by \in before[u] /\ y.slot \in order[u].covers) =>
                             /\ savePc'[u] = "take" => y \in sought[u]
                             /\ savePc'[u] \in {"model", "lay", "decide", "commit"} => y \in taken'[u]
                             /\ savePc'[u] # "done"
      BY <1>1 DEF FormsFollow
    <3>1. \A v \in before[u] : savePc'[v] = "done"
      BY <1>0, <2>10, SaversTyped DEF FormsFollow
    <3>2. CASE u = s
      BY <1>0, <1>1, <2>1, <2>5, <2>8, <3>1, <3>2 DEF FormsFollow
    <3>3. CASE u # s
      BY <1>0, <2>5, <2>8, <3>1, <3>3 DEF FormsFollow
    <3>4. QED
      BY <3>2, <3>3
  <2>19. Decisions'
    <3>1. savePc'[s] = "commit" => ~Decides(s) /\ order[s].kind # "deny"
      BY <2>1, <2>5, <2>12, SuccessionConstants DEF Decides, Seeking
    <3>2. QED
      BY <1>0, <1>1, <2>1, <2>5, <2>11, <3>1 DEF Decisions, Decides, Approves
  <2>20. QED
    BY <2>9, <2>11, <2>14, <2>15, <2>16, <2>17, <2>18, <2>19 DEF SuccessionInv
<1>4. QED
  BY <1>1, <1>2, <1>3

\* What a commit finds: the request has laid a row in each slot it lays, unless it is a decision
\* or a removal, or makes a service the default that is gone.
LEMMA AtCommit ==
  ASSUME SuccessionInv, NEW s \in Savers, savePc[s] = "commit"
  PROVE  /\ \A x \in laid[s] : x \in Row /\ x.slot \in order[s].lays /\ x.by = s /\ x.article = order[s].article
         /\ \/ laid[s] = {} /\ order[s].kind \in {"deny", "removeService"}
            \/ laid[s] = {} /\ order[s].kind = "default" /\ order[s].article \in gone
            \/ \A k \in order[s].lays : [slot |-> k, by |-> s, article |-> order[s].article] \in laid[s]
         /\ order[s].kind \notin {"default", "removeService"} => order[s].article = NoArticle
         /\ order[s].kind # "pay" => \A x \in taken[s] \cup laid[s] : ~PaySlot(x.slot)
<1>0. SuccessionTyped /\ SaveCourses /\ RowsKnown
  BY DEF SuccessionInv
<1>1. \A x \in laid[s] : x \in Row /\ x.slot \in order[s].lays /\ x.by = s /\ x.article = order[s].article
  BY <1>0, SaversTyped DEF SaveCourses
<1>2. \/ laid[s] = {} /\ order[s].kind \in {"deny", "removeService"}
      \/ laid[s] = {} /\ order[s].kind = "default" /\ order[s].article \in gone
      \/ \A k \in order[s].lays : [slot |-> k, by |-> s, article |-> order[s].article] \in laid[s]
  BY <1>0 DEF SaveCourses
<1>3. order[s].kind \notin {"default", "removeService"} => order[s].article = NoArticle
  BY <1>0, OrdersFit, OrderTyped
<1>4. ASSUME order[s].kind # "pay", NEW x \in taken[s] \cup laid[s], PaySlot(x.slot) PROVE FALSE
  <2>1. PICK u \in Savers : order[u].kind = "pay" /\ x.slot \in order[u].covers
    BY <1>4 DEF PaySlot
  <2>2. x.slot \in Touches(order[s]) /\ x.slot \in Touches(order[u])
    BY <1>0, <1>1, <2>1 DEF RowsKnown, Touches
  <2>3. Table(order[s]) = Table(order[u])
    BY <1>0, <2>2, OneTable
  <2>4. QED
    BY <1>4, <2>1, <2>3 DEF Table
<1>5. QED
  BY <1>1, <1>2, <1>3, <1>4

\* A row of a rate's slot names no service and is touched by pay requests only.
LEMMA PayRows ==
  ASSUME SuccessionInv, NEW x, Known(x), PaySlot(x.slot)
  PROVE  x.article = NoArticle
<1>1. PICK u \in Savers : order[u].kind = "pay" /\ x.slot \in order[u].covers
  BY DEF PaySlot
<1>2. QED
  BY <1>1, NoService DEF SuccessionInv, Touches

\* A commit: the rows it took go, the rows it laid come, and its decision stands.
LEMMA CommitEffect ==
  ASSUME SuccessionInv, NEW s \in Savers, CommitSave(s)
  PROVE  /\ savePc[s] = "commit"
         /\ order' = order /\ before' = before /\ sought' = sought /\ now' = now /\ stampOf' = stampOf
         /\ gone \subseteq gone' /\ gone' \subseteq Articles
         /\ order[s].kind # "removeService" => gone' = gone
         /\ \A x : x \in current' <=> ((x \in current /\ x \notin taken[s]) \/ x \in laid[s]) /\ x.article \notin gone'
         /\ decided' = [q \in Changes |-> IF q # order[s].change THEN decided[q]
                                          ELSE IF order[s].kind = "deny" THEN "denied" ELSE "approved"]
         /\ savePc' \in [Savers -> SaveSteps] /\ savePc'[s] = "done" /\ \A u \in Savers : u # s => savePc'[u] = savePc[u]
         /\ taken' \in [Savers -> SUBSET Row] /\ laid' \in [Savers -> SUBSET Row]
         /\ taken'[s] = {} /\ laid'[s] = {}
         /\ \A u \in Savers : u # s => taken'[u] = taken[u] /\ laid'[u] = laid[u]
<1>0. SuccessionTyped
  BY DEF SuccessionInv
<1>1. /\ savePc[s] = "commit"
      /\ gone' = gone \cup IF order[s].kind = "removeService" THEN {order[s].article} ELSE {}
      /\ current' = {x \in (current \ taken[s]) \cup laid[s] : x.article \notin gone'}
      /\ decided' = [q \in Changes |-> IF q # order[s].change THEN decided[q]
                                       ELSE IF order[s].kind = "deny" THEN "denied" ELSE "approved"]
      /\ SaveGoto(s, "done")
      /\ taken' = [taken EXCEPT ![s] = {}] /\ laid' = [laid EXCEPT ![s] = {}]
      /\ order' = order /\ before' = before /\ sought' = sought /\ now' = now /\ stampOf' = stampOf
  BY DEF CommitSave
<1>2. gone \subseteq Articles /\ order[s].kind = "removeService" => order[s].article \in Articles
  BY <1>0, OrdersFit DEF SuccessionTyped, SuccessionTypeOK
<1>3. /\ gone \subseteq gone' /\ gone' \subseteq Articles
      /\ order[s].kind # "removeService" => gone' = gone
  <2>1. gone \subseteq Articles
    BY <1>0 DEF SuccessionTyped, SuccessionTypeOK
  <2>2. QED
    BY <1>1, <1>2, <2>1
<1>4. \A x : x \in current' <=> ((x \in current /\ x \notin taken[s]) \/ x \in laid[s]) /\ x.article \notin gone'
  BY <1>1
<1>5. savePc' \in [Savers -> SaveSteps] /\ savePc'[s] = "done" /\ \A u \in Savers : u # s => savePc'[u] = savePc[u]
  <2>1. "done" \in SaveSteps
    BY DEF SaveSteps
  <2>2. QED
    BY <1>0, <1>1, <2>1, SaveMoves
<1>6. /\ taken' \in [Savers -> SUBSET Row] /\ laid' \in [Savers -> SUBSET Row]
      /\ taken'[s] = {} /\ laid'[s] = {}
      /\ \A u \in Savers : u # s => taken'[u] = taken[u] /\ laid'[u] = laid[u]
  BY <1>0, <1>1 DEF SuccessionTyped
<1>7. QED
  BY <1>1, <1>3, <1>4, <1>5, <1>6

\* What was known stays so, and what is laid becomes so.
LEMMA CommitKnows ==
  ASSUME SuccessionInv, NEW s \in Savers, CommitSave(s)
  PROVE  /\ \A x : Known(x) => Known(x)'
         /\ \A x \in laid[s] : Known(x)'
         /\ \A x : (Known(x) /\ x.by = s) => FALSE
<1>1. /\ savePc[s] = "commit" /\ order' = order
      /\ savePc'[s] = "done" /\ \A u \in Savers : u # s => savePc'[u] = savePc[u]
  BY CommitEffect
<1>2. \A x : Known(x) => Known(x)'
  BY <1>1 DEF Known
<1>3. \A x \in laid[s] : Known(x)'
  BY <1>1, AtCommit DEF Known
<1>4. \A x : (Known(x) /\ x.by = s) => FALSE
  BY <1>1, SuccessionConstants DEF Known
<1>5. QED
  BY <1>2, <1>3, <1>4

LEMMA CommitTypes ==
  ASSUME SuccessionInv, NEW s \in Savers, CommitSave(s)
  PROVE  SuccessionTyped'
<1>0. SuccessionTyped
  BY DEF SuccessionInv
<1>1. /\ savePc[s] = "commit"
      /\ order' = order /\ before' = before /\ sought' = sought /\ now' = now /\ stampOf' = stampOf
      /\ gone' \subseteq Articles
      /\ \A x : x \in current' <=> ((x \in current /\ x \notin taken[s]) \/ x \in laid[s]) /\ x.article \notin gone'
      /\ decided' = [q \in Changes |-> IF q # order[s].change THEN decided[q]
                                       ELSE IF order[s].kind = "deny" THEN "denied" ELSE "approved"]
      /\ savePc' \in [Savers -> SaveSteps]
      /\ taken' \in [Savers -> SUBSET Row] /\ laid' \in [Savers -> SUBSET Row]
  BY CommitEffect
<1>2. current' \subseteq Row
  BY <1>0, <1>1, AtCommit DEF SuccessionTyped, SuccessionTypeOK
<1>3. decided' \in [Changes -> {"pending", "approved", "denied"}]
  BY <1>0, <1>1 DEF SuccessionTyped, SuccessionTypeOK
<1>4. rates' \subseteq Rate
  <2>1. CASE order[s].kind # "pay"
    BY <1>0, <2>1 DEF CommitSave, SuccessionTyped
  <2>2. CASE order[s].kind = "pay"
    <3>1. stampOf[s] \in Nat /\ order[s].lays \subseteq Slots
      BY <1>0, SaversTyped, OrderTyped
    <3>2. \A p \in Rate : \A t \in Nat : [p EXCEPT !.to = t] \in Rate /\ p.to \in Nat
      BY DEF Rate
    <3>3. \A k \in order[s].lays : [slot |-> k, by |-> s, from |-> stampOf[s], to |-> Open] \in Rate
      BY <3>1 DEF Rate, Open
    <3>4. SUFFICES ASSUME NEW r \in rates' PROVE r \in Rate
      OBVIOUS
    <3>5. \/ \E p \in rates : r = [p EXCEPT !.to = IF \E x \in taken[s] : x.slot = p.slot /\ x.by = p.by
                                                   THEN stampOf[s] ELSE @]
          \/ \E k \in order[s].lays : r = [slot |-> k, by |-> s, from |-> stampOf[s], to |-> Open]
      BY <2>2, <3>4 DEF CommitSave, ClosedAt
    <3>6. \A p \in rates : p \in Rate
      BY <1>0 DEF SuccessionTyped
    <3>7. QED
      BY <3>1, <3>2, <3>3, <3>5, <3>6
  <2>3. QED
    BY <2>1, <2>2
<1>5. \A p \in rates' : p.slot \in Slots /\ p.from \in Nat /\ p.to \in Nat
  BY <1>4 DEF Rate
<1>6. \A u \in Savers : sought'[u] \cup taken'[u] \cup laid'[u] \subseteq Row
                        /\ before'[u] \subseteq Savers /\ stampOf'[u] \in Nat
  BY <1>0, <1>1 DEF SuccessionTyped
<1>7. QED
  BY <1>0, <1>1, <1>2, <1>3, <1>4, <1>5, <1>6 DEF SuccessionTyped, SuccessionTypeOK, SaveSteps, Writing

\* The rows after a commit are known, one a slot, and what others hold they hold alone.
LEMMA CommitHolds ==
  ASSUME SuccessionInv, NEW s \in Savers, CommitSave(s)
  PROVE  SaveCourses' /\ RowsKnown' /\ SlotsHeld' /\ Stamped'
<1>0. /\ SuccessionTyped /\ SaveCourses /\ RowsKnown /\ SlotsHeld /\ Stamped
  BY DEF SuccessionInv
<1>1. /\ savePc[s] = "commit"
      /\ order' = order /\ before' = before /\ sought' = sought /\ now' = now /\ stampOf' = stampOf
      /\ gone \subseteq gone' /\ gone' \subseteq Articles
      /\ \A x : x \in current' <=> ((x \in current /\ x \notin taken[s]) \/ x \in laid[s]) /\ x.article \notin gone'
      /\ savePc'[s] = "done" /\ \A u \in Savers : u # s => savePc'[u] = savePc[u]
      /\ taken'[s] = {} /\ laid'[s] = {}
      /\ \A u \in Savers : u # s => taken'[u] = taken[u] /\ laid'[u] = laid[u]
  BY CommitEffect
<1>2. /\ \A x : Known(x) => Known(x)'
      /\ \A x \in laid[s] : Known(x)'
  BY CommitKnows
<1>3. SaveCourses'
  BY <1>0, <1>1 DEF SaveCourses, Decides
<1>4. RowsKnown'
  <2>1. \A x \in current' : Known(x)'
    BY <1>0, <1>1, <1>2 DEF RowsKnown
  <2>2. /\ \A u \in Savers : \A x \in sought[u] : Known(x)' /\ x.slot \in order[u].covers
        /\ \A u \in Savers : \A x \in taken'[u] : Known(x)' /\ x.slot \in Touches(order[u])
    BY <1>0, <1>1, <1>2 DEF RowsKnown
  <2>3. ASSUME NEW x \in current', NEW y \in current', x.slot = y.slot PROVE x = y
    <3>1. CASE x \in laid[s] /\ y \in laid[s]
      <4>1. x \in Row /\ y \in Row /\ x.by = y.by /\ x.article = y.article
        BY <1>1, <3>1, AtCommit
      <4>2. QED
        BY <2>3, <4>1, RowTyped
    <3>2. CASE x \in laid[s] /\ y \notin laid[s]
      BY <1>0, <1>1, <2>3, <3>2 DEF SlotsHeld
    <3>3. CASE x \notin laid[s] /\ y \in laid[s]
      BY <1>0, <1>1, <2>3, <3>3 DEF SlotsHeld
    <3>4. CASE x \notin laid[s] /\ y \notin laid[s]
      BY <1>0, <1>1, <2>3, <3>4 DEF RowsKnown
    <3>5. QED
      BY <3>1, <3>2, <3>3, <3>4
  <2>4. QED
    BY <1>1, <2>1, <2>2, <2>3 DEF RowsKnown, Touches
<1>5. SlotsHeld'
  <2>1. \A v, u \in Savers : v # u => taken'[v] \cap taken'[u] = {}
    BY <1>0, <1>1 DEF SlotsHeld
  <2>2. \A v, u \in Savers : \A x \in laid'[v], y \in taken'[u] \cup laid'[u] : x.slot = y.slot => v = u
    BY <1>0, <1>1 DEF SlotsHeld
  <2>3. \A v \in Savers : \A x \in laid'[v], y \in current' : x.slot = y.slot => y \in taken'[v]
    <3> SUFFICES ASSUME NEW v \in Savers, NEW x \in laid'[v], NEW y \in current', x.slot = y.slot PROVE y \in taken'[v]
      OBVIOUS
    <3>1. v # s /\ x \in laid[v]
      BY <1>1
    <3>2. y \notin laid[s]
      BY <1>0, <3>1 DEF SlotsHeld
    <3>3. QED
      BY <1>0, <1>1, <3>1, <3>2 DEF SlotsHeld
  <2>4. \A v \in Savers : \A x \in taken'[v] : x.article = NoArticle => x \in current'
    <3> SUFFICES ASSUME NEW v \in Savers, NEW x \in taken'[v], x.article = NoArticle PROVE x \in current'
      OBVIOUS
    <3>1. v # s /\ x \in taken[v] /\ x \in current
      BY <1>0, <1>1 DEF SlotsHeld
    <3>2. x \notin taken[s]
      BY <1>0, <3>1 DEF SlotsHeld
    <3>3. QED
      BY <1>1, <3>1, <3>2, SuccessionConstants
  <2>5. QED
    BY <2>1, <2>2, <2>3, <2>4 DEF SlotsHeld
<1>6. Stamped'
  BY <1>0, <1>1 DEF Stamped
<1>7. QED
  BY <1>3, <1>4, <1>5, <1>6

\* What a form covers and another saw before it goes with the commit; a decision is its change's.
LEMMA CommitFollows ==
  ASSUME SuccessionInv, NEW s \in Savers, CommitSave(s)
  PROVE  FormsFollow' /\ Decisions'
<1>0. SuccessionTyped /\ SaveCourses /\ FormsFollow /\ Decisions
  BY DEF SuccessionInv
<1>1. /\ savePc[s] = "commit"
      /\ order' = order /\ before' = before /\ sought' = sought
      /\ \A x : x \in current' <=> ((x \in current /\ x \notin taken[s]) \/ x \in laid[s]) /\ x.article \notin gone'
      /\ decided' = [q \in Changes |-> IF q # order[s].change THEN decided[q]
                                       ELSE IF order[s].kind = "deny" THEN "denied" ELSE "approved"]
      /\ savePc'[s] = "done" /\ \A u \in Savers : u # s => savePc'[u] = savePc[u]
      /\ \A u \in Savers : u # s => taken'[u] = taken[u]
  BY CommitEffect
<1>2. \A u \in Savers : \A v \in before[u] : v \in Savers /\ savePc[v] = "done" /\ savePc'[v] = "done" /\ v # s
  BY <1>0, <1>1, SaversTyped DEF FormsFollow
<1>3. \A y \in laid[s] : y.by = s
  BY <1>1, AtCommit
<1>4. FormsFollow'
  <2> SUFFICES ASSUME NEW u \in Savers
               PROVE  /\ \A v \in before[u] : savePc'[v] = "done"
                      /\ before[u] # {} => order[u].kind \in Seeking /\ savePc'[u] \notin {"idle", "seek"}
                      /\ \A y \in current' : (y.by \in before[u] /\ y.slot \in order[u].covers) =>
                           /\ savePc'[u] = "take" => y \in sought[u]
                           /\ savePc'[u] \in {"model", "lay", "decide", "commit"} => y \in taken'[u]
                           /\ savePc'[u] # "done"
    BY <1>1 DEF FormsFollow
  <2>1. before[u] # {} => order[u].kind \in Seeking /\ savePc'[u] \notin {"idle", "seek"}
    BY <1>0, <1>1 DEF FormsFollow
  <2>2. \A y \in current' : y.by \in before[u] => y \in current /\ y \notin taken[s]
    BY <1>1, <1>2, <1>3
  <2>3. CASE u = s
    BY <1>0, <1>1, <1>2, <2>1, <2>2, <2>3 DEF FormsFollow
  <2>4. CASE u # s
    BY <1>0, <1>1, <1>2, <2>1, <2>2, <2>4 DEF FormsFollow
  <2>5. QED
    BY <2>3, <2>4
<1>5. Decisions'
  <2>1. \A v, u \in Savers : (/\ savePc'[v] = "commit" /\ savePc'[u] = "commit" /\ Decides(v)
                              /\ order[v].change = order[u].change) => v = u
    BY <1>0, <1>1 DEF Decisions
  <2>2. ASSUME NEW u \in Savers, savePc'[u] = "commit", order[u].kind = "deny"
        PROVE  decided'[order[u].change] = "pending"
    <3>1. u # s /\ savePc[u] = "commit" /\ Decides(u)
      BY <1>0, <1>1, <2>2, OrdersFit DEF Decides
    <3>2. order[u].change # order[s].change
      BY <1>0, <1>1, <3>1 DEF Decisions
    <3>3. decided[order[u].change] = "pending"
      BY <1>0, <2>2, <3>1 DEF Decisions
    <3>4. QED
      BY <1>1, <3>1, <3>2, <3>3 DEF Decides
  <2>3. ASSUME NEW u \in Savers, savePc'[u] = "done", Approves(u)
        PROVE  decided'[order[u].change] = "approved"
    <3>1. order[u].change \in Changes /\ order[u].kind # "deny"
      BY <1>0, <2>3, OrdersFit DEF Approves
    <3>2. CASE u = s
      BY <1>1, <3>1, <3>2
    <3>3. CASE u # s
      <4>1. decided[order[u].change] = "approved"
        BY <1>0, <1>1, <2>3, <3>3 DEF Decisions
      <4>2. order[u].change = order[s].change => order[s].kind # "deny"
        BY <1>0, <1>1, <4>1 DEF Decisions
      <4>3. QED
        BY <1>1, <3>1, <4>1, <4>2
    <3>4. QED
      BY <3>2, <3>3
  <2>4. QED
    BY <1>1, <2>1, <2>2, <2>3 DEF Decisions, Decides, Approves
<1>6. QED
  BY <1>4, <1>5

\* Who takes a rate or a published week away lays the next.
LEMMA CommitNeverWithout ==
  ASSUME SuccessionInv, NEW s \in Savers, CommitSave(s), NEW t \in Savers, order[t].kind \in {"pay", "publish"},
         NEW k \in order[t].covers, NEW y \in current, y.slot = k
  PROVE  \E z \in current' : z.slot = k
<1>0. SuccessionTyped /\ RowsKnown
  BY DEF SuccessionInv
<1>1. /\ savePc[s] = "commit" /\ gone' \subseteq Articles
      /\ \A x : x \in current' <=> ((x \in current /\ x \notin taken[s]) \/ x \in laid[s]) /\ x.article \notin gone'
  BY CommitEffect
<1>2. k \in Touches(order[t]) /\ Known(y)
  BY <1>0 DEF RowsKnown, Touches
<1>3. CASE y \notin taken[s]
  <2>1. y.article = NoArticle
    BY <1>0, <1>2, NoService
  <2>2. QED
    BY <1>1, <1>3, <2>1, SuccessionConstants
<1>4. CASE y \in taken[s]
  <2>1. k \in Touches(order[s])
    BY <1>0, <1>4 DEF RowsKnown
  <2>2. Table(order[s]) = Table(order[t])
    BY <1>0, <1>2, <2>1, OneTable
  <2>3. order[s].kind \in {"pay", "publish"}
    BY <2>2 DEF Table
  <2>4. k \in order[s].lays
    BY <1>0, <2>1, <2>3, OrdersFit DEF Touches
  <2>5. [slot |-> k, by |-> s, article |-> order[s].article] \in laid[s] /\ order[s].article = NoArticle
    BY <1>1, <2>3, <2>4, AtCommit
  <2>6. [slot |-> k, by |-> s, article |-> order[s].article] \in current'
    BY <1>1, <2>5, SuccessionConstants
  <2>7. QED
    BY <2>6
<1>5. QED
  BY <1>3, <1>4

LEMMA CommitSucceeds ==
  ASSUME SuccessionInv, NEW s \in Savers, CommitSave(s)
  PROVE  NeverWithout' /\ DefaultLostOnlyByRemoval'
<1>0. SuccessionTyped /\ RowsKnown
  BY DEF SuccessionInv
<1>1. /\ savePc[s] = "commit" /\ order' = order /\ gone \subseteq gone'
      /\ \A x : x \in current' <=> ((x \in current /\ x \notin taken[s]) \/ x \in laid[s]) /\ x.article \notin gone'
      /\ savePc'[s] = "done" /\ \A u \in Savers : u # s => savePc'[u] = savePc[u]
  BY CommitEffect
<1>2. NeverWithout'
  <2> SUFFICES ASSUME NEW x \in Standing, NEW t \in Savers, order[t].kind \in {"pay", "publish"}, x.slot \in order[t].covers
               PROVE  \E y \in current' : y.slot = x.slot
    BY <1>1 DEF NeverWithout, AskedFor
  <2>1. t \in AskedFor({"pay", "publish"})
    BY DEF AskedFor
  <2>2. PICK y \in current : y.slot = x.slot
    BY <2>1 DEF SuccessionInv, NeverWithout
  <2>3. QED
    BY <2>2, CommitNeverWithout
<1>3. DefaultLostOnlyByRemoval'
  <2> SUFFICES ASSUME NEW t \in Savers, order[t].kind = "default", ~\E x \in current' : x.slot \in order[t].covers
               PROVE  \/ \E x \in Standing : x.article \in gone'
                      \/ \E u \in Savers : order[u].kind = "default" /\ savePc'[u] = "done" /\ order[u].article \in gone'
    BY <1>1 DEF DefaultLostOnlyByRemoval, AskedFor
  <2>1. CASE ~\E x \in current : x.slot \in order[t].covers
    <3>1. t \in AskedFor({"default"})
      BY DEF AskedFor
    <3>2. \/ \E x \in Standing : x.article \in gone
          \/ \E u \in AskedFor({"default"}) : savePc[u] = "done" /\ order[u].article \in gone
      BY <2>1, <3>1 DEF SuccessionInv, DefaultLostOnlyByRemoval
    <3>3. QED
      BY <1>1, <3>2 DEF AskedFor
  <2>2. CASE \E x \in current : x.slot \in order[t].covers
    <3>1. PICK x \in current : x.slot \in order[t].covers
      BY <2>2
    <3>2. Known(x) /\ x.slot \in Touches(order[t]) /\ x \notin current'
      BY <1>0, <3>1 DEF RowsKnown, Touches
    <3>3. CASE x \in taken[s]
      <4>1. x.slot \in Touches(order[s])
        BY <1>0, <3>3 DEF RowsKnown
      <4>2. Table(order[s]) = Table(order[t])
        BY <1>0, <3>2, <4>1, OneTable
      <4>3. order[s].kind = "default"
        BY <4>2 DEF Table
      <4>4. x.slot \in order[s].lays
        BY <1>0, <4>1, <4>3, OrdersFit DEF Touches
      <4>5. order[s].article \in gone'
        <5>1. CASE order[s].article \in gone
          BY <1>1, <5>1
        <5>2. CASE order[s].article \notin gone
          <6>1. [slot |-> x.slot, by |-> s, article |-> order[s].article] \in laid[s]
            BY <1>1, <4>3, <4>4, <5>2, AtCommit
          <6>2. [slot |-> x.slot, by |-> s, article |-> order[s].article] \notin current'
            BY <3>1
          <6>3. QED
            BY <1>1, <6>1, <6>2
        <5>3. QED
          BY <5>1, <5>2
      <4>6. QED
        BY <1>1, <4>3, <4>5
    <3>4. CASE x \notin taken[s]
      <4>1. x.article \in gone'
        BY <1>1, <3>1, <3>2, <3>4
      <4>2. CASE x \in Standing
        BY <4>1, <4>2
      <4>3. CASE x \notin Standing
        <5>1. x.by \in Savers /\ savePc[x.by] = "done" /\ x.slot \in Touches(order[x.by]) /\ x.article = order[x.by].article
          BY <3>2, <4>3 DEF Known, Touches
        <5>2. Table(order[x.by]) = Table(order[t])
          BY <1>0, <3>2, <5>1, OneTable
        <5>3. order[x.by].kind = "default"
          BY <5>2 DEF Table
        <5>4. savePc'[x.by] = "done"
          BY <1>1, <5>1
        <5>5. QED
          BY <4>1, <5>1, <5>3, <5>4
      <4>4. QED
        BY <4>2, <4>3
    <3>5. QED
      BY <3>3, <3>4
  <2>3. QED
    BY <2>1, <2>2
<1>4. QED
  BY <1>2, <1>3

\* Whether a pay request that commits ends a rate, and what it leaves of it; the rate it opens.
Ends(p, s)   == \E x \in taken[s] : x.slot = p.slot /\ x.by = p.by
Left(p, s)   == [p EXCEPT !.to = IF Ends(p, s) THEN stampOf[s] ELSE @]
Opened(k, s) == [slot |-> k, by |-> s, from |-> stampOf[s], to |-> Open]

LEMMA RateTyped ==
  ASSUME SuccessionInv, NEW p \in rates
  PROVE  /\ p.slot \in Slots /\ p.by \in Savers \cup {First} /\ p.from \in Nat /\ p.to \in Nat
         /\ \A s \in Savers : /\ Left(p, s).slot = p.slot /\ Left(p, s).by = p.by /\ Left(p, s).from = p.from
                              /\ Left(p, s).to = IF Ends(p, s) THEN stampOf[s] ELSE p.to
                              /\ ~Ends(p, s) => Left(p, s) = p
<1>1. p \in Rate
  BY DEF SuccessionInv, SuccessionTyped
<1>2. QED
  BY <1>1 DEF Rate, Left

\* The rows of a rate's slot: a commit keeps those it has not taken, and lays only if it is for pay.
LEMMA CommitPayRows ==
  ASSUME SuccessionInv, NEW s \in Savers, CommitSave(s), NEW k, PaySlot(k)
  PROVE  /\ \A x \in current : (x.slot = k /\ x \notin taken[s]) => x \in current'
         /\ \A x \in current' : x.slot = k => (x \in current /\ x \notin taken[s]) \/ (x \in laid[s] /\ x.by = s /\ order[s].kind = "pay")
         /\ order[s].kind # "pay" => \A x \in current : x.slot = k => x \in current'
<1>0. RowsKnown
  BY DEF SuccessionInv
<1>1. /\ savePc[s] = "commit" /\ gone' \subseteq Articles
      /\ \A x : x \in current' <=> ((x \in current /\ x \notin taken[s]) \/ x \in laid[s]) /\ x.article \notin gone'
  BY CommitEffect
<1>2. ASSUME NEW x \in current, x.slot = k, x \notin taken[s] PROVE x \in current'
  <2>1. x.article = NoArticle
    BY <1>0, <1>2, PayRows DEF RowsKnown
  <2>2. QED
    BY <1>1, <1>2, <2>1, SuccessionConstants
<1>3. ASSUME NEW x \in taken[s] \cup laid[s], x.slot = k PROVE order[s].kind = "pay"
  BY <1>1, <1>3, AtCommit
<1>4. ASSUME NEW x \in current', x.slot = k
      PROVE  (x \in current /\ x \notin taken[s]) \/ (x \in laid[s] /\ x.by = s /\ order[s].kind = "pay")
  BY <1>1, <1>3, <1>4, AtCommit
<1>5. QED
  BY <1>2, <1>3, <1>4

\* A request for pay ends the open rates of the slots it lays and no others.
LEMMA PayCommit ==
  ASSUME SuccessionInv, NEW s \in Savers, CommitSave(s), order[s].kind = "pay"
  PROVE  /\ rates' = {Left(p, s) : p \in rates} \cup {Opened(k, s) : k \in order[s].lays}
         /\ stampOf[s] \in Nat /\ stampOf[s] >= 2
         /\ \A k \in order[s].lays : PaySlot(k) /\ \E x \in current' : x.slot = k /\ x.by = s
         /\ \A x \in laid[s] : x.slot \in order[s].lays /\ x.by = s
         /\ \A p \in rates : p.by # s
         /\ \A p \in rates : Ends(p, s) => PaySlot(p.slot) /\ p.slot \in order[s].lays /\ p.to = Open
         /\ \A p \in rates : p.slot \in order[s].lays /\ p.to = Open => Ends(p, s)
<1>0. SuccessionTyped /\ RowsKnown /\ SlotsHeld /\ Stamped /\ RatesFit
  BY DEF SuccessionInv
<1>1. savePc[s] = "commit" /\ gone' \subseteq Articles
      /\ \A x : x \in current' <=> ((x \in current /\ x \notin taken[s]) \/ x \in laid[s]) /\ x.article \notin gone'
  BY CommitEffect
<1>2. rates' = {Left(p, s) : p \in rates} \cup {Opened(k, s) : k \in order[s].lays}
  BY DEF CommitSave, Left, Opened, Ends, ClosedAt
<1>3. stampOf[s] \in Nat /\ stampOf[s] >= 2
  <2>1. stampOf[s] \in 2 .. (now - 1)
    BY <1>0, <1>1 DEF Stamped
  <2>2. QED
    BY <2>1, <1>0, SaversTyped
<1>4. order[s].lays = order[s].covers /\ order[s].article = NoArticle /\ Touches(order[s]) = order[s].lays
  <2>1. order[s].lays = order[s].covers /\ order[s].article = NoArticle
    BY <1>0, <1>1, OrdersFit, AtCommit
  <2>2. QED
    BY <2>1 DEF Touches
<1>5. ASSUME NEW k \in order[s].lays
      PROVE  PaySlot(k) /\ [slot |-> k, by |-> s, article |-> NoArticle] \in laid[s]
             /\ \E x \in current' : x.slot = k /\ x.by = s
  <2>1. PaySlot(k)
    BY <1>4, <1>5 DEF PaySlot
  <2>2. [slot |-> k, by |-> s, article |-> NoArticle] \in laid[s]
    BY <1>1, <1>4, <1>5, AtCommit
  <2>3. [slot |-> k, by |-> s, article |-> NoArticle] \in current'
    BY <1>1, <2>2, SuccessionConstants
  <2>4. QED
    BY <2>1, <2>2, <2>3
<1>6. \A x \in laid[s] : x.slot \in order[s].lays /\ x.by = s
  BY <1>1, AtCommit
<1>7. ASSUME NEW p \in rates, p.by = s PROVE FALSE
  BY <1>0, <1>1, <1>7, SuccessionConstants DEF RatesFit
<1>8. ASSUME NEW p \in rates, Ends(p, s) PROVE PaySlot(p.slot) /\ p.slot \in order[s].lays /\ p.to = Open
  <2>1. PICK x \in taken[s] : x.slot = p.slot /\ x.by = p.by
    BY <1>8 DEF Ends
  <2>2. Known(x) /\ x.slot \in order[s].lays
    BY <1>0, <1>4 DEF RowsKnown
  <2>3. PaySlot(p.slot)
    BY <1>5, <2>1, <2>2
  <2>4. x \in current
    BY <1>0, <2>1, <2>2, <2>3, PayRows DEF SlotsHeld
  <2>5. QED
    BY <1>0, <2>1, <2>2, <2>3, <2>4 DEF RatesFit
<1>9. ASSUME NEW p \in rates, p.slot \in order[s].lays, p.to = Open PROVE Ends(p, s)
  <2>1. PICK x \in current : x.slot = p.slot /\ x.by = p.by
    BY <1>0, <1>5, <1>9 DEF RatesFit
  <2>2. x \in taken[s]
    <3>1. PICK y \in laid[s] : y.slot = p.slot
      BY <1>5, <1>9
    <3>2. QED
      BY <1>0, <2>1, <3>1 DEF SlotsHeld
  <2>3. QED
    BY <2>1, <2>2 DEF Ends
<1>10. QED
  BY <1>2, <1>3, <1>5, <1>6, <1>7, <1>8, <1>9

LEMMA CommitRatesFit ==
  ASSUME SuccessionInv, NEW s \in Savers, CommitSave(s)
  PROVE  RatesFit'
<1>0. SuccessionTyped /\ RowsKnown /\ RatesFit
  BY DEF SuccessionInv
<1>1. /\ savePc[s] = "commit" /\ order' = order /\ stampOf' = stampOf
      /\ savePc'[s] = "done" /\ \A u \in Savers : u # s => savePc'[u] = savePc[u]
  BY CommitEffect
<1>2. \A k : PaySlot(k)' <=> PaySlot(k)
  BY <1>1 DEF PaySlot
<1>3. \A p \in rates : p.by # First => p.by \in Savers
  BY RateTyped
<1>4. CASE order[s].kind # "pay"
  <2>1. rates' = rates
    BY <1>4 DEF CommitSave
  <2>2. \A x : PaySlot(x.slot) => (x \in current' <=> x \in current)
    <3> SUFFICES ASSUME NEW x, PaySlot(x.slot) PROVE x \in current' <=> x \in current
      OBVIOUS
    <3>1. QED
      BY <1>4, CommitPayRows
  <2>3. /\ \A p \in rates' : IF p.by = First THEN p.from = 1
                             ELSE /\ order[p.by].kind = "pay" /\ savePc'[p.by] = "done" /\ p.from = stampOf[p.by]
                                  /\ p.slot \in order[p.by].lays
        /\ \A p, q \in rates' : (p.slot = q.slot /\ p.by = q.by) => p = q
    BY <1>0, <1>1, <1>3, <2>1 DEF RatesFit
  <2>4. \A p \in rates' : IF PaySlot(p.slot)
                          THEN /\ p.to = Open <=> \E x \in current' : x.slot = p.slot /\ x.by = p.by
                               /\ \E x \in current' : x.slot = p.slot
                          ELSE p.by = First /\ p.to = Open
    <3> SUFFICES ASSUME NEW p \in rates
                 PROVE  IF PaySlot(p.slot)
                        THEN /\ p.to = Open <=> \E x \in current' : x.slot = p.slot /\ x.by = p.by
                             /\ \E x \in current' : x.slot = p.slot
                        ELSE p.by = First /\ p.to = Open
      BY <2>1
    <3>1. CASE ~PaySlot(p.slot)
      BY <1>0, <3>1 DEF RatesFit
    <3>2. CASE PaySlot(p.slot)
      <4>1. /\ p.to = Open <=> \E x \in current : x.slot = p.slot /\ x.by = p.by
            /\ \E x \in current : x.slot = p.slot
        BY <1>0, <3>2 DEF RatesFit
      <4>2. QED
        BY <2>2, <3>2, <4>1
    <3>3. QED
      BY <3>1, <3>2
  <2>5. \A x \in current' : PaySlot(x.slot) => \E p \in rates' : p.slot = x.slot /\ p.by = x.by
    BY <1>0, <2>1, <2>2 DEF RatesFit
  <2>6. QED
    BY <1>1, <1>2, <2>3, <2>4, <2>5 DEF RatesFit
<1>5. CASE order[s].kind = "pay"
  <2>1. /\ rates' = {Left(p, s) : p \in rates} \cup {Opened(k, s) : k \in order[s].lays}
        /\ stampOf[s] \in Nat /\ stampOf[s] >= 2
        /\ \A k \in order[s].lays : PaySlot(k) /\ \E x \in current' : x.slot = k /\ x.by = s
        /\ \A x \in laid[s] : x.slot \in order[s].lays /\ x.by = s
        /\ \A p \in rates : p.by # s
        /\ \A p \in rates : Ends(p, s) => PaySlot(p.slot) /\ p.slot \in order[s].lays /\ p.to = Open
        /\ \A p \in rates : p.slot \in order[s].lays /\ p.to = Open => Ends(p, s)
    BY <1>5, PayCommit
  <2>2. \A p \in rates : /\ Left(p, s).slot = p.slot /\ Left(p, s).by = p.by /\ Left(p, s).from = p.from
                         /\ Left(p, s).to = IF Ends(p, s) THEN stampOf[s] ELSE p.to
                         /\ ~Ends(p, s) => Left(p, s) = p
    BY RateTyped
  <2>3. \A k : Opened(k, s).slot = k /\ Opened(k, s).by = s /\ Opened(k, s).from = stampOf[s] /\ Opened(k, s).to = Open
    BY DEF Opened
  <2>4. \A r \in rates' : (\E p \in rates : r = Left(p, s)) \/ (\E k \in order[s].lays : r = Opened(k, s))
    BY <2>1
  <2>5. s # First
    BY SuccessionConstants
  <2>6. \A r \in rates' : IF r.by = First THEN r.from = 1
                          ELSE /\ order[r.by].kind = "pay" /\ savePc'[r.by] = "done" /\ r.from = stampOf[r.by]
                               /\ r.slot \in order[r.by].lays
    <3> SUFFICES ASSUME NEW r \in rates'
                 PROVE  IF r.by = First THEN r.from = 1
                        ELSE /\ order[r.by].kind = "pay" /\ savePc'[r.by] = "done" /\ r.from = stampOf[r.by]
                             /\ r.slot \in order[r.by].lays
      OBVIOUS
    <3>1. ASSUME NEW p \in rates, r = Left(p, s)
          PROVE  IF r.by = First THEN r.from = 1
                 ELSE /\ order[r.by].kind = "pay" /\ savePc'[r.by] = "done" /\ r.from = stampOf[r.by]
                      /\ r.slot \in order[r.by].lays
      <4>1. IF p.by = First THEN p.from = 1
            ELSE /\ order[p.by].kind = "pay" /\ savePc[p.by] = "done" /\ p.from = stampOf[p.by]
                 /\ p.slot \in order[p.by].lays
        BY <1>0 DEF RatesFit
      <4>2. p.by # First => savePc'[p.by] = savePc[p.by]
        BY <1>1, <1>3, <2>1
      <4>3. r.by = p.by /\ r.from = p.from /\ r.slot = p.slot
        BY <2>2, <3>1
      <4>4. QED
        BY <4>1, <4>2, <4>3
    <3>2. ASSUME NEW k \in order[s].lays, r = Opened(k, s)
          PROVE  /\ r.by # First /\ order[r.by].kind = "pay" /\ savePc'[r.by] = "done" /\ r.from = stampOf[r.by]
                 /\ r.slot \in order[r.by].lays
      BY <1>1, <1>5, <2>3, <2>5, <3>2
    <3>3. QED
      BY <2>4, <3>1, <3>2
  <2>7. \A q, r \in rates' : (q.slot = r.slot /\ q.by = r.by) => q = r
    <3> SUFFICES ASSUME NEW q \in rates', NEW r \in rates', q.slot = r.slot, q.by = r.by PROVE q = r
      OBVIOUS
    <3>1. CASE q.by = s
      <4>1. \A p \in rates : Left(p, s).by # s
        BY <2>1, <2>2
      <4>2. \E k \in order[s].lays : q = Opened(k, s)
        BY <2>4, <3>1, <4>1
      <4>3. \E k \in order[s].lays : r = Opened(k, s)
        BY <2>4, <3>1, <4>1
      <4>4. QED
        BY <2>3, <4>2, <4>3
    <3>2. CASE q.by # s
      <4>1. (\E p \in rates : q = Left(p, s)) /\ (\E p \in rates : r = Left(p, s))
        BY <2>3, <2>4, <3>2
      <4>2. PICK a \in rates : q = Left(a, s)
        BY <4>1
      <4>3. PICK b \in rates : r = Left(b, s)
        BY <4>1
      <4>4. a.slot = b.slot /\ a.by = b.by
        BY <2>2, <4>2, <4>3
      <4>5. QED
        BY <1>0, <4>2, <4>3, <4>4 DEF RatesFit
    <3>3. QED
      BY <3>1, <3>2
  <2>8. ASSUME NEW r \in rates'
        PROVE  IF PaySlot(r.slot)
               THEN /\ r.to = Open <=> \E x \in current' : x.slot = r.slot /\ x.by = r.by
                    /\ \E x \in current' : x.slot = r.slot
               ELSE r.by = First /\ r.to = Open
    <3>1. ASSUME NEW k \in order[s].lays, r = Opened(k, s)
          PROVE  /\ PaySlot(r.slot) /\ r.to = Open
                 /\ \E x \in current' : x.slot = r.slot /\ x.by = r.by
                 /\ \E x \in current' : x.slot = r.slot
      <4>1. r.slot = k /\ r.by = s /\ r.to = Open
        BY <2>3, <3>1
      <4>2. QED
        BY <2>1, <4>1
    <3>2. ASSUME NEW p \in rates, r = Left(p, s), ~PaySlot(r.slot) PROVE r.by = First /\ r.to = Open
      <4>1. r.slot = p.slot /\ r.by = p.by
        BY <2>2, <3>2
      <4>2. ~Ends(p, s)
        BY <2>1, <3>2, <4>1
      <4>3. QED
        BY <1>0, <2>2, <3>2, <4>1, <4>2 DEF RatesFit
    <3>3. ASSUME NEW p \in rates, r = Left(p, s), PaySlot(r.slot)
          PROVE  /\ r.to = Open <=> \E x \in current' : x.slot = r.slot /\ x.by = r.by
                 /\ \E x \in current' : x.slot = r.slot
      <4>1. r.slot = p.slot /\ r.by = p.by /\ p.by # s /\ r.to = IF Ends(p, s) THEN stampOf[s] ELSE p.to
        BY <2>1, <2>2, <3>3
      <4>2. /\ p.to = Open <=> \E x \in current : x.slot = p.slot /\ x.by = p.by
            /\ \E x \in current : x.slot = p.slot
        BY <1>0, <3>3, <4>1 DEF RatesFit
      <4>3. \A x \in current : (x.slot = r.slot /\ x \notin taken[s]) => x \in current'
        BY <3>3, CommitPayRows
      <4>4. \A x \in current' : (x.slot = r.slot /\ x.by = r.by) => x \in current /\ x \notin taken[s]
        BY <3>3, <4>1, CommitPayRows
      <4>5. \E x \in current' : x.slot = r.slot
        <5>1. PICK x \in current : x.slot = r.slot
          BY <4>1, <4>2
        <5>2. CASE x \notin taken[s]
          BY <4>3, <5>1, <5>2
        <5>3. CASE x \in taken[s]
          <6>1. x.slot \in order[s].lays
            BY <1>0, <1>5, <5>3, OrdersFit DEF RowsKnown, Touches
          <6>2. QED
            BY <2>1, <5>1, <6>1
        <5>4. QED
          BY <5>2, <5>3
      <4>6. CASE Ends(p, s)
        <5>1. r.to # Open
          BY <2>1, <4>1, <4>6 DEF Open
        <5>2. PICK x \in taken[s] : x.slot = p.slot /\ x.by = p.by
          BY <4>6 DEF Ends
        <5>3. ASSUME NEW y \in current', y.slot = r.slot, y.by = r.by PROVE FALSE
          <6>1. y \in current /\ y \notin taken[s]
            BY <4>4, <5>3
          <6>2. Known(x) /\ Known(y)
            BY <1>0, <5>2, <6>1 DEF RowsKnown
          <6>3. x = y
            BY <4>1, <5>2, <5>3, <6>2, KnownOnce
          <6>4. QED
            BY <5>2, <6>1, <6>3
        <5>4. QED
          BY <4>5, <5>1, <5>3
      <4>7. CASE ~Ends(p, s)
        <5>1. r.to = p.to
          BY <4>1, <4>7
        <5>2. \A x \in current : (x.slot = p.slot /\ x.by = p.by) => x \notin taken[s]
          BY <4>7 DEF Ends
        <5>3. (\E x \in current : x.slot = p.slot /\ x.by = p.by) <=> (\E x \in current' : x.slot = r.slot /\ x.by = r.by)
          BY <4>1, <4>3, <4>4, <5>2
        <5>4. QED
          BY <4>2, <4>5, <5>1, <5>3
      <4>8. QED
        BY <4>6, <4>7
    <3>4. QED
      BY <2>4, <3>1, <3>2, <3>3
  <2>9. ASSUME NEW x \in current', PaySlot(x.slot) PROVE \E p \in rates' : p.slot = x.slot /\ p.by = x.by
    <3>1. (x \in current /\ x \notin taken[s]) \/ (x \in laid[s] /\ x.by = s)
      BY <2>9, CommitPayRows
    <3>2. CASE x \in laid[s]
      <4>1. x.slot \in order[s].lays /\ x.by = s
        BY <2>1, <3>2
      <4>2. Opened(x.slot, s) \in rates'
        BY <2>1, <4>1
      <4>3. QED
        BY <2>3, <4>1, <4>2
    <3>3. CASE x \in current
      <4>1. PICK p \in rates : p.slot = x.slot /\ p.by = x.by
        BY <1>0, <2>9, <3>3 DEF RatesFit
      <4>2. Left(p, s) \in rates'
        BY <2>1
      <4>3. QED
        BY <2>2, <4>1, <4>2
    <3>4. QED
      BY <3>1, <3>2, <3>3
  <2>10. QED
    BY <1>1, <1>2, <2>6, <2>7, <2>8, <2>9 DEF RatesFit
<1>6. QED
  BY <1>4, <1>5

\* Two rates of a slot meet, unless the later commit has read the earlier clock.
LEMMA CommitRates ==
  ASSUME SuccessionInv, NEW s \in Savers, CommitSave(s)
  PROVE  OneRateAtATime'
<1>0. SuccessionTyped /\ RowsKnown /\ RatesFit /\ Stamped /\ OneRateAtATime
  BY DEF SuccessionInv
<1>1. CASE order[s].kind # "pay"
  <2>1. rates' = rates
    BY <1>1 DEF CommitSave
  <2>2. QED
    BY <1>0, <2>1 DEF OneRateAtATime
<1>2. CASE order[s].kind = "pay"
  <2>0. savePc[s] = "commit"
    BY CommitEffect
  <2>1. /\ rates' = {Left(p, s) : p \in rates} \cup {Opened(k, s) : k \in order[s].lays}
        /\ stampOf[s] \in Nat /\ stampOf[s] >= 2
        /\ \A k \in order[s].lays : PaySlot(k)
        /\ \A p \in rates : p.by # s
        /\ \A p \in rates : Ends(p, s) => PaySlot(p.slot) /\ p.slot \in order[s].lays /\ p.to = Open
        /\ \A p \in rates : p.slot \in order[s].lays /\ p.to = Open => Ends(p, s)
    BY <1>2, PayCommit
  <2>2. \A p \in rates : /\ Left(p, s).slot = p.slot /\ Left(p, s).by = p.by /\ Left(p, s).from = p.from
                         /\ Left(p, s).to = IF Ends(p, s) THEN stampOf[s] ELSE p.to
                         /\ ~Ends(p, s) => Left(p, s) = p
    BY RateTyped
  <2>3. \A k : Opened(k, s).slot = k /\ Opened(k, s).by = s /\ Opened(k, s).from = stampOf[s] /\ Opened(k, s).to = Open
    BY DEF Opened
  <2>4. \A r \in rates' : (\E p \in rates : r = Left(p, s)) \/ (\E k \in order[s].lays : r = Opened(k, s))
    BY <2>1
  <2>5. \A p \in rates : p.from \in Nat /\ p.to \in Nat
    BY RateTyped
  <2>6. CASE \E p \in rates : p.to # Open /\ p.to < p.from
    <3>1. PICK p \in rates : p.to # Open /\ p.to < p.from
      BY <2>6
    <3>2. Left(p, s) = p
      BY <2>1, <2>2, <3>1
    <3>3. p \in rates'
      BY <2>1, <3>2
    <3>4. QED
      BY <3>1, <3>3 DEF OneRateAtATime
  <2>7. CASE \E p \in rates : Ends(p, s) /\ stampOf[s] < p.from
    <3>1. PICK p \in rates : Ends(p, s) /\ stampOf[s] < p.from
      BY <2>7
    <3>2. Left(p, s) \in rates' /\ Left(p, s).to = stampOf[s] /\ Left(p, s).from = p.from
      BY <2>1, <2>2, <3>1
    <3>3. stampOf[s] # Open
      BY <2>1 DEF Open
    <3>4. QED
      BY <3>1, <3>2, <3>3 DEF OneRateAtATime
  <2>8. CASE /\ ~\E p \in rates : p.to # Open /\ p.to < p.from
             /\ ~\E p \in rates : Ends(p, s) /\ stampOf[s] < p.from
    <3>1. \A p, q \in rates : (p # q /\ p.slot = q.slot /\ p.from <= q.from) => (p.to # Open /\ p.to <= q.from)
      BY <1>0, <2>8 DEF OneRateAtATime
    <3>2. \A p \in rates : Ends(p, s) => p.from <= stampOf[s]
      BY <2>1, <2>5, <2>8
    \* The rate in force is the last of its slot.
    <3>3. ASSUME NEW p \in rates, p.slot \in order[s].lays
          PROVE  \E r \in rates : r.slot = p.slot /\ Ends(r, s) /\ (p = r \/ (p.to # Open /\ p.to <= r.from /\ p.from <= r.from))
      <4>1. PaySlot(p.slot)
        BY <2>1, <3>3
      <4>2. PICK x \in current : x.slot = p.slot
        BY <1>0, <4>1 DEF RatesFit
      <4>3. PICK r \in rates : r.slot = x.slot /\ r.by = x.by
        BY <1>0, <4>1, <4>2 DEF RatesFit
      <4>4. r.to = Open
        BY <1>0, <4>1, <4>2, <4>3 DEF RatesFit
      <4>5. Ends(r, s)
        BY <2>1, <3>3, <4>2, <4>3, <4>4
      <4>6. p # r => ~(r.from <= p.from)
        BY <3>1, <4>2, <4>3, <4>4
      <4>7. p # r => p.from <= r.from
        BY <2>5, <4>6
      <4>8. p # r => p.to # Open /\ p.to <= r.from
        BY <3>1, <4>2, <4>3, <4>7
      <4>9. QED
        BY <4>2, <4>3, <4>5, <4>7, <4>8
    <3>4. ASSUME NEW q \in rates', NEW r \in rates', q # r, q.slot = r.slot, q.from <= r.from
          PROVE  q.to # Open /\ q.to <= r.from
      <4>1. ASSUME NEW a \in rates, NEW b \in rates, q = Left(a, s), r = Left(b, s)
            PROVE  q.to # Open /\ q.to <= r.from
        <5>1. a # b /\ a.slot = b.slot /\ a.from <= b.from /\ r.from = b.from
          BY <2>2, <3>4, <4>1
        <5>2. a.to # Open /\ a.to <= b.from
          BY <3>1, <5>1
        <5>3. q = a
          BY <2>1, <2>2, <4>1, <5>2
        <5>4. QED
          BY <5>1, <5>2, <5>3
      <4>2. ASSUME NEW a \in rates, NEW k \in order[s].lays, q = Left(a, s), r = Opened(k, s)
            PROVE  q.to # Open /\ q.to <= r.from
        <5>1. a.slot = k /\ r.from = stampOf[s]
          BY <2>2, <2>3, <3>4, <4>2
        <5>2. PICK b \in rates : b.slot = a.slot /\ Ends(b, s) /\ (a = b \/ (a.to # Open /\ a.to <= b.from /\ a.from <= b.from))
          BY <3>3, <4>2, <5>1
        <5>3. CASE Ends(a, s)
          <6>1. q.to = stampOf[s]
            BY <2>2, <4>2, <5>3
          <6>2. QED
            BY <2>1, <5>1, <6>1 DEF Open
        <5>4. CASE ~Ends(a, s)
          <6>1. a.to # Open /\ a.to <= b.from /\ b.from <= stampOf[s]
            BY <3>2, <5>2, <5>4
          <6>2. q.to = a.to
            BY <2>2, <4>2, <5>4
          <6>3. QED
            BY <2>1, <2>5, <5>1, <6>1, <6>2
        <5>5. QED
          BY <5>3, <5>4
      <4>3. ASSUME NEW k \in order[s].lays, NEW b \in rates, q = Opened(k, s), r = Left(b, s)
            PROVE  FALSE
        <5>1. b.slot = k /\ stampOf[s] <= b.from
          BY <2>2, <2>3, <3>4, <4>3
        <5>2. PICK a \in rates : Ends(a, s) /\ (b = a \/ b.from <= a.from)
          BY <3>3, <4>3, <5>1
        <5>3. b.from <= a.from /\ a.from <= stampOf[s]
          BY <2>5, <3>2, <5>2
        <5>4. b.from = stampOf[s]
          BY <2>1, <2>5, <5>1, <5>3
        <5>5. b.by # First
          BY <1>0, <2>1, <5>4 DEF RatesFit
        <5>6. b.by \in Savers
          BY <5>5, RateTyped
        <5>7. order[b.by].kind = "pay" /\ savePc[b.by] = "done" /\ stampOf[b.by] = stampOf[s]
          BY <1>0, <5>4, <5>5 DEF RatesFit
        <5>8. b.by = s
          BY <1>0, <1>2, <2>0, <5>6, <5>7 DEF Stamped
        <5>9. QED
          BY <2>1, <5>8
      <4>4. ASSUME NEW k \in order[s].lays, NEW l \in order[s].lays, q = Opened(k, s), r = Opened(l, s)
            PROVE  FALSE
        BY <2>3, <3>4, <4>4
      <4>5. QED
        BY <2>4, <4>1, <4>2, <4>3, <4>4
    <3>5. QED
      BY <3>4 DEF OneRateAtATime
  <2>9. QED
    BY <2>6, <2>7, <2>8
<1>3. QED
  BY <1>1, <1>2

LEMMA CommitSaveKeeps ==
  ASSUME SuccessionInv, NEW s \in Savers, CommitSave(s)
  PROVE  SuccessionInv'
  BY CommitTypes, CommitHolds, CommitFollows, CommitSucceeds, CommitRatesFit, CommitRates DEF SuccessionInv

LEMMA SuccessionStep == SuccessionInv /\ [SuccessionNext]_successionVars => SuccessionInv'
<1> SUFFICES ASSUME SuccessionInv, [SuccessionNext]_successionVars PROVE SuccessionInv'
  OBVIOUS
<1>1. CASE UNCHANGED successionVars
  <2>0. /\ SuccessionTyped /\ SaveCourses /\ RowsKnown /\ SlotsHeld /\ Stamped /\ FormsFollow /\ Decisions
    BY DEF SuccessionInv
  <2>1. /\ order' = order /\ savePc' = savePc /\ before' = before /\ sought' = sought /\ taken' = taken /\ laid' = laid
        /\ current' = current /\ decided' = decided /\ gone' = gone /\ now' = now /\ stampOf' = stampOf /\ rates' = rates
    BY <1>1 DEF successionVars
  <2>2. NeverWithout' /\ OneRateAtATime' /\ DefaultLostOnlyByRemoval' /\ RatesFit' /\ \A x : Known(x) <=> Known(x)'
    BY <2>1, QuietSave
  <2>3. SuccessionTyped'
    BY <2>0, <2>1 DEF SuccessionTyped, SuccessionTypeOK
  <2>4. SaveCourses'
    BY <2>0, <2>1 DEF SaveCourses, Decides
  <2>5. RowsKnown'
    BY <2>0, <2>1, <2>2 DEF RowsKnown, Touches
  <2>6. SlotsHeld' /\ Stamped'
    BY <2>0, <2>1 DEF SlotsHeld, Stamped
  <2>7. FormsFollow' /\ Decisions'
    BY <2>0, <2>1 DEF FormsFollow, Decisions, Decides, Approves
  <2>8. QED
    BY <2>2, <2>3, <2>4, <2>5, <2>6, <2>7 DEF SuccessionInv
<1>2. CASE SuccessionNext
  <2>1. PICK s \in Savers : \/ BeginSave(s) \/ Seek(s) \/ TakeRows(s) \/ FindModel(s) \/ LayRows(s) \/ Decide(s)
                            \/ Strike(s) \/ CommitSave(s) \/ DropSave(s)
    BY <1>2 DEF SuccessionNext
  <2>2. CASE BeginSave(s)
    BY <2>2, BeginSaveKeeps
  <2>3. CASE Seek(s)
    BY <2>3, SeekKeeps
  <2>4. CASE TakeRows(s)
    BY <2>4, TakeRowsKeeps
  <2>5. CASE FindModel(s)
    BY <2>5, FindModelKeeps
  <2>6. CASE LayRows(s)
    BY <2>6, LayRowsKeeps
  <2>7. CASE Decide(s)
    BY <2>7, DecideKeeps
  <2>8. CASE Strike(s)
    BY <2>8, StrikeKeeps
  <2>9. CASE CommitSave(s)
    BY <2>9, CommitSaveKeeps
  <2>10. CASE DropSave(s)
    BY <2>10, DropSaveKeeps
  <2>11. QED
    BY <2>1, <2>2, <2>3, <2>4, <2>5, <2>6, <2>7, <2>8, <2>9, <2>10
<1>3. QED
  BY <1>1, <1>2

\* Whichever requests overlap, are refused after their first write or break off, a barber's rate
\* and a published week are succeeded and never missing, the pay history gives one rate a moment
\* unless the later commit carries the earlier clock, and the default service goes by removal only
\* (settings.service setCompensation and setDefault, schedule.service publish).
THEOREM RatesFollow == SuccessionSpec => []RatesSucceed
<1>1. SuccessionInv => RatesSucceed
  BY DEF SuccessionInv, RatesSucceed
<1>2. QED
  BY SuccessionStarts, SuccessionStep, <1>1, PTL DEF SuccessionSpec

\* The schedule in force is made of whole weeks as saved, but for overlapping saves and for days
\* approved singly, and a change reads approved exactly when it was applied
\* (schedule.service setWeek, approveRequest and denyRequest).
THEOREM ScheduleDecided == SuccessionSpec => []ScheduleIsAsDecided
<1>1. ASSUME SuccessionInv PROVE ScheduleIsAsDecided
  <2>0. SuccessionTyped /\ RowsKnown /\ FormsFollow /\ Decisions
    BY <1>1 DEF SuccessionInv
  <2>1. ASSUME NEW x \in current, x.by \in Savers
        PROVE  savePc[x.by] = "done" /\ x.slot \in order[x.by].lays
    BY <2>0, <2>1, SuccessionConstants DEF RowsKnown, Known
  <2>2. WeekIsOneForm
    <3> SUFFICES ASSUME NEW x \in current, NEW y \in current,
                        x.by \in Savers /\ order[x.by].kind = "week", y.by \in Savers /\ order[y.by].kind = "week",
                        x.slot \in order[x.by].covers, y.slot \in order[x.by].covers
                 PROVE  x.by \notin before[y.by] /\ y.by \notin before[x.by]
      BY DEF WeekIsOneForm, AskedFor
    <3>1. savePc[x.by] = "done" /\ savePc[y.by] = "done" /\ y.slot \in order[y.by].lays
      BY <2>1
    <3>2. y.slot \in Touches(order[x.by]) \cap Touches(order[y.by])
      BY <3>1 DEF Touches
    <3>3. order[x.by].covers = order[y.by].covers
      BY <2>0, <3>2, OrdersFit
    <3>4. QED
      BY <2>0, <3>1, <3>3 DEF FormsFollow
  <2>3. DecisionIsApplied
    <3> SUFFICES ASSUME NEW s \in Savers, Approves(s)
                 PROVE  /\ decided[order[s].change] = "denied" => \A x \in current : x.by # s
                        /\ savePc[s] = "done" => decided[order[s].change] = "approved"
      BY DEF DecisionIsApplied, AskedFor, Approves
    <3>1. savePc[s] = "done" => decided[order[s].change] = "approved"
      BY <2>0 DEF Decisions
    <3>2. QED
      BY <2>1, <3>1
  <2>4. QED
    BY <2>2, <2>3 DEF ScheduleIsAsDecided
<1>2. QED
  BY SuccessionStarts, SuccessionStep, <1>1, PTL DEF SuccessionSpec

\* A save is at one of its handler's steps, and the rows it holds and lays are rows of its table.
THEOREM SuccessionsTyped == SuccessionSpec => []SuccessionTypeOK
<1>1. SuccessionInv => SuccessionTypeOK
  BY DEF SuccessionInv, SuccessionTyped
<1> QED BY <1>1, SuccessionStarts, SuccessionStep, PTL DEF SuccessionSpec

-----------------------------------------------------------------------------
(***************************************************************************)
(* Sessions.  No role was held later than now, and the role a cookie       *)
(* claims was its member's when it was given.                              *)
(***************************************************************************)

SessionTyped ==
  /\ role \in [Members -> Roles]
  /\ token \in [People -> Claims \cup {NoToken}]
  /\ hour \in Nat
  /\ lastHeld \in [Members -> [Roles -> Nat \cup {NoHour}]]

\* A member holds his role now, and none was held later than now.
HeldUntilNow ==
  /\ \A m \in Members : lastHeld[m][role[m]] = hour
  /\ \A m \in Members, r \in Roles : lastHeld[m][r] <= hour

\* The role a cookie claims was its member's when it was given.
ClaimsWereTrue ==
  \A p \in People : token[p] # NoToken => token[p].at <= lastHeld[token[p].member][token[p].role]

SessionInv == SessionTyped /\ HeldUntilNow /\ ClaimsWereTrue

LEMMA SessionStarts == SessionInit => SessionInv
<1> SUFFICES ASSUME SessionInit PROVE SessionInv
  OBVIOUS
<1>1. SessionTyped
  BY SessionConstants DEF SessionInit, SessionTyped, NoHour
<1>2. HeldUntilNow
  BY SessionConstants DEF SessionInit, HeldUntilNow, NoHour
<1>3. ClaimsWereTrue
  BY DEF SessionInit, ClaimsWereTrue
<1>4. QED
  BY <1>1, <1>2, <1>3 DEF SessionInv

LEMMA LogInKeeps ==
  ASSUME SessionInv, NEW p \in People, LogIn(p)
  PROVE  SessionInv'
<1>1. PICK m \in Members : /\ PersonOf[m] = p
                           /\ token' = [token EXCEPT ![p] = [member |-> m, role |-> role[m], at |-> hour]]
  BY DEF LogIn
<1>2. UNCHANGED <<role, hour, lastHeld>>
  BY DEF LogIn
<1>3. [member |-> m, role |-> role[m], at |-> hour] \in Claims
  BY DEF SessionInv, SessionTyped, Claims
<1>4. SessionTyped'
  BY <1>1, <1>2, <1>3 DEF SessionInv, SessionTyped
<1>5. HeldUntilNow'
  BY <1>2 DEF SessionInv, HeldUntilNow
<1>6. ClaimsWereTrue'
  <2>1. lastHeld[m][role[m]] = hour /\ hour \in Nat
    BY DEF SessionInv, HeldUntilNow, SessionTyped
  <2>2. token'[p] = [member |-> m, role |-> role[m], at |-> hour]
    BY <1>1 DEF SessionInv, SessionTyped
  <2>3. \A u \in People : u # p => token'[u] = token[u]
    BY <1>1 DEF SessionInv, SessionTyped
  <2>4. QED
    BY <1>2, <2>1, <2>2, <2>3 DEF SessionInv, ClaimsWereTrue
<1>7. QED
  BY <1>4, <1>5, <1>6 DEF SessionInv

LEMMA LogOutKeeps ==
  ASSUME SessionInv, NEW p \in People, LogOut(p)
  PROVE  SessionInv'
<1>1. token' = [token EXCEPT ![p] = NoToken] /\ UNCHANGED <<role, hour, lastHeld>>
  BY DEF LogOut
<1>2. SessionTyped'
  BY <1>1 DEF SessionInv, SessionTyped
<1>3. HeldUntilNow'
  BY <1>1 DEF SessionInv, HeldUntilNow
<1>4. ClaimsWereTrue'
  <2>1. \A u \in People : token'[u] # NoToken => token'[u] = token[u]
    BY <1>1 DEF SessionInv, SessionTyped
  <2>2. QED
    BY <1>1, <2>1 DEF SessionInv, ClaimsWereTrue
<1>5. QED
  BY <1>2, <1>3, <1>4 DEF SessionInv

\* No hour at which a role was held is forgotten when a later one is written.
LEMMA LaterHoursKeepClaims ==
  ASSUME SessionInv, SessionTyped', UNCHANGED token,
         \A m \in Members, r \in Roles : lastHeld[m][r] <= lastHeld'[m][r]
  PROVE  ClaimsWereTrue'
<1> SUFFICES ASSUME NEW p \in People, token[p] # NoToken
             PROVE  token[p].at <= lastHeld'[token[p].member][token[p].role]
  BY DEF ClaimsWereTrue
<1>1. token[p] \in Claims
  BY DEF SessionInv, SessionTyped
<1> DEFINE m == token[p].member
           r == token[p].role
<1>2. m \in Members /\ r \in Roles /\ token[p].at \in Nat
  BY <1>1 DEF Claims
<1>3. token[p].at <= lastHeld[m][r]
  BY DEF SessionInv, ClaimsWereTrue
<1>4. lastHeld[m][r] <= lastHeld'[m][r]
  BY <1>2
<1>5. lastHeld[m][r] \in Int /\ lastHeld'[m][r] \in Int
  <2>1. lastHeld[m] \in [Roles -> Nat \cup {NoHour}] /\ lastHeld'[m] \in [Roles -> Nat \cup {NoHour}]
    BY <1>2 DEF SessionInv, SessionTyped
  <2>2. QED
    BY <1>2, <2>1 DEF NoHour
<1> HIDE DEF m, r
<1>6. token[p].at <= lastHeld'[m][r]
  BY <1>2, <1>3, <1>4, <1>5
<1>7. QED
  BY <1>6 DEF m, r

LEMMA ChangeRoleKeeps ==
  ASSUME SessionInv, NEW p \in People, NEW m \in Movable, NEW r \in NewRoles, ChangeRole(p, m, r)
  PROVE  SessionInv'
<1>1. /\ role' = [role EXCEPT ![m] = r] /\ lastHeld' = [lastHeld EXCEPT ![m][r] = hour]
      /\ UNCHANGED <<token, hour>>
  BY DEF ChangeRole
<1>2. m \in Members /\ r \in Roles
  BY SessionConstants
<1>3. role'[m] = r /\ \A n \in Members : n # m => role'[n] = role[n]
  BY <1>1, <1>2 DEF SessionInv, SessionTyped
<1>4. \A n \in Members, s \in Roles : lastHeld'[n][s] = IF n = m /\ s = r THEN hour ELSE lastHeld[n][s]
  <2>1. \A n \in Members : lastHeld[n] \in [Roles -> Nat \cup {NoHour}]
    BY DEF SessionInv, SessionTyped
  <2>2. QED
    BY <1>1, <1>2, <2>1 DEF SessionInv, SessionTyped
<1>5. SessionTyped'
  BY <1>1, <1>2 DEF SessionInv, SessionTyped
<1>6. \A n \in Members, s \in Roles : lastHeld[n][s] <= hour /\ hour \in Nat
  BY DEF SessionInv, HeldUntilNow, SessionTyped
<1>7. HeldUntilNow'
  <2>1. \A n \in Members : lastHeld'[n][role'[n]] = hour'
    <3> SUFFICES ASSUME NEW n \in Members PROVE lastHeld'[n][role'[n]] = hour'
      OBVIOUS
    <3>1. CASE n = m
      BY <1>1, <1>2, <1>3, <1>4, <3>1
    <3>2. CASE n # m
      <4>1. role[n] \in Roles /\ lastHeld[n][role[n]] = hour
        BY DEF SessionInv, SessionTyped, HeldUntilNow
      <4>2. QED
        BY <1>1, <1>3, <1>4, <3>2, <4>1
    <3>3. QED
      BY <3>1, <3>2
  <2>2. \A n \in Members, s \in Roles : lastHeld'[n][s] <= hour'
    BY <1>1, <1>4, <1>6
  <2>3. QED
    BY <2>1, <2>2 DEF HeldUntilNow
<1>8. \A n \in Members, s \in Roles : lastHeld[n][s] <= lastHeld'[n][s]
  <2>1. \A n \in Members : lastHeld[n] \in [Roles -> Nat \cup {NoHour}]
    BY DEF SessionInv, SessionTyped
  <2>2. \A n \in Members, s \in Roles : lastHeld[n][s] \in Int
    BY <2>1 DEF NoHour
  <2>3. QED
    BY <1>4, <1>6, <2>2
<1>9. ClaimsWereTrue'
  BY <1>1, <1>5, <1>8, LaterHoursKeepClaims
<1>10. QED
  BY <1>5, <1>7, <1>9 DEF SessionInv

LEMMA PassHourKeeps ==
  ASSUME SessionInv, PassHour
  PROVE  SessionInv'
<1>1. /\ hour' = hour + 1
      /\ lastHeld' = [m \in Members |-> [lastHeld[m] EXCEPT ![role[m]] = hour + 1]]
      /\ UNCHANGED <<role, token>>
  BY DEF PassHour
<1>2. hour \in Nat /\ \A m \in Members : /\ role[m] \in Roles
                                         /\ lastHeld[m] \in [Roles -> Nat \cup {NoHour}]
  BY DEF SessionInv, SessionTyped
<1>3. \A m \in Members, r \in Roles :
        /\ lastHeld'[m][r] = IF r = role[m] THEN hour + 1 ELSE lastHeld[m][r]
        /\ lastHeld[m][r] \in Int /\ lastHeld[m][r] <= hour
  <2>1. \A m \in Members : lastHeld'[m] = [lastHeld[m] EXCEPT ![role[m]] = hour + 1]
    BY <1>1
  <2>2. \A m \in Members, r \in Roles : lastHeld'[m][r] = IF r = role[m] THEN hour + 1 ELSE lastHeld[m][r]
    BY <1>2, <2>1
  <2>3. \A m \in Members, r \in Roles : lastHeld[m][r] \in Int /\ lastHeld[m][r] <= hour
    BY <1>2 DEF SessionInv, HeldUntilNow, NoHour
  <2>4. QED
    BY <2>2, <2>3
<1>4. SessionTyped'
  <2>1. \A m \in Members : [lastHeld[m] EXCEPT ![role[m]] = hour + 1] \in [Roles -> Nat \cup {NoHour}]
    BY <1>2
  <2>2. lastHeld' \in [Members -> [Roles -> Nat \cup {NoHour}]]
    BY <1>1, <2>1
  <2>3. QED
    BY <1>1, <1>2, <2>2 DEF SessionInv, SessionTyped
<1>5. HeldUntilNow'
  BY <1>1, <1>2, <1>3 DEF HeldUntilNow
<1>6. \A m \in Members, r \in Roles : lastHeld[m][r] <= lastHeld'[m][r]
  BY <1>2, <1>3
<1>7. ClaimsWereTrue'
  BY <1>1, <1>4, <1>6, LaterHoursKeepClaims
<1>8. QED
  BY <1>4, <1>5, <1>7 DEF SessionInv

LEMMA SessionStep == SessionInv /\ [SessionNext]_sessionVars => SessionInv'
<1> SUFFICES ASSUME SessionInv, [SessionNext]_sessionVars PROVE SessionInv'
  OBVIOUS
<1>1. CASE \E p \in People : LogIn(p)
  BY <1>1, LogInKeeps
<1>2. CASE \E p \in People : LogOut(p)
  BY <1>2, LogOutKeeps
<1>3. CASE \E p \in People : \E m \in Movable, r \in NewRoles : ChangeRole(p, m, r)
  BY <1>3, ChangeRoleKeeps
<1>4. CASE PassHour
  BY <1>4, PassHourKeeps
<1>5. CASE UNCHANGED sessionVars
  BY <1>5 DEF sessionVars, SessionInv, SessionTyped, HeldUntilNow, ClaimsWereTrue
<1>6. QED
  BY <1>1, <1>2, <1>3, <1>4, <1>5 DEF SessionNext

LEMMA InvGivesRights == SessionInv => RightsTrailByASession
<1> SUFFICES ASSUME SessionInv, NEW p \in People, NEW entitled \in Guards, NEW b \in Branches,
                    Granted(p, entitled, b)
             PROVE  \E r \in entitled :
                      /\ r # "org_owner" => b = BranchOf[token[p].member]
                      /\ lastHeld[token[p].member][r] # NoHour
                      /\ hour < lastHeld[token[p].member][r] + SessionLength
  BY DEF RightsTrailByASession
<1> DEFINE r == token[p].role
           m == token[p].member
           held == lastHeld[m][r]
<1>1. token[p] # NoToken /\ hour < token[p].at + SessionLength /\ r \in entitled /\ b \in WorksIn(p)
  BY DEF Granted, Valid
<1>2. token[p] \in Claims
  BY <1>1 DEF SessionInv, SessionTyped
<1>3. m \in Members /\ r \in Roles /\ token[p].at \in Nat
  BY <1>2 DEF Claims
<1>4. lastHeld[m] \in [Roles -> Nat \cup {NoHour}]
  BY <1>3 DEF SessionInv, SessionTyped
<1>5. held \in Int /\ hour \in Int /\ SessionLength \in Int
  BY <1>3, <1>4, SessionConstants DEF NoHour, SessionInv, SessionTyped
<1>6. token[p].at <= held
  BY <1>1 DEF SessionInv, ClaimsWereTrue
<1>7. r # "org_owner" => b = BranchOf[m]
  BY <1>1 DEF WorksIn
<1> HIDE DEF r, m, held
<1>8. held # NoHour /\ hour < held + SessionLength
  BY <1>1, <1>3, <1>5, <1>6 DEF NoHour
<1>9. QED
  BY <1>1, <1>7, <1>8 DEF r, m, held

LEMMA InvGivesEdits == SessionInv => EditsWhatItSees
<1> SUFFICES ASSUME SessionInv, NEW p \in People, NEW q \in People,
                    Valid(p), token[p].role \in Managing, p # q
             PROVE  /\ (\E b \in WorksIn(p) : MayEditContact(p, b, q)) <=> (\E b \in WorksIn(p) : RosterShows(p, b, q))
                    /\ \A b \in WorksIn(p) : RosterShows(p, b, q) => \A c \in WorksIn(p) : MayEditContact(p, c, q)
  BY DEF EditsWhatItSees
<1>1. token[p] \in Claims
  BY DEF SessionInv, SessionTyped, Valid
<1>2. BranchOf[token[p].member] \in Branches /\ BranchOf \in [Members -> Branches]
  BY <1>1, SessionConstants DEF Claims
<1>3. WorksIn(p) \subseteq Branches
  BY <1>2 DEF WorksIn
<1>4. \A c : Assigned(q, c) = {BranchOf[m] : m \in {n \in Members : PersonOf[n] = q}}
  BY <1>2 DEF Assigned, MembersAt
<1>5. \A b : MembersAt(q, {b}) # {} <=> b \in {BranchOf[m] : m \in {n \in Members : PersonOf[n] = q}}
  BY DEF MembersAt
<1> DEFINE A == {BranchOf[m] : m \in {n \in Members : PersonOf[n] = q}}
<1>6. A \subseteq Branches
  BY <1>2
<1> HIDE DEF A
<1>7. \A c : MayEditContact(p, c, q) <=> A # {} /\ (token[p].role = "org_owner" \/ c \in A)
  BY <1>4 DEF MayEditContact, SeesContact, A, Managing
<1>8. \A b : RosterShows(p, b, q) <=> b \in A
  BY <1>5 DEF RosterShows, SeesContact, A, Managing
<1>9. CASE token[p].role = "org_owner"
  BY <1>6, <1>7, <1>8, <1>9 DEF WorksIn
<1>10. CASE token[p].role # "org_owner"
  BY <1>7, <1>8, <1>10 DEF WorksIn
<1>11. QED
  BY <1>9, <1>10

\* However roles are changed, cookies given and hours pass, a request is granted nothing that its
\* member was not entitled to within a session's length, and contact details are edited by exactly
\* those whom some roster shows them (auth.guard.ts, staff-contact.ts, settings.controller.ts).
THEOREM RightsKept == SessionSpec => []SessionsKeepToTheirRights
<1>1. SessionInv => SessionsKeepToTheirRights
  BY InvGivesRights, InvGivesEdits DEF SessionsKeepToTheirRights
<1>2. QED
  BY SessionStarts, SessionStep, <1>1, PTL DEF SessionSpec

HourKept == hour \in 0 .. LastHour

LEMMA HoursPass == HourKept /\ [SessionNext]_sessionVars => HourKept'
<1> SUFFICES ASSUME hour \in 0 .. LastHour, [SessionNext]_sessionVars PROVE hour' \in 0 .. LastHour
  BY DEF HourKept
<1>1. CASE PassHour
  BY <1>1, SessionConstants DEF PassHour
<1>2. CASE UNCHANGED hour
  BY <1>2
<1>3. (\E p \in People : LogIn(p) \/ LogOut(p) \/ \E m \in Movable, r \in NewRoles : ChangeRole(p, m, r)) => UNCHANGED hour
  BY DEF LogIn, LogOut, ChangeRole
<1> QED BY <1>1, <1>2, <1>3 DEF SessionNext, sessionVars

\* No session outlives the last hour of the model, and what it claims is a member's role.
THEOREM SessionsTyped == SessionSpec => []SessionTypeOK
<1>1. SessionInit => SessionInv /\ HourKept
  BY SessionStarts, SessionConstants DEF SessionInit, HourKept
<1>2. SessionInv /\ HourKept => SessionTypeOK
  BY DEF SessionInv, SessionTyped, SessionTypeOK, HourKept
<1> QED BY <1>1, <1>2, SessionStep, HoursPass, PTL DEF SessionSpec

-----------------------------------------------------------------------------
(***************************************************************************)
(* CheckoutPanel.  A request carries the tables its panel knew, so what    *)
(* the panel showed and what the server books differ only by what changed. *)
(***************************************************************************)

\* The panel's controls, and the lines of products as a table of prices.
Sheetlike(x) ==
  /\ x = [main |-> x.main, extras |-> x.extras, goods |-> x.goods, tip |-> x.tip, code |-> x.code]
  /\ x.goods = [g \in DOMAIN x.goods |-> x.goods[g]]

\* What a request says it showed, by the tables the panel knew.
GoodsIn(q)  == SumOf(q.goods)
PriceBefore(q)   == q.services + SumOf(q.goods) + q.premium
KnewCode(q) ==
  /\ q.knew["codes"] # <<>> /\ q.knew["codes"][1][q.code] # Gone
  /\ q.knew["codes"][1][q.code].state # "inactive"
Preview(q)  ==
  IF q.code # NoCode /\ KnewCode(q) THEN Off(q.knew["codes"][1][q.code], PriceBefore(q)) ELSE 0

SentAs(q) ==
  /\ q.goods = [g \in DOMAIN q.goods |-> q.goods[g]]
  /\ q.premium = IF Earned(Sitting.by) /\ q.knew["premium"] # <<>> THEN q.knew["premium"][1] ELSE 0
  /\ q.shown = PriceBefore(q) - Preview(q) + q.tip
  /\ q.mainPrice = IF q.knew["services"] # <<>> /\ q.knew["services"][1][q.main] # Gone
                   THEN q.knew["services"][1][q.main] ELSE 0
  /\ ~q.taxable => q.knew["taxes"] # <<TRUE>>

\* What a sale was made of, by the tables of its moment.
Owed(b) ==
  b.request.services + SumOf([g \in DOMAIN b.request.goods |-> b.under["goods"][g]])
    + (IF Earned(b.by) THEN b.under["premium"] ELSE 0)

Sold(b) ==
  /\ SentAs(b.request)
  /\ b.request.code # NoCode => b.under["codes"][b.request.code] # Gone
                                /\ b.under["codes"][b.request.code].state = "active"
  /\ b.due = Owed(b)
             - (IF b.request.code = NoCode THEN 0 ELSE Off(b.under["codes"][b.request.code], Owed(b)))
             + b.request.tip
  /\ b.taxed = IF b.request.taxable
               THEN b.request.services + (IF Earned(b.by) THEN b.under["premium"] ELSE 0) ELSE 0

Priced_ == \A q \in underway : SentAs(q)

\* As long as no answer was lost, only a panel that waits has a request on its way, that of what it
\* shows, and the key has sold when the panel knows it.
InStep ==
  ~unheard => /\ window = "sending" => /\ \A q, r \in underway : q = r
                                       /\ \A q \in underway : q.nth = sends /\ q.sheet = sheet
              /\ window # "sending" => underway = {}
              /\ window # "done" => booked = NoSale
              /\ window = "done" => booked # NoSale /\ booked.request.sheet = sheet

PanelInv ==
  /\ Sheetlike(sheet) /\ Priced_ /\ (booked # NoSale => Sold(booked)) /\ InStep

LEMMA PanelStarts == CheckoutPanelInit => PanelInv
<1> SUFFICES ASSUME CheckoutPanelInit PROVE PanelInv
  OBVIOUS
<1>1. sheet = [main |-> Sitting.main, extras |-> Sitting.extras, goods |-> <<>>, tip |-> 0, code |-> NoCode]
  BY DEF CheckoutPanelInit
<1>2. <<>> = [g \in DOMAIN <<>> |-> <<>>[g]]
  OBVIOUS
<1>3. Sheetlike(sheet)
  BY <1>1, <1>2 DEF Sheetlike
<1>4. QED
  BY <1>3 DEF CheckoutPanelInit, PanelInv, Priced_, InStep

\* A step that touches neither what is shown and sent nor the sale.
LEMMA PanelQuiet ==
  ASSUME PanelInv, UNCHANGED <<sheet, window, sends, underway, booked, unheard>>
  PROVE  PanelInv'
<1>1. Sheetlike(sheet)' /\ Priced_' /\ InStep'
  BY DEF PanelInv, Sheetlike, Priced_, InStep, SentAs
<1>2. booked' # NoSale => Sold(booked')
  BY DEF PanelInv
<1>3. QED
  BY <1>1, <1>2 DEF PanelInv

LEMMA EditKeeps ==
  ASSUME PanelInv, NEW new, Edited(new), Sheetlike(new)
  PROVE  PanelInv'
<1>1. window = "open" /\ sheet' = new /\ UNCHANGED <<window, sends, underway, booked, unheard>>
  BY DEF Edited
<1>2. Sheetlike(sheet')
  BY <1>1
<1>3. Priced_' /\ InStep'
  BY <1>1 DEF PanelInv, Priced_, InStep, SentAs
<1>4. QED
  BY <1>1, <1>2, <1>3 DEF PanelInv, Sheetlike

LEMMA EditsKeep ==
  ASSUME PanelInv, PickMain \/ AddLine \/ RemoveLine \/ Adjust
  PROVE  PanelInv'
<1>0. sheet = [main |-> sheet.main, extras |-> sheet.extras, goods |-> sheet.goods, tip |-> sheet.tip,
               code |-> sheet.code]
      /\ sheet.goods = [g \in DOMAIN sheet.goods |-> sheet.goods[g]]
  BY DEF PanelInv, Sheetlike
<1>1. \A s : Sheetlike([sheet EXCEPT !.main = s])
  BY <1>0 DEF Sheetlike
<1>2. \A f : Sheetlike([sheet EXCEPT !.extras = f])
  BY <1>0 DEF Sheetlike
<1>3. \A f : f = [g \in DOMAIN f |-> f[g]] => Sheetlike([sheet EXCEPT !.goods = f])
  BY <1>0 DEF Sheetlike
<1>4. \A s : Sheetlike([sheet EXCEPT !.tip = s]) /\ Sheetlike([sheet EXCEPT !.code = s])
  BY <1>0 DEF Sheetlike
<1>5. CASE PickMain
  BY <1>1, <1>5, EditKeeps DEF PickMain
<1>6. CASE AddLine
  <2>1. CASE \E s \in Menu \ (DOMAIN sheet.extras \cup {sheet.main}) :
               Edited([sheet EXCEPT !.extras = [x \in DOMAIN sheet.extras \cup {s} |->
                                                  IF x = s THEN Listed("services")[s] ELSE sheet.extras[x]]])
    BY <1>2, <2>1, EditKeeps
  <2>2. CASE \E g \in Goods \ DOMAIN sheet.goods :
               Edited([sheet EXCEPT !.goods = [x \in DOMAIN sheet.goods \cup {g} |->
                                                 IF x = g THEN Listed("goods")[g] ELSE sheet.goods[x]]])
    <3>1. PICK g \in Goods \ DOMAIN sheet.goods :
               Edited([sheet EXCEPT !.goods = [x \in DOMAIN sheet.goods \cup {g} |->
                                                 IF x = g THEN Listed("goods")[g] ELSE sheet.goods[x]]])
      BY <2>2
    <3> DEFINE f == [x \in DOMAIN sheet.goods \cup {g} |-> IF x = g THEN Listed("goods")[g] ELSE sheet.goods[x]]
    <3>2. f = [x \in DOMAIN f |-> f[x]]
      OBVIOUS
    <3>3. Edited([sheet EXCEPT !.goods = f])
      BY <3>1
    <3> HIDE DEF f
    <3>4. QED
      BY <1>3, <3>2, <3>3, EditKeeps
  <2>3. QED
    BY <1>6, <2>1, <2>2 DEF AddLine
<1>7. CASE RemoveLine
  <2>1. CASE \E s \in DOMAIN sheet.extras :
               Edited([sheet EXCEPT !.extras = Restrict(@, DOMAIN sheet.extras \ {s})])
    BY <1>2, <2>1, EditKeeps
  <2>2. CASE \E g \in DOMAIN sheet.goods :
               Edited([sheet EXCEPT !.goods = Restrict(@, DOMAIN sheet.goods \ {g})])
    <3>1. PICK g \in DOMAIN sheet.goods :
               Edited([sheet EXCEPT !.goods = Restrict(sheet.goods, DOMAIN sheet.goods \ {g})])
      BY <2>2
    <3> DEFINE f == Restrict(sheet.goods, DOMAIN sheet.goods \ {g})
    <3>2. f = [x \in DOMAIN f |-> f[x]]
      BY DEF Restrict
    <3>3. Edited([sheet EXCEPT !.goods = f])
      BY <3>1
    <3> HIDE DEF f
    <3>4. QED
      BY <1>3, <3>2, <3>3, EditKeeps
  <2>3. QED
    BY <1>7, <2>1, <2>2 DEF RemoveLine
<1>8. CASE Adjust
  BY <1>4, <1>8, EditKeeps DEF Adjust
<1>9. QED
  BY <1>5, <1>6, <1>7, <1>8

\* The request says what the panel shows.
LEMMA RequestIsComposed ==
  ASSUME NEW q, PanelInv,
         q = [nth |-> sends + 1, main |-> sheet.main, mainPrice |-> Priced(sheet.main),
              services |-> Priced(sheet.main) + SumOf(sheet.extras), goods |-> sheet.goods,
              premium |-> BarberPremium, taxable |-> Loaded("taxes") /\ Listed("taxes"), tip |-> sheet.tip,
              code |-> IF FeatureShown("discounts") THEN sheet.code ELSE NoCode,
              shown |-> TotalDue, sheet |-> sheet, knew |-> answered]
  PROVE  SentAs(q)
<1>1. /\ q.services = Priced(sheet.main) + SumOf(sheet.extras) /\ q.goods = sheet.goods
      /\ q.premium = BarberPremium /\ q.tip = sheet.tip /\ q.knew = answered /\ q.shown = TotalDue
      /\ q.code = IF FeatureShown("discounts") THEN sheet.code ELSE NoCode
  OBVIOUS
<1>2. PriceBefore(q) = BeforeTip
  BY <1>1 DEF PriceBefore, BeforeTip
<1>3. Preview(q) = DiscountShown
  BY <1>1, <1>2 DEF Preview, KnewCode, DiscountShown, Loaded, Listed
<1>4. q.shown = PriceBefore(q) - Preview(q) + q.tip
  BY <1>1, <1>2, <1>3 DEF TotalDue
<1>5. q.goods = [g \in DOMAIN q.goods |-> q.goods[g]]
  BY <1>1 DEF PanelInv, Sheetlike
<1>6. q.premium = IF Earned(Sitting.by) /\ q.knew["premium"] # <<>> THEN q.knew["premium"][1] ELSE 0
  BY <1>1 DEF BarberPremium, Loaded, Listed
<1>7. q.mainPrice = IF q.knew["services"] # <<>> /\ q.knew["services"][1][q.main] # Gone
                    THEN q.knew["services"][1][q.main] ELSE 0
  <2>1. q.main = sheet.main /\ q.mainPrice = Priced(sheet.main)
    OBVIOUS
  <2>2. QED
    BY <1>1, <2>1 DEF Priced, Loaded, Listed
<1>8. ~q.taxable => q.knew["taxes"] # <<TRUE>>
  <2>1. q.taxable = (Loaded("taxes") /\ Listed("taxes"))
    OBVIOUS
  <2>2. answered["taxes"] = <<TRUE>> => answered["taxes"] # <<>> /\ answered["taxes"][1] = TRUE
    OBVIOUS
  <2>3. answered["taxes"] = <<TRUE>> => Loaded("taxes") /\ Listed("taxes")
    BY <2>2 DEF Loaded, Listed
  <2>4. QED
    BY <1>1, <2>1, <2>3
<1>9. QED
  BY <1>4, <1>5, <1>6, <1>7, <1>8 DEF SentAs

LEMMA SubmitKeeps ==
  ASSUME PanelInv, Submit
  PROVE  PanelInv'
<1> DEFINE q == [nth |-> sends + 1, main |-> sheet.main, mainPrice |-> Priced(sheet.main),
         services |-> Priced(sheet.main) + SumOf(sheet.extras), goods |-> sheet.goods,
         premium |-> BarberPremium, taxable |-> Loaded("taxes") /\ Listed("taxes"), tip |-> sheet.tip,
         code |-> IF FeatureShown("discounts") THEN sheet.code ELSE NoCode,
         shown |-> TotalDue, sheet |-> sheet, knew |-> answered]
<1>1. /\ window = "open" /\ window' = "sending" /\ sends' = sends + 1
      /\ underway' = underway \cup {q} /\ UNCHANGED <<sheet, booked, unheard>>
  BY DEF Submit
<1>2. q.nth = sends + 1 /\ q.sheet = sheet
  OBVIOUS
<1>3. SentAs(q)
  BY RequestIsComposed
<1> HIDE DEF q
<1>4. Priced_'
  BY <1>1, <1>3 DEF PanelInv, Priced_, SentAs
<1>5. InStep'
  <2>1. ~unheard => underway' = {q}
    BY <1>1 DEF PanelInv, InStep
  <2>2. QED
    BY <1>1, <1>2, <2>1 DEF PanelInv, InStep
<1>6. Sheetlike(sheet)' /\ (booked' # NoSale => Sold(booked'))
  BY <1>1 DEF PanelInv, Sheetlike
<1>7. QED
  BY <1>4, <1>5, <1>6 DEF PanelInv

LEMMA LeaveKeeps ==
  ASSUME PanelInv, Leave
  PROVE  PanelInv'
<1>1. window = "open" /\ window' = "left" /\ UNCHANGED <<sheet, sends, underway, booked, unheard>>
  BY DEF Leave
<1>2. Sheetlike(sheet)' /\ Priced_' /\ InStep'
  BY <1>1 DEF PanelInv, Sheetlike, Priced_, InStep, SentAs
<1>3. QED
  BY <1>1, <1>2 DEF PanelInv

LEMMA AnswerKeeps ==
  ASSUME PanelInv, NEW q \in underway, NEW sale, Answers(q, sale), sale # NoSale => Sold(sale),
         sale # NoSale => booked = sale \/ sale.request = q,
         booked # NoSale => sale = booked
  PROVE  PanelInv'
<1>1. /\ booked' = sale /\ underway' = underway \ {q} /\ UNCHANGED <<sheet, sends>>
      /\ \/ /\ window = "sending" /\ q.nth = sends
            /\ window' = IF sale = NoSale THEN "open" ELSE "done"
            /\ unheard' = unheard
         \/ /\ window' = IF window = "sending" /\ q.nth = sends THEN "open" ELSE window
            /\ unheard' = TRUE
  BY DEF Answers
<1>2. Priced_'
  BY <1>1 DEF PanelInv, Priced_, SentAs
<1>3. InStep'
  <2>1. CASE unheard' = TRUE
    BY <2>1 DEF InStep
  <2>2. CASE /\ window = "sending" /\ q.nth = sends
             /\ window' = IF sale = NoSale THEN "open" ELSE "done"
             /\ unheard' = unheard
    <3>1. CASE unheard
      BY <2>2, <3>1 DEF InStep
    <3>2. CASE ~unheard
      <4>1. booked = NoSale /\ underway' = {} /\ q.sheet = sheet
        BY <1>1, <2>2, <3>2 DEF PanelInv, InStep
      <4>2. sale # NoSale => sale.request = q
        BY <4>1
      <4>3. QED
        BY <1>1, <2>2, <4>1, <4>2 DEF InStep
    <3>3. QED
      BY <3>1, <3>2
  <2>3. QED
    BY <1>1, <2>1, <2>2
<1>4. Sheetlike(sheet)' /\ (booked' # NoSale => Sold(booked'))
  BY <1>1 DEF PanelInv, Sheetlike
<1>5. QED
  BY <1>2, <1>3, <1>4 DEF PanelInv

LEMMA SalesAreSold ==
  ASSUME NEW q, SentAs(q), ~RefusesSale(q)
  PROVE  Sold(SaleOf(q)) /\ SaleOf(q).request = q
<1> DEFINE b == SaleOf(q)
<1>1. b.request = q /\ b.by = doing /\ b.under = tariff
      /\ b.due = RawSubtotal(q) - (IF q.code = NoCode THEN 0 ELSE Off(tariff["codes"][q.code], RawSubtotal(q)))
                 + q.tip
      /\ b.taxed = IF q.taxable THEN q.services + PremiumDue(q) ELSE 0
  BY DEF SaleOf
<1> HIDE DEF b
<1>2. Owed(b) = RawSubtotal(q)
  BY <1>1 DEF Owed, RawSubtotal, PremiumDue
<1>3. q.code # NoCode => tariff["codes"][q.code] # Gone /\ tariff["codes"][q.code].state = "active"
  BY DEF RefusesSale
<1>4. Sold(b)
  BY <1>1, <1>2, <1>3 DEF Sold, PremiumDue
<1>5. QED
  BY <1>1, <1>4 DEF b

LEMMA ServeKeeps ==
  ASSUME PanelInv, Serve
  PROVE  PanelInv'
<1>1. PICK q \in underway :
        \/ booked # NoSale /\ Answers(q, booked)
        \/ booked = NoSale /\ RefusesSale(q) /\ Answers(q, NoSale)
        \/ booked = NoSale /\ ~RefusesSale(q) /\ Answers(q, SaleOf(q))
  BY DEF Serve
<1>2. CASE booked # NoSale /\ Answers(q, booked)
  BY <1>2, AnswerKeeps DEF PanelInv
<1>3. CASE booked = NoSale /\ Answers(q, NoSale)
  BY <1>3, AnswerKeeps
<1>4. CASE booked = NoSale /\ ~RefusesSale(q) /\ Answers(q, SaleOf(q))
  <2>1. SentAs(q)
    BY DEF PanelInv, Priced_
  <2>2. Sold(SaleOf(q)) /\ SaleOf(q).request = q
    BY <1>4, <2>1, SalesAreSold
  <2>3. QED
    BY <1>4, <2>2, AnswerKeeps
<1>5. QED
  BY <1>1, <1>2, <1>3, <1>4

LEMMA BreakKeeps ==
  ASSUME PanelInv, Break
  PROVE  PanelInv'
<1>1. unheard' = TRUE /\ underway' \subseteq underway /\ UNCHANGED <<sheet, booked>>
  BY DEF Break
<1>2. Sheetlike(sheet)' /\ Priced_' /\ InStep'
  BY <1>1 DEF PanelInv, Sheetlike, Priced_, InStep, SentAs
<1>3. QED
  BY <1>1, <1>2 DEF PanelInv

LEMMA PanelStep == PanelInv /\ [CheckoutPanelNext]_panelVars => PanelInv'
<1> SUFFICES ASSUME PanelInv, [CheckoutPanelNext]_panelVars PROVE PanelInv'
  OBVIOUS
<1>1. CASE Load \/ Revise \/ HandOver
  BY <1>1, PanelQuiet DEF Load, Revise, HandOver
<1>2. CASE UNCHANGED panelVars
  BY <1>2, PanelQuiet DEF panelVars
<1>3. CASE PickMain \/ AddLine \/ RemoveLine \/ Adjust
  BY <1>3, EditsKeep
<1>4. CASE Submit
  BY <1>4, SubmitKeeps
<1>5. CASE Leave
  BY <1>5, LeaveKeeps
<1>6. CASE Serve
  BY <1>6, ServeKeeps
<1>7. CASE Break
  BY <1>7, BreakKeeps
<1>8. QED
  BY <1>1, <1>2, <1>3, <1>4, <1>5, <1>6, <1>7 DEF CheckoutPanelNext

LEMMA SoldIsShown ==
  ASSUME NEW b, Sold(b),
         \A g \in DOMAIN b.request.goods : b.request.goods[g] = b.under["goods"][g],
         Earned(Sitting.by) => b.request.knew["premium"] = <<b.under["premium"]>>,
         Earned(Sitting.by) <=> Earned(b.by),
         b.request.code # NoCode => b.request.knew["codes"] = <<b.under["codes"]>>
  PROVE  b.due = b.request.shown
<1> DEFINE q == b.request
<1>1. SentAs(q)
  BY DEF Sold
<1>2. [g \in DOMAIN q.goods |-> b.under["goods"][g]] = q.goods
  <2>1. [g \in DOMAIN q.goods |-> b.under["goods"][g]] = [g \in DOMAIN q.goods |-> q.goods[g]]
    OBVIOUS
  <2>2. QED
    BY <1>1, <2>1 DEF SentAs
<1>3. q.premium = IF Earned(b.by) THEN b.under["premium"] ELSE 0
  BY <1>1 DEF SentAs
<1>4. Owed(b) = PriceBefore(q)
  BY <1>2, <1>3 DEF Owed, PriceBefore
<1>5. Preview(q) = IF q.code = NoCode THEN 0 ELSE Off(b.under["codes"][q.code], PriceBefore(q))
  BY DEF Preview, KnewCode, Sold
<1>6. b.due = PriceBefore(q) - Preview(q) + q.tip
  BY <1>4, <1>5 DEF Sold
<1>7. QED
  BY <1>1, <1>6 DEF SentAs

\* A sale is what the panel showed unless a price, a code, the premium or the barber changed behind
\* it; nothing is given away or goes untaxed unless a table was missing or changed; and a panel that
\* closes on a success closes on the sale of what it shows, unless an answer was lost (CheckoutPanel
\* of the Floor page, checkout of payments.service.ts): for any menu, any tables and revisions of
\* them, and any number of edits and attempts.
THEOREM PanelSellsAsShown == CheckoutPanelSpec => []CheckoutTells
<1>1. PanelInv => SoldAsShown
  BY SoldIsShown DEF PanelInv, SoldAsShown
<1>2. PanelInv => NothingGivenAway
  BY DEF PanelInv, Sold, SentAs, NothingGivenAway
<1>3. PanelInv => ClosesOnItsSale
  BY DEF PanelInv, InStep, ClosesOnItsSale
<1>4. PanelInv => CheckoutTells
  BY <1>1, <1>2, <1>3 DEF CheckoutTells
<1>5. QED
  BY PanelStarts, PanelStep, <1>4, PTL DEF CheckoutPanelSpec

\* Lines with their prices.
PriceList(f, S) == DOMAIN f \subseteq S /\ f = [x \in DOMAIN f |-> f[x]] /\ \A x \in DOMAIN f : f[x] \in Nat

\* The answer of a query is of one of the tables there were.
AnswersAreTables ==
  /\ tariff \in Tables /\ answered = [q \in Queries |-> answered[q]]
  /\ \A q \in Queries : answered[q] = <<>> \/ \E t \in Tables : answered[q] = <<t[q]>>

SheetTyped(x) ==
  /\ x.main \in Menu /\ PriceList(x.extras, Menu) /\ PriceList(x.goods, Goods)
  /\ x.tip \in Nat /\ x.code \in Codes \cup {NoCode}

RequestTyped(q, n) ==
  /\ q.nth \in 1 .. n /\ q.services \in Nat /\ q.tip \in Nat
  /\ PriceList(q.goods, Goods) /\ q.code \in Codes \cup {NoCode}

WindowTyped ==
  /\ window \in {"open", "sending", "done", "left"} /\ sends \in Nat
  /\ booked # NoSale => booked.due >= 0 /\ doing = Gone

PanelTyped ==
  /\ PanelInv /\ AnswersAreTables /\ SheetTyped(sheet) /\ WindowTyped
  /\ \A q \in underway : RequestTyped(q, sends)

LEMMA TablesAre ==
  /\ Tariff \in Tables /\ Revisions \subseteq Tables
  /\ \A t \in Tables : /\ DOMAIN t = Queries /\ t["premium"] \in Nat
                       /\ t["services"] \in [Menu -> Nat \cup {Gone}]
                       /\ t["goods"] \in [Goods -> Nat \cup {Gone}]
  BY CheckoutPanelConstants DEF Tables

LEMMA PanelStartsTyped == CheckoutPanelInit => PanelTyped
<1> SUFFICES ASSUME CheckoutPanelInit PROVE PanelTyped
  OBVIOUS
<1>1. PanelInv
  BY PanelStarts
<1>2. PICK slow \in SUBSET Queries : answered = [q \in Queries |-> IF q \in slow THEN <<>> ELSE <<Tariff[q]>>]
  BY DEF CheckoutPanelInit
<1>3. AnswersAreTables
  <2>1. tariff \in Tables
    BY TablesAre DEF CheckoutPanelInit
  <2>2. answered = [q \in Queries |-> answered[q]]
    BY <1>2
  <2>3. \A q \in Queries : answered[q] = <<>> \/ answered[q] = <<Tariff[q]>>
    BY <1>2
  <2> QED BY <2>1, <2>2, <2>3, TablesAre DEF AnswersAreTables
<1>4. PriceList(<<>>, Goods)
  BY DEF PriceList
<1>5. SheetTyped(sheet)
  <2>1. /\ sheet.main = Sitting.main /\ sheet.extras = Sitting.extras /\ sheet.goods = <<>> /\ sheet.tip = 0
        /\ sheet.code = NoCode
    BY DEF CheckoutPanelInit
  <2>2. PriceList(Sitting.extras, Menu)
    BY CheckoutPanelConstants DEF PriceList
  <2> QED BY <1>4, <2>1, <2>2, CheckoutPanelConstants DEF SheetTyped
<1>6. WindowTyped /\ underway = {}
  BY DEF WindowTyped, CheckoutPanelInit
<1> QED BY <1>1, <1>3, <1>5, <1>6 DEF PanelTyped

\* What the list shows of a service or a product is a price.
LEMMA ShownPrice ==
  ASSUME AnswersAreTables, NEW k \in {"services", "goods"}, NEW s \in IF k = "services" THEN Menu ELSE Goods,
         Loaded(k)
  PROVE  Listed(k)[s] \in Nat \cup {Gone}
<1>1. k \in Queries /\ answered[k] # <<>>
  BY DEF Queries, Loaded
<1>2. PICK t \in Tables : answered[k] = <<t[k]>>
  BY <1>1 DEF AnswersAreTables
<1>3. Listed(k) = t[k]
  BY <1>2 DEF Listed
<1> QED BY <1>3, TablesAre

LEMMA LinesSum ==
  ASSUME NEW S, IsFiniteSet(S), NEW f, DOMAIN f \subseteq S, \A x \in DOMAIN f : f[x] \in Nat
  PROVE  SumOf(f) \in Nat
<1>1. IsFiniteSet(DOMAIN f)
  BY FS_Subset
<1>2. SumOf(f) = SumFunctionOnSet(f, DOMAIN f)
  BY DEF SumOf, FoldFunction, SumFunctionOnSet
<1> QED BY <1>1, <1>2, SumTypes

\* A longer list of prices, and a shorter one.
LEMMA LineAdded ==
  ASSUME NEW S, NEW f, PriceList(f, S), NEW s \in S, NEW v \in Nat
  PROVE  PriceList([x \in DOMAIN f \cup {s} |-> IF x = s THEN v ELSE f[x]], S)
  BY DEF PriceList

LEMMA LineRemoved ==
  ASSUME NEW S, NEW f, PriceList(f, S), NEW s
  PROVE  PriceList(Restrict(f, DOMAIN f \ {s}), S)
  BY DEF PriceList, Restrict

LEMMA EditTyped ==
  ASSUME PanelTyped, NEW new, Edited(new), PanelInv', SheetTyped(new)
  PROVE  PanelTyped'
<1>1. sheet' = new /\ UNCHANGED <<tariff, answered, doing, window, sends, underway, booked>>
  BY DEF Edited
<1> QED BY <1>1 DEF PanelTyped, AnswersAreTables, WindowTyped

LEMMA EditsTyped ==
  ASSUME PanelTyped, PickMain \/ AddLine \/ RemoveLine \/ Adjust
  PROVE  PanelTyped'
<1>1. PanelInv'
  BY EditsKeep DEF PanelTyped
<1>2. /\ AnswersAreTables /\ SheetTyped(sheet)
      /\ sheet = [main |-> sheet.main, extras |-> sheet.extras, goods |-> sheet.goods, tip |-> sheet.tip,
                  code |-> sheet.code]
  BY DEF PanelTyped, PanelInv, Sheetlike
<1>3. \A s \in Menu : SheetTyped([sheet EXCEPT !.main = s])
  BY <1>2 DEF SheetTyped
<1>4. \A f : PriceList(f, Menu) => SheetTyped([sheet EXCEPT !.extras = f])
  BY <1>2 DEF SheetTyped
<1>5. \A f : PriceList(f, Goods) => SheetTyped([sheet EXCEPT !.goods = f])
  BY <1>2 DEF SheetTyped
<1>6. \A t \in Nat : SheetTyped([sheet EXCEPT !.tip = t])
  BY <1>2 DEF SheetTyped
<1>7. \A c \in Codes : SheetTyped([sheet EXCEPT !.code = c])
  BY <1>2 DEF SheetTyped
<1>8. PriceList(sheet.extras, Menu) /\ PriceList(sheet.goods, Goods)
  BY <1>2 DEF SheetTyped
<1>9. CASE PickMain
  BY <1>1, <1>3, <1>9, EditTyped DEF PickMain
<1>10. CASE AddLine
  <2>1. ASSUME NEW s \in Menu, Loaded("services"), Listed("services")[s] # Gone,
               Edited([sheet EXCEPT !.extras = [x \in DOMAIN sheet.extras \cup {s} |->
                                                  IF x = s THEN Listed("services")[s] ELSE sheet.extras[x]]])
        PROVE  PanelTyped'
    <3>1. Listed("services")[s] \in Nat
      BY <1>2, <2>1, ShownPrice
    <3> DEFINE v == Listed("services")[s]
               f == [x \in DOMAIN sheet.extras \cup {s} |-> IF x = s THEN v ELSE sheet.extras[x]]
    <3>2. Edited([sheet EXCEPT !.extras = f]) /\ v \in Nat
      BY <2>1, <3>1
    <3>3. PriceList(f, Menu)
      <4> HIDE DEF v
      <4> QED BY <1>8, <2>1, <3>2, LineAdded
    <3> HIDE DEF f
    <3> QED BY <1>1, <1>4, <3>2, <3>3, EditTyped
  <2>2. ASSUME NEW s \in Goods, Loaded("goods"), Listed("goods")[s] # Gone,
               Edited([sheet EXCEPT !.goods = [x \in DOMAIN sheet.goods \cup {s} |->
                                                  IF x = s THEN Listed("goods")[s] ELSE sheet.goods[x]]])
        PROVE  PanelTyped'
    <3>1. Listed("goods")[s] \in Nat
      BY <1>2, <2>2, ShownPrice
    <3> DEFINE v == Listed("goods")[s]
               f == [x \in DOMAIN sheet.goods \cup {s} |-> IF x = s THEN v ELSE sheet.goods[x]]
    <3>2. Edited([sheet EXCEPT !.goods = f]) /\ v \in Nat
      BY <2>2, <3>1
    <3>3. PriceList(f, Goods)
      <4> HIDE DEF v
      <4> QED BY <1>8, <2>2, <3>2, LineAdded
    <3> HIDE DEF f
    <3> QED BY <1>1, <1>5, <3>2, <3>3, EditTyped
  <2> QED BY <1>10, <2>1, <2>2 DEF AddLine
<1>11. CASE RemoveLine
  <2>1. ASSUME NEW s, Edited([sheet EXCEPT !.extras = Restrict(@, DOMAIN sheet.extras \ {s})])
        PROVE  PanelTyped'
    <3> DEFINE f == Restrict(sheet.extras, DOMAIN sheet.extras \ {s})
    <3>1. PriceList(f, Menu) /\ Edited([sheet EXCEPT !.extras = f])
      BY <1>8, <2>1, LineRemoved
    <3> HIDE DEF f
    <3> QED BY <1>1, <1>4, <3>1, EditTyped
  <2>2. ASSUME NEW s, Edited([sheet EXCEPT !.goods = Restrict(@, DOMAIN sheet.goods \ {s})])
        PROVE  PanelTyped'
    <3> DEFINE f == Restrict(sheet.goods, DOMAIN sheet.goods \ {s})
    <3>1. PriceList(f, Goods) /\ Edited([sheet EXCEPT !.goods = f])
      BY <1>8, <2>2, LineRemoved
    <3> HIDE DEF f
    <3> QED BY <1>1, <1>5, <3>1, EditTyped
  <2> QED BY <1>11, <2>1, <2>2 DEF RemoveLine
<1>12. CASE Adjust
  BY <1>1, <1>6, <1>7, <1>12, EditTyped DEF Adjust
<1> QED BY <1>9, <1>10, <1>11, <1>12

LEMMA SubmitTyped ==
  ASSUME PanelTyped, Submit
  PROVE  PanelTyped'
<1>1. PanelInv'
  BY SubmitKeeps DEF PanelTyped
<1> DEFINE q == [nth |-> sends + 1, main |-> sheet.main, mainPrice |-> Priced(sheet.main),
         services |-> Priced(sheet.main) + SumOf(sheet.extras), goods |-> sheet.goods,
         premium |-> BarberPremium, taxable |-> Loaded("taxes") /\ Listed("taxes"), tip |-> sheet.tip,
         code |-> IF FeatureShown("discounts") THEN sheet.code ELSE NoCode,
         shown |-> TotalDue, sheet |-> sheet, knew |-> answered]
<1>2. /\ window' = "sending" /\ sends' = sends + 1 /\ underway' = underway \cup {q}
      /\ UNCHANGED <<tariff, doing, answered, sheet, edits, booked, unheard>>
  BY DEF Submit
<1>3. /\ q.nth = sends + 1 /\ q.services = Priced(sheet.main) + SumOf(sheet.extras) /\ q.goods = sheet.goods
      /\ q.tip = sheet.tip /\ q.code \in {sheet.code, NoCode}
  OBVIOUS
<1> HIDE DEF q
<1>4. SheetTyped(sheet) /\ AnswersAreTables /\ WindowTyped /\ \A r \in underway : RequestTyped(r, sends)
  BY DEF PanelTyped
<1>5. Priced(sheet.main) \in Nat
  <2>1. sheet.main \in Menu
    BY <1>4 DEF SheetTyped
  <2>2. Loaded("services") => Listed("services")[sheet.main] \in Nat \cup {Gone}
    BY <1>4, <2>1, ShownPrice
  <2> QED BY <2>2 DEF Priced
<1>6. SumOf(sheet.extras) \in Nat
  BY <1>4, LinesSum, CheckoutPanelConstants DEF SheetTyped, PriceList
<1>7. sends \in Nat
  BY <1>4 DEF WindowTyped
<1>8. \A r \in underway' : RequestTyped(r, sends')
  <2>1. ASSUME NEW r \in underway PROVE RequestTyped(r, sends')
    BY <1>2, <1>4, <1>7 DEF RequestTyped
  <2>2. RequestTyped(q, sends')
    BY <1>2, <1>3, <1>4, <1>5, <1>6, <1>7 DEF RequestTyped, SheetTyped
  <2> QED BY <1>2, <2>1, <2>2
<1>9. WindowTyped' /\ AnswersAreTables' /\ SheetTyped(sheet')
  BY <1>2, <1>4, <1>7 DEF WindowTyped, AnswersAreTables, SheetTyped
<1> QED BY <1>1, <1>8, <1>9 DEF PanelTyped

\* A discount takes off no more than there is.
LEMMA OffIsPart ==
  ASSUME NEW c, NEW n \in Nat, c.type \in {"percent", "flat"}, c.value \in Nat,
         c.type = "percent" => c.value <= 100
  PROVE  Off(c, n) \in 0 .. n
<1>1. CASE c.type = "percent"
  <2>1. (c.value * n) \div 100 \in 0 .. n
    BY <1>1, ShareFits
  <2>2. c.value * n = n * c.value
    OBVIOUS
  <2> QED BY <1>1, <2>1, <2>2 DEF Off
<1>2. CASE c.type = "flat"
  BY <1>2 DEF Off
<1> QED BY <1>1, <1>2

LEMMA SaleIsOwed ==
  ASSUME PanelTyped, NEW q \in underway, ~RefusesSale(q)
  PROVE  SaleOf(q).due >= 0
<1>1. RequestTyped(q, sends) /\ tariff \in Tables
  BY DEF PanelTyped, AnswersAreTables
<1> DEFINE f == [g \in DOMAIN q.goods |-> tariff["goods"][g]]
<1>2. /\ DOMAIN f \subseteq Goods
      /\ \A g \in DOMAIN f : f[g] \in Nat
  BY <1>1, TablesAre DEF RequestTyped, PriceList, RefusesSale
<1>3. PremiumDue(q) \in Nat
  BY <1>1, TablesAre DEF PremiumDue
<1>4. SumOf(f) \in Nat
  <2> HIDE DEF f
  <2> QED BY <1>2, LinesSum, CheckoutPanelConstants
<1> DEFINE n == RawSubtotal(q)
           off == IF q.code = NoCode THEN 0 ELSE Off(tariff["codes"][q.code], n)
<1>5. n \in Nat
  BY <1>1, <1>3, <1>4 DEF RawSubtotal, RequestTyped
<1>6. SaleOf(q).due = n - off + q.tip
  BY DEF SaleOf
<1> HIDE DEF n
<1>7. off \in 0 .. n
  <2>1. CASE q.code = NoCode
    BY <1>5, <2>1
  <2>2. CASE q.code # NoCode
    <3> DEFINE c == tariff["codes"][q.code]
    <3>1. q.code \in Codes /\ c # Gone
      BY <1>1, <2>2 DEF RequestTyped, RefusesSale
    <3>2. c.type \in {"percent", "flat"} /\ c.value \in Nat /\ (c.type = "percent" => c.value <= 100)
      BY <1>1, <3>1 DEF Tables
    <3>3. Off(c, n) \in 0 .. n
      <4> HIDE DEF c
      <4> QED BY <1>5, <3>2, OffIsPart
    <3> QED BY <2>2, <3>3
  <2> QED BY <2>1, <2>2
<1> HIDE DEF off
<1> QED BY <1>1, <1>5, <1>6, <1>7 DEF RequestTyped

LEMMA AnswerTyped ==
  ASSUME PanelTyped, PanelInv', NEW q \in underway, NEW sale, Answers(q, sale),
         sale # NoSale => sale.due >= 0, booked # NoSale => sale = booked
  PROVE  PanelTyped'
<1>1. /\ booked' = sale /\ underway' = underway \ {q} /\ UNCHANGED <<tariff, answered, sheet, sends>>
      /\ doing' = IF sale = NoSale THEN doing ELSE Gone
      /\ window' \in {window, "open", "done"}
  BY DEF Answers
<1>2. AnswersAreTables' /\ SheetTyped(sheet')
  BY <1>1 DEF PanelTyped, AnswersAreTables
<1>3. WindowTyped'
  BY <1>1 DEF PanelTyped, WindowTyped
<1>4. \A r \in underway' : RequestTyped(r, sends')
  BY <1>1 DEF PanelTyped
<1> QED BY <1>2, <1>3, <1>4 DEF PanelTyped

LEMMA ServeTyped ==
  ASSUME PanelTyped, Serve
  PROVE  PanelTyped'
<1>1. PanelInv'
  BY ServeKeeps DEF PanelTyped
<1>2. PICK q \in underway :
        \/ booked # NoSale /\ Answers(q, booked)
        \/ booked = NoSale /\ RefusesSale(q) /\ Answers(q, NoSale)
        \/ booked = NoSale /\ ~RefusesSale(q) /\ Answers(q, SaleOf(q))
  BY DEF Serve
<1>3. CASE booked # NoSale /\ Answers(q, booked)
  BY <1>1, <1>3, AnswerTyped DEF PanelTyped, WindowTyped
<1>4. CASE booked = NoSale /\ Answers(q, NoSale)
  BY <1>1, <1>4, AnswerTyped
<1>5. CASE booked = NoSale /\ ~RefusesSale(q) /\ Answers(q, SaleOf(q))
  BY <1>1, <1>5, SaleIsOwed, AnswerTyped
<1> QED BY <1>2, <1>3, <1>4, <1>5

LEMMA LoadTyped ==
  ASSUME PanelTyped, Load
  PROVE  PanelTyped'
<1>1. PICK q \in Queries : answered' = [answered EXCEPT ![q] = <<tariff[q]>>]
  BY DEF Load
<1>2. UNCHANGED <<tariff, doing, sheet, window, edits, sends, underway, booked, unheard>>
  BY DEF Load
<1>3. PanelInv'
  BY <1>2, PanelQuiet DEF PanelTyped
<1>4. AnswersAreTables'
  <2>1. /\ tariff \in Tables /\ answered = [k \in Queries |-> answered[k]]
        /\ \A k \in Queries : answered[k] = <<>> \/ \E t \in Tables : answered[k] = <<t[k]>>
    BY DEF PanelTyped, AnswersAreTables
  <2>2. answered' = [k \in Queries |-> IF k = q THEN <<tariff[q]>> ELSE answered[k]]
    BY <1>1, <2>1
  <2>3. answered' = [k \in Queries |-> answered'[k]]
    BY <2>2
  <2>4. \A k \in Queries : answered'[k] = <<>> \/ \E t \in Tables : answered'[k] = <<t[k]>>
    BY <2>1, <2>2
  <2> QED BY <1>2, <2>1, <2>3, <2>4 DEF AnswersAreTables
<1>5. WindowTyped' /\ SheetTyped(sheet') /\ \A r \in underway' : RequestTyped(r, sends')
  BY <1>2 DEF PanelTyped, WindowTyped
<1> QED BY <1>3, <1>4, <1>5 DEF PanelTyped

LEMMA AsideTyped ==
  ASSUME PanelTyped, PanelInv', UNCHANGED <<answered, sheet, sends, booked>>, underway' \subseteq underway,
         tariff' \in Tables, window' \in {window, "open", "left"}, doing' = doing \/ booked = NoSale
  PROVE  PanelTyped'
<1>1. AnswersAreTables' /\ SheetTyped(sheet') /\ WindowTyped'
  BY DEF PanelTyped, AnswersAreTables, WindowTyped
<1>2. \A r \in underway' : RequestTyped(r, sends')
  BY DEF PanelTyped
<1> QED BY <1>1, <1>2 DEF PanelTyped

LEMMA PanelStepTyped == PanelTyped /\ [CheckoutPanelNext]_panelVars => PanelTyped'
<1> SUFFICES ASSUME PanelTyped, [CheckoutPanelNext]_panelVars PROVE PanelTyped'
  OBVIOUS
<1>1. PanelInv' /\ tariff \in Tables
  BY PanelStep DEF PanelTyped, AnswersAreTables
<1>2. CASE Leave
  BY <1>1, <1>2, AsideTyped DEF Leave
<1>3. CASE Break
  BY <1>1, <1>3, AsideTyped DEF Break
<1>4. CASE Revise
  BY <1>1, <1>4, AsideTyped, TablesAre DEF Revise
<1>5. CASE HandOver
  <2>1. booked = NoSale
    BY <1>5, CheckoutPanelConstants DEF HandOver, PanelTyped, WindowTyped
  <2> QED BY <1>1, <1>5, <2>1, AsideTyped DEF HandOver
<1>6. CASE UNCHANGED panelVars
  BY <1>1, <1>6, AsideTyped DEF panelVars
<1>7. CASE PickMain \/ AddLine \/ RemoveLine \/ Adjust
  BY <1>7, EditsTyped
<1>8. CASE Load \/ Submit \/ Serve
  BY <1>8, LoadTyped, SubmitTyped, ServeTyped
<1> QED BY <1>2, <1>3, <1>4, <1>5, <1>6, <1>7, <1>8 DEF CheckoutPanelNext

LEMMA PanelIsTyped == PanelTyped => CheckoutPanelTypeOK
<1> SUFFICES ASSUME PanelTyped PROVE CheckoutPanelTypeOK
  OBVIOUS
<1>1. DOMAIN tariff = Queries
  BY TablesAre DEF PanelTyped, AnswersAreTables
<1>2. DOMAIN answered = Queries
  BY DEF PanelTyped, AnswersAreTables
<1>3. /\ sheet.main \in Menu /\ DOMAIN sheet.extras \subseteq Menu /\ DOMAIN sheet.goods \subseteq Goods
      /\ sheet.code \in Codes \cup {NoCode}
  BY DEF PanelTyped, SheetTyped, PriceList
<1>4. \A q \in underway : q.nth \in 1 .. sends
  BY DEF PanelTyped, RequestTyped
<1>5. /\ window \in {"open", "sending", "done", "left"}
      /\ booked # NoSale => booked.due >= 0 /\ doing = Gone
  BY DEF PanelTyped, WindowTyped
<1> QED BY <1>1, <1>2, <1>3, <1>4, <1>5 DEF CheckoutPanelTypeOK

\* The panel prices with answers of tables there were, its lines are priced, a request was numbered when
\* it was sent, and a sale owes nothing less than nothing and ends the visit.
THEOREM PanelKeepsTypes == CheckoutPanelSpec => []CheckoutPanelTypeOK
<1>1. CheckoutPanelSpec => []PanelTyped
  BY PanelStartsTyped, PanelStepTyped, PTL DEF CheckoutPanelSpec
<1>2. QED BY <1>1, PanelIsTyped, PTL

-----------------------------------------------------------------------------
(***************************************************************************)
(* The management.  A step of it is a step of one component and of no      *)
(* other, so it implements every component's specification and keeps what  *)
(* they promise.                                                           *)
(***************************************************************************)

LEMMA ManagementStarts ==
  ManagementInit => /\ SuccessionInit /\ SettingsInit /\ SanitationInit /\ PoolInit /\ SessionInit
                    /\ BoardInit /\ GridInit /\ ReportInit /\ DashboardInit /\ CheckoutPanelInit
  BY DEF ManagementInit

LEMMA ManagementSteps ==
  [ManagementNext]_managementVars =>
    /\ [SuccessionNext]_successionVars /\ [SettingsNext]_settingsVars /\ [SanitationNext]_sanitationVars
    /\ [PoolNext]_poolVars /\ [SessionNext]_sessionVars /\ [BoardNext]_boardVars /\ [GridNext]_gridVars
    /\ [ReportNext]_reportVars /\ [DashboardNext]_dashboardVars /\ [CheckoutPanelNext]_panelVars
  BY DEF ManagementNext, Elsewhere, managementVars

\* At each desk the management runs the component's own specification.
THEOREM EveryDeskItsOwn ==
  ManagementSpec => /\ SuccessionSpec /\ SettingsSpec /\ SanitationSpec /\ PoolSpec /\ SessionSpec
                    /\ BoardSpec /\ GridSpec /\ ReportSpec /\ DashboardSpec /\ CheckoutPanelSpec
  BY ManagementStarts, ManagementSteps, PTL
  DEF ManagementSpec, SuccessionSpec, SettingsSpec, SanitationSpec, PoolSpec, SessionSpec, BoardSpec,
      GridSpec, ReportSpec, DashboardSpec, CheckoutPanelSpec

AtSomeDesk == desk \in {"successions", "settings", "sanitation", "pool", "sessions", "board", "grid",
                        "reports", "dashboard", "panel"}

\* Every variable of the component at work holds a value of its kind, whatever component that is.
THEOREM ManagementTyped == ManagementSpec => []ManagementTypeOK
<1>1. ManagementInit => AtSomeDesk
  BY DEF ManagementInit, AtSomeDesk
<1>2. AtSomeDesk /\ [ManagementNext]_managementVars => AtSomeDesk'
  BY DEF AtSomeDesk, ManagementNext, managementVars
<1>3. /\ AtSomeDesk /\ SuccessionTypeOK /\ SettingsTypeOK /\ SanitationTypeOK /\ PoolTypeOK /\ SessionTypeOK
      /\ BoardTypeOK /\ GridTypeOK /\ ReportTypeOK /\ DashboardTypeOK /\ CheckoutPanelTypeOK
      => ManagementTypeOK
  BY DEF AtSomeDesk, ManagementTypeOK
<1>4. ManagementSpec => []AtSomeDesk
  BY <1>1, <1>2, PTL DEF ManagementSpec
<1> QED
  BY <1>3, <1>4, EveryDeskItsOwn, SuccessionsTyped, SettingsTyped, SanitationTyped, PoolTyped, SessionsTyped,
     BoardTyped, GridTyped, ReportsTyped, DashboardsTyped, PanelKeepsTypes, PTL

\* What the board recommends and plans can be carried out, at its desk among the others.
THEOREM BoardPlanned == ManagementSpec => []BoardPlansSoundly
<1>1. PlanIsSound => BoardPlansSoundly
  BY DEF BoardPlansSoundly
<1> QED BY <1>1, EveryDeskItsOwn, BoardPlansAsItCan, PTL

\* Every reader of the schedule counts the same people and the same chairs, at its desk among the others.
THEOREM ScheduleAlike == ManagementSpec => []ScheduleReadAlike
<1>1. GridIsOneStory => ScheduleReadAlike
  BY DEF ScheduleReadAlike
<1> QED BY <1>1, EveryDeskItsOwn, GridAlike, PTL

\* So the management as a whole keeps what its components promise.
THEOREM ManagementKeepsItsPromises ==
  ManagementSpec => /\ []RatesSucceed /\ []ScheduleIsAsDecided /\ []OverwritesNeedOverlap /\ []WipeDownsKeepTime
                    /\ []ConnectionsKeptApart /\ []SessionsKeepToTheirRights /\ []ReportsTell /\ []PayRunsSound
                    /\ []DashboardTells /\ []CheckoutTells /\ []BoardPlansSoundly /\ []ScheduleReadAlike
<1>1. ReportSpec => []ReportsTell
  BY ReportsTold, PTL
<1> QED
  BY <1>1, EveryDeskItsOwn, RatesFollow, ScheduleDecided, OverlapsExplain, WipeDowns, PoolKeptApart, RightsKept,
     PayRunsReviewed, DashboardsTold, PanelSellsAsShown, BoardPlanned, ScheduleAlike, PTL
=============================================================================
