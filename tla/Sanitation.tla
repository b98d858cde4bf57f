----------------------------- MODULE Sanitation -----------------------------
(***************************************************************************)
(* The shop's sanitation reminder, settings.service.ts: the manager turns  *)
(* it on and sets its interval, the floor snoozes or completes it, and the *)
(* owner may push either setting to the shop.  Each handler reads the row  *)
(* and then writes what it computed from it, and commits with the write.   *)
(***************************************************************************)
EXTENDS Integers

CONSTANTS
  Hands,     \* the requests; each is sent once
  Intervals, \* the lengths of the interval, in snoozes
  LastWipe,  \* the clock stops here, a bound on the model
  Duties     \* what the requests may ask, a bound on the model

NoDate == -1 \* next_due_at is null
Epoch == 0  \* what new Date(null) is
Duty  == [kind: {"set", "snooze", "complete", "push"}, enabled: {"on", "off", "unasked"},
          interval: Intervals \cup {0}]  \* 0: not asked
Reminder == [enabled: BOOLEAN, interval: Intervals, due: Int]

ASSUME SanitationConstants ==
  /\ Intervals \subseteq Nat \ {0} /\ LastWipe \in Nat
  /\ Duties \subseteq [Hands -> Duty] /\ Duties # {}

VARIABLES
  duty,       \* what each request asks
  handPc,     \* the statement each handler is about to execute
  looked,     \* the row each has read, and whether no round was completed since
  reminder,   \* the shop's row of location_sanitation_settings
  tick,       \* the clock
  completed,  \* when the shop last completed its round
  wroteStale  \* a manager's save wrote a row it had read before the last completion

sanitationVars == <<duty, handPc, looked, reminder, tick, completed, wroteStale>>

SanitationInit ==
  /\ duty \in Duties
  /\ handPc = [h \in Hands |-> "idle"]
  /\ tick = 1 /\ completed = Epoch /\ wroteStale = FALSE
  /\ \E i \in Intervals :
       reminder \in {[enabled |-> FALSE, interval |-> i, due |-> NoDate],
                     [enabled |-> TRUE, interval |-> i, due |-> 1]}
  /\ looked = [h \in Hands |-> [row |-> reminder, fresh |-> TRUE]]

-----------------------------------------------------------------------------
HandGoto(h, step) == handPc' = [handPc EXCEPT ![h] = step]

\* Only while reminders are on is there anything to snooze or complete.
LookAtReminder(h) ==
  /\ handPc[h] = "idle"
  /\ looked' = [looked EXCEPT ![h] = [row |-> reminder, fresh |-> TRUE]]
  /\ HandGoto(h, IF duty[h].kind \in {"snooze", "complete"} /\ ~reminder.enabled THEN "refused" ELSE "write")
  /\ UNCHANGED <<duty, reminder, tick, completed, wroteStale>>

Enabled(h) == IF duty[h].enabled = "unasked" THEN looked[h].row.enabled ELSE duty[h].enabled = "on"
Interval_(h) == IF duty[h].interval = 0 THEN looked[h].row.interval ELSE duty[h].interval

Reschedules(h) ==
  \/ ~looked[h].row.enabled
  \/ Interval_(h) # looked[h].row.interval
  \/ looked[h].row.due = NoDate

DateOf(due) == IF due = NoDate THEN Epoch ELSE due

\* setSanitationSettings writes the whole row, its next time too, as it read it or anew.
SetReminder(h) ==
  /\ handPc[h] = "write" /\ duty[h].kind = "set"
  /\ reminder' = [enabled |-> Enabled(h), interval |-> Interval_(h),
                  due |-> IF ~Enabled(h) THEN NoDate
                          ELSE IF Reschedules(h) THEN tick + Interval_(h) ELSE DateOf(looked[h].row.due)]
  /\ wroteStale' = (wroteStale \/ ~looked[h].fresh)
  /\ HandGoto(h, "done")
  /\ UNCHANGED <<duty, looked, tick, completed>>

Snooze(h) ==
  /\ handPc[h] = "write" /\ duty[h].kind = "snooze"
  /\ reminder' = [reminder EXCEPT !.due = tick + 1]
  /\ HandGoto(h, "done")
  /\ UNCHANGED <<duty, looked, tick, completed, wroteStale>>

NextDue_FromSchedule(h) == DateOf(looked[h].row.due) + looked[h].row.interval

\* The next round is due an interval after this one, whenever it had been due.
NextDue(h) == tick + looked[h].row.interval

Complete(h) ==
  /\ handPc[h] = "write" /\ duty[h].kind = "complete"
  /\ reminder' = [reminder EXCEPT !.due = NextDue(h)]
  /\ completed' = tick /\ wroteStale' = FALSE
  /\ looked' = [g \in Hands |-> [looked[g] EXCEPT !.fresh = FALSE]]
  /\ HandGoto(h, "done")
  /\ UNCHANGED <<duty, tick>>

\* The owner's push updates one column and computes no next time.
PushReminder(h) ==
  /\ handPc[h] = "write" /\ duty[h].kind = "push"
  /\ reminder' = [reminder EXCEPT !.enabled = IF duty[h].enabled = "unasked" THEN @ ELSE duty[h].enabled = "on",
                                  !.interval = IF duty[h].interval = 0 THEN @ ELSE duty[h].interval]
  /\ HandGoto(h, "done")
  /\ UNCHANGED <<duty, looked, tick, completed, wroteStale>>

TimePasses ==
  /\ tick < LastWipe
  /\ tick' = tick + 1
  /\ UNCHANGED <<duty, handPc, looked, reminder, completed, wroteStale>>

SanitationNext ==
  \/ \E h \in Hands :
       LookAtReminder(h) \/ SetReminder(h) \/ Snooze(h) \/ Complete(h) \/ PushReminder(h)
  \/ TimePasses

SanitationSpec == SanitationInit /\ [][SanitationNext]_sanitationVars

-----------------------------------------------------------------------------
\* sanitationStatus: the reminder stands on the board.
Due == reminder.enabled /\ reminder.due # NoDate /\ reminder.due <= tick

SanitationTypeOK ==
  /\ duty \in [Hands -> Duty]
  /\ handPc \in [Hands -> {"idle", "write", "done", "refused"}]
  /\ looked \in [Hands -> [row: Reminder, fresh: BOOLEAN]]
  /\ reminder \in Reminder
  /\ tick \in Nat /\ completed \in Nat /\ wroteStale \in BOOLEAN

\* A round just completed is not due again before a snooze's length has passed, unless a manager's
\* save wrote back the time it had read before the round.
RestsAfterCompletion ==
  (Due /\ completed # Epoch /\ tick <= completed) => wroteStale

\* A reminder that is on has a time it is due at, unless the owner's push turned it on: then no
\* board shows it until the manager saves the settings again.
OnMeansScheduled ==
  (reminder.enabled /\ reminder.due \in {NoDate, Epoch}) =>
    \E h \in Hands : duty[h].kind = "push" /\ duty[h].enabled = "on" /\ handPc[h] = "done"

\* The reminder comes when it should: not at once again, and some time.
WipeDownsKeepTime == RestsAfterCompletion /\ OnMeansScheduled
=============================================================================
