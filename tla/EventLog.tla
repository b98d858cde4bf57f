------------------------------ MODULE EventLog ------------------------------
(***************************************************************************)
(* What event-log.ts promises of a location's events: "a per-location      *)
(* monotonic sequence number", so that the events are one sequence without *)
(* gaps that only grows at its end, each change of the floor once.         *)
(***************************************************************************)
EXTENDS Integers, Sequences

CONSTANT Writers  \* the changes that may be recorded
VARIABLE log      \* log[n] is the change that event number n records

LogInit == log = <<>>

Record(w) ==
  /\ \A n \in DOMAIN log : log[n] # w
  /\ log' = Append(log, w)

LogSpec == LogInit /\ [][\E w \in Writers : Record(w)]_log
=============================================================================
