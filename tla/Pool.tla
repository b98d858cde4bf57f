-------------------------------- MODULE Pool --------------------------------
(***************************************************************************)
(* The connection pool under the API: rls-transaction.middleware.ts holds  *)
(* one connection for the whole of each request, in a transaction that is  *)
(* scoped to one shop; runInLocationScope of scoped-query.ts takes another *)
(* one for each shop an owner's request looks into.  pg-pool makes whoever *)
(* finds no idle connection wait, with no limit (pool.ts).                 *)
(***************************************************************************)
EXTENDS Integers, FiniteSets

CONSTANTS
  Requests,    \* HTTP requests
  Connections, \* the pool, ten in the code
  Places,      \* the shops of the organization
  NoPlace,     \* no shop: nothing is visible
  NoConn,      \* a request or a nested transaction without a connection
  Batches      \* who the requests are from, a bound on the model

Person == [role: {"owner", "staff", "visitor"}, home: Places \cup {NoPlace},
           wants: Places \cup {NoPlace}, nests: SUBSET Places]

ASSUME PoolConstants ==
  /\ Batches \subseteq [Requests -> Person] /\ Batches # {}
  /\ NoPlace \notin Places /\ NoConn \notin Connections /\ Connections # {}

VARIABLES
  person,    \* who sends each request: the token, the shop in its URL, the shops it looks into
  visitPc,   \* the step each request is at
  lent,      \* the connection the middleware has got for each request
  settled,   \* the requests whose finish() has run
  hung,      \* how the client of each hung up: not at all, early or late
  nestPc,    \* the step of each nested transaction
  nestConn,  \* the connection of each nested transaction
  idle,      \* how often the pool has each connection to give
  scope,     \* the shop the session variables of each connection name
  ranIn      \* the shops each request's own statements ran under

poolVars == <<person, visitPc, lent, settled, hung, nestPc, nestConn, idle, scope, ranIn>>

PoolInit ==
  /\ person \in Batches
  /\ visitPc = [v \in Requests |-> "connect"]
  /\ lent = [v \in Requests |-> NoConn]
  /\ settled = {}
  /\ hung = [v \in Requests |-> "no"]
  /\ nestPc = [v \in Requests |-> [p \in Places |-> IF p \in person[v].nests THEN "due" ELSE "done"]]
  /\ nestConn = [v \in Requests |-> [p \in Places |-> NoConn]]
  /\ idle = [c \in Connections |-> 1]
  /\ scope = [c \in Connections |-> NoPlace]
  /\ ranIn = [v \in Requests |-> {}]

-----------------------------------------------------------------------------
VisitGoto(v, step) == visitPc' = [visitPc EXCEPT ![v] = step]

\* The shop the token or the public URL entitles to, or none: only an owner may go to another shop
\* of the organization, and a visitor's URL may name no shop there is.
Scope(v) ==
  IF person[v].role = "staff" THEN person[v].home ELSE person[v].wants
Forbidden(v) ==
  \/ person[v].role = "staff" /\ person[v].wants # person[v].home
  \/ person[v].role = "owner" /\ person[v].wants \notin Places

Connect(v) ==
  /\ visitPc[v] = "connect"
  /\ \E c \in Connections : /\ idle[c] > 0
                            /\ idle' = [idle EXCEPT ![c] = @ - 1]
                            /\ lent' = [lent EXCEPT ![v] = c]
  /\ VisitGoto(v, "begin")
  /\ UNCHANGED <<person, settled, hung, nestPc, nestConn, scope, ranIn>>

Settled_Never(v) == FALSE

\* finish() does nothing the second time: 'close' follows every 'finish'.
Settled(v) == v \in settled

\* set_config(..., true) ends with the transaction.
ScopeAfter(c) == NoPlace

\* COMMIT or ROLLBACK on the connection, and back to the pool with it.
Finish(v) ==
  IF Settled(v) \/ lent[v] = NoConn
  THEN UNCHANGED <<settled, idle, scope>>
  ELSE /\ settled' = settled \cup {v}
       /\ idle' = [idle EXCEPT ![lent[v]] = @ + 1]
       /\ scope' = [scope EXCEPT ![lent[v]] = ScopeAfter(lent[v])]

\* BEGIN, the claims, the check of the shop, and then the listeners for 'finish' and 'close'.
BeginVisit(v) ==
  /\ visitPc[v] = "begin"
  /\ IF Forbidden(v)
     THEN Finish(v) /\ VisitGoto(v, "over")
     ELSE /\ scope' = IF Scope(v) = NoPlace THEN scope ELSE [scope EXCEPT ![lent[v]] = Scope(v)]
          /\ VisitGoto(v, "work")
          /\ UNCHANGED <<settled, idle>>
  /\ UNCHANGED <<person, lent, hung, nestPc, nestConn, ranIn>>

\* Kysely releases the client after each query, which does nothing: the middleware has replaced release().
Kept(v) == idle

\* A statement of the handler, on the connection it was given, whoever has it now.
Statement(v) ==
  /\ visitPc[v] = "work"
  /\ ranIn' = [ranIn EXCEPT ![v] = @ \cup {scope[lent[v]]}]
  /\ idle' = Kept(v)
  /\ VisitGoto(v, "nests")
  /\ UNCHANGED <<person, lent, settled, hung, nestPc, nestConn, scope>>

NestConnect(v, p) ==
  /\ visitPc[v] = "nests" /\ nestPc[v][p] = "due"
  /\ \E c \in Connections : /\ idle[c] > 0
                            /\ idle' = [idle EXCEPT ![c] = @ - 1]
                            /\ nestConn' = [nestConn EXCEPT ![v][p] = c]
                            /\ scope' = [scope EXCEPT ![c] = p]
  /\ nestPc' = [nestPc EXCEPT ![v][p] = "work"]
  /\ UNCHANGED <<person, visitPc, lent, settled, hung, ranIn>>

NestFailed(v, p) == [idle EXCEPT ![nestConn[v][p]] = @ + 1]

\* The nested transaction commits, or fails and rolls back; either way its connection goes back.
NestFinish(v, p, fails) ==
  /\ nestPc[v][p] = "work"
  /\ idle' = IF fails THEN NestFailed(v, p) ELSE [idle EXCEPT ![nestConn[v][p]] = @ + 1]
  /\ scope' = [scope EXCEPT ![nestConn[v][p]] = ScopeAfter(nestConn[v][p])]
  /\ nestPc' = [nestPc EXCEPT ![v][p] = "done"]
  /\ nestConn' = [nestConn EXCEPT ![v][p] = NoConn]
  /\ UNCHANGED <<person, visitPc, lent, settled, hung, ranIn>>

\* The response is sent and 'finish' fires, unless the socket was gone.
Respond(v) ==
  /\ visitPc[v] = "nests" /\ \A p \in Places : nestPc[v][p] = "done"
  /\ IF hung[v] = "no" THEN Finish(v) /\ VisitGoto(v, "sent")
                       ELSE VisitGoto(v, "over") /\ UNCHANGED <<settled, idle, scope>>
  /\ UNCHANGED <<person, lent, hung, nestPc, nestConn, ranIn>>

Close(v) ==
  /\ visitPc[v] = "sent"
  /\ Finish(v) /\ VisitGoto(v, "over")
  /\ UNCHANGED <<person, lent, hung, nestPc, nestConn, ranIn>>

\* The client goes away.  Before the listeners are there nobody hears 'close'; later finish() runs
\* at once, and the handler goes on.
HangUp(v) ==
  /\ hung[v] = "no"
  /\ \/ /\ visitPc[v] \in {"connect", "begin"}
        /\ hung' = [hung EXCEPT ![v] = "early"]
        /\ UNCHANGED <<settled, idle, scope>>
     \/ /\ visitPc[v] \in {"work", "nests"}
        /\ hung' = [hung EXCEPT ![v] = "late"]
        /\ Finish(v)
  /\ UNCHANGED <<person, visitPc, lent, nestPc, nestConn, ranIn>>

PoolNext ==
  \E v \in Requests :
    \/ Connect(v) \/ BeginVisit(v) \/ Statement(v) \/ Respond(v) \/ Close(v) \/ HangUp(v)
    \/ \E p \in Places : NestConnect(v, p) \/ \E fails \in BOOLEAN : NestFinish(v, p, fails)

PoolSpec == PoolInit /\ [][PoolNext]_poolVars

-----------------------------------------------------------------------------
PoolTypeOK ==
  /\ person \in [Requests -> Person]
  /\ visitPc \in [Requests -> {"connect", "begin", "work", "nests", "sent", "over"}]
  /\ lent \in [Requests -> Connections \cup {NoConn}]
  /\ settled \subseteq Requests /\ hung \in [Requests -> {"no", "early", "late"}]
  /\ nestPc \in [Requests -> [Places -> {"due", "work", "done"}]]
  /\ nestConn \in [Requests -> [Places -> Connections \cup {NoConn}]]
  /\ idle \in [Connections -> Nat]
  /\ scope \in [Connections -> Places \cup {NoPlace}]
  /\ ranIn \in [Requests -> SUBSET (Places \cup {NoPlace})]

Holds(v, c) ==
  \/ lent[v] = c /\ v \notin settled
  \/ \E p \in Places : nestConn[v][p] = c

\* A connection is with the pool once or with one request: neither finish() and close(), nor a
\* nested transaction that fails, nor Kysely gives it back twice.
OneHolder ==
  \A c \in Connections :
    idle[c] + Cardinality({v \in Requests : Holds(v, c)}) <= 1

AwaitsConnection(v) ==
  \/ visitPc[v] = "connect"
  \/ /\ visitPc[v] = "nests" /\ \E p \in Places : nestPc[v][p] = "due"
     /\ \A p \in Places : nestPc[v][p] # "work"
InFlight == {v \in Requests : visitPc[v] # "over"}

\* Everybody waits for a connection only when every one is held by a request that waits for another
\* one itself, or was lost to a client who hung up before the middleware listened for it.
StuckOnlyByNesting ==
  (InFlight # {} /\ \A v \in InFlight : AwaitsConnection(v)) =>
    \A c \in Connections :
      idle[c] = 0 => \E v \in Requests : Holds(v, c) /\ (visitPc[v] = "nests" \/ hung[v] = "early")

\* A statement runs under the shop of its own request, or under none; only that of a handler whose
\* client has hung up may run under another's.
RunsUnderItsOwnShop ==
  \A v \in Requests : hung[v] # "late" => ranIn[v] \subseteq {Scope(v)}

\* No connection serves two requests, no request another's shop, and the pool runs dry only so.
ConnectionsKeptApart == OneHolder /\ RunsUnderItsOwnShop /\ StuckOnlyByNesting
=============================================================================
