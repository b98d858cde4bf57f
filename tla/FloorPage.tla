------------------------------ MODULE FloorPage ------------------------------
(***************************************************************************)
(* The tablets of one shop showing the Floor, the page                     *)
(* locations/[locationId]/queue/page.tsx.  Each shows the board it fetched *)
(* last; a panel keeps the row it was opened on; a mutation that succeeded *)
(* and the socket's queue:changed fetch the board again, and so does a     *)
(* timer.  The server answers and tells the socket before it commits, so   *)
(* what is fetched at once may still be the board of before.               *)
(***************************************************************************)
EXTENDS Shop, Integers, FiniteSets, Listing, SequencesExt

CONSTANTS
  Tabs,    \* tablets that show the page
  Guests,  \* walk-in rows, those that will be checked in included
  Kits,    \* lists of services a visit may carry, the primary one first
  Favoured,\* the barber the board recommends for each row, if it does
  Outstanding, \* requests of a tablet the server is busy with, a bound on the model
  Lossy,   \* tablets whose requests and answers may be lost
  Shifts   \* a board, and what each tablet is used for from there on, a bound on the model

PanelKinds == {"start", "service", "reassign", "checkout"}
TapKinds   == {"cancel", "noShow", "abandon", "arrive", "ready", "unready", "top", "original",
               "drag", "checkIn"}

\* turn: how often somebody chose the services of the visit, which no column tells.
Seat  == [status: {"none", "waiting", "in_service", "gone"}, barber: Barbers \cup {Nobody},
          kit: Kits, present: BOOLEAN, ready: {"auto", "yes", "no"}, place: Int, first: Int,
          turn: Nat]
Board == [seat: [Guests -> Seat], busy: SUBSET Barbers]

ASSUME FloorPageConstants ==
  /\ Shifts \subseteq [board: Board, chores: [Tabs -> Seq(PanelKinds \cup TapKinds)]] /\ Shifts # {}
  /\ Favoured \in [Guests -> Barbers \cup {Nobody}]
  /\ Lossy \subseteq Tabs /\ Outstanding \in Nat
  /\ Kits # {} /\ \A k \in Kits : k # <<>>
  /\ IsFiniteSet(Guests)

NoPanel == [kind |-> "none"]
NoOrder == <<>>

VARIABLES
  board,   \* the committed board
  shown,   \* the board each tablet has cached
  stale,   \* the tablets whose board is to be fetched again
  panel,   \* the panel each tablet has open
  order,   \* localWaitingOrder of each tablet
  todo,    \* what each tablet will still be used for
  wire,    \* requests that were sent and not answered or not committed
  picked,  \* the services somebody last chose for each visit
  mischarged, \* the visits charged for other services than theirs from a panel nobody edited
  unseen   \* the visits written by a request that had not seen the last choice

pageVars == <<board, shown, stale, panel, order, todo, wire, picked, mischarged, unseen>>

FloorPageInit ==
  /\ \E s \in Shifts : board = s.board /\ todo = s.chores
  /\ shown = [t \in Tabs |-> board]
  /\ stale = {} /\ wire = {} /\ unseen = {} /\ mischarged = {}
  /\ panel = [t \in Tabs |-> NoPanel]
  /\ order = [t \in Tabs |-> NoOrder]
  /\ picked = [g \in Guests |-> board.seat[g].kit]

-----------------------------------------------------------------------------
(* What a tablet shows. *)

With(b, status) == {g \in Guests : b.seat[g].status = status}

\* Rows with one waiting_order come in an order nobody chose.
AnyPlace == CHOOSE f \in [Guests -> 1 .. Cardinality(Guests)] : \A g, h \in Guests : g # h => f[g] # f[h]

Ahead(b) ==
  {p \in Guests \X Guests :
     \/ b.seat[p[1]].place < b.seat[p[2]].place
     \/ b.seat[p[1]].place = b.seat[p[2]].place /\ AnyPlace[p[1]] < AnyPlace[p[2]]}

Line(b) == Ranked(With(b, "waiting"), Ahead(b))

\* waitingList: the order that was dragged hides who is not in it until it is given up.
WaitingList(t) ==
  IF order[t] = NoOrder THEN Line(shown[t])
  ELSE Sublist(order[t], {i \in DOMAIN order[t] : shown[t].seat[order[t][i]].status = "waiting"})

CanSeat(b, used) == Barbers \ (b.busy \cup used)

\* One ready card: the recommended barber, else the assigned one, else any who is available
\* and on no card above.
Match(b, g, used) ==
  LET free == CanSeat(b, used)
  IN  IF Favoured[g] \in free THEN Favoured[g]
      ELSE IF b.seat[g].barber \in free THEN b.seat[g].barber
      ELSE IF free # {} THEN CHOOSE s \in free : TRUE ELSE Nobody

\* readyMatches: a card with its barber, in the order of priority; a row held ready by hand
\* has a card without one.
ReadyMatches(t) ==
  LET b == shown[t]
      Card(cards, g) ==
        LET s == Match(b, g, {c.barber : c \in cards})
        IN  IF b.seat[g].present /\ b.seat[g].ready # "no" /\ (s # Nobody \/ b.seat[g].ready = "yes")
            THEN cards \cup {[guest |-> g, barber |-> s]} ELSE cards
  IN  FoldLeft(Card, {}, WaitingList(t))

\* The rows whose menu, card or handle offers to do this.
Offered(t, kind) ==
  LET b       == shown[t]
      waiting == Range(WaitingList(t))
      serving == With(b, "in_service")
      here    == {g \in waiting : b.seat[g].present}
  IN CASE kind \in {"start", "service", "arrive", "ready", "drag"} -> waiting
       [] kind \in {"reassign", "cancel"}          -> waiting \cup serving
       [] kind \in {"checkout", "top", "original"} -> serving
       [] kind = "noShow"  -> waiting \ here
       [] kind = "abandon" -> here \cup serving
       [] kind = "unready" -> {c.guest : c \in ReadyMatches(t)}
       [] kind = "checkIn" -> With(board, "none")

-----------------------------------------------------------------------------
(* What the people at a tablet do. *)

Doing(t, kind) == todo[t] # <<>> /\ Head(todo[t]) = kind

Request(t, kind, g, barber, kit, turn, chosen, list) ==
  [tab |-> t, kind |-> kind, guest |-> g, barber |-> barber, kit |-> kit, turn |-> turn,
   chosen |-> chosen, list |-> list, phase |-> "sent", read |-> board.seat[g], place |-> 0]

\* A panel keeps the row as the board showed it.
OpenPanel(t) ==
  \E kind \in PanelKinds : \E g \in Offered(t, kind) :
    /\ Doing(t, kind) /\ panel[t] = NoPanel
    /\ panel' = [panel EXCEPT ![t] =
                   [kind |-> kind, guest |-> g, kit |-> shown[t].seat[g].kit,
                    turn |-> shown[t].seat[g].turn, chosen |-> FALSE, barbers |-> {}]]
    /\ todo' = [todo EXCEPT ![t] = Tail(@)]
    /\ UNCHANGED <<board, shown, stale, order, wire, picked, mischarged, unseen>>

\* useEligibleStaff: who is available when the panel asks.
FetchBarbers(t) ==
  /\ panel[t] # NoPanel /\ panel[t].kind \in {"start", "reassign"} /\ panel[t].barbers = {}
  /\ panel' = [panel EXCEPT ![t].barbers = Barbers \ board.busy]
  /\ panel' # panel
  /\ UNCHANGED <<board, shown, stale, order, todo, wire, picked, mischarged, unseen>>

\* The picker of the panel.
PickServices(t) ==
  /\ panel[t] # NoPanel /\ panel[t].kind # "reassign" /\ ~panel[t].chosen
  /\ \E k \in Kits \ {panel[t].kit} :
       panel' = [panel EXCEPT ![t].kit = k, ![t].chosen = TRUE]
  /\ UNCHANGED <<board, shown, stale, order, todo, wire, picked, mischarged, unseen>>

KitOf_PrimaryOnly(p) == IF p.chosen THEN p.kit ELSE <<Head(p.kit)>>

\* What Start, Save and Complete send: every service the panel lists.
KitOf(p) == p.kit

Pending(t, kinds) ==
  {w \in wire : w.tab = t /\ w.kind \in kinds /\ w.phase \in {"sent", "handled", "kept"}}

Submit(t) ==
  LET p == panel[t]
  IN  /\ p # NoPanel /\ Pending(t, PanelKinds) = {}
      /\ Cardinality({w \in wire : w.tab = t}) < Outstanding
      /\ \E b \in IF p.kind \in {"start", "reassign"} THEN p.barbers ELSE {Nobody} :
           wire' = wire \cup {Request(t, p.kind, p.guest, b, KitOf(p), p.turn, p.chosen, NoOrder)}
      /\ UNCHANGED <<board, shown, stale, panel, order, todo, picked, mischarged, unseen>>

ClosePanel(t) ==
  /\ panel[t] # NoPanel /\ Pending(t, PanelKinds) = {}
  /\ panel' = [panel EXCEPT ![t] = NoPanel]
  /\ UNCHANGED <<board, shown, stale, order, todo, wire, picked, mischarged, unseen>>

\* A menu item, a check box or a card dropped on a column.
Tap(t) ==
  \E kind \in TapKinds \ {"drag"} : \E g \in Offered(t, kind) :
    /\ Doing(t, kind)
    /\ wire' = wire \cup {Request(t, kind, g, Nobody, board.seat[g].kit, 0, FALSE, NoOrder)}
    /\ todo' = [todo EXCEPT ![t] = Tail(@)]
    /\ UNCHANGED <<board, shown, stale, panel, order, picked, mischarged, unseen>>

\* handleDrop: the row takes the place of the one it is dropped on, at once on this tablet.
Drag(t) ==
  LET list == WaitingList(t)
  IN \E i, j \in DOMAIN list :
       /\ Doing(t, "drag") /\ i # j
       /\ order' = [order EXCEPT ![t] = InsertAt(RemoveAt(list, i), j, list[i])]
       /\ wire' = wire \cup {Request(t, "drag", list[i], Nobody, board.seat[list[i]].kit, 0, FALSE,
                                     order'[t])}
       /\ todo' = [todo EXCEPT ![t] = Tail(@)]
       /\ UNCHANGED <<board, shown, stale, panel, picked, mischarged, unseen>>

-----------------------------------------------------------------------------
(* The server. *)

Accepted(kind, s, free) ==
  CASE kind = "start"             -> s.status = "waiting" /\ free
    [] kind = "reassign"          -> free
    [] kind = "checkout"          -> s.status = "in_service"
    [] kind = "cancel"            -> s.status \in {"waiting", "in_service"}
    [] kind = "abandon"           -> s.status = "waiting" /\ s.present
    [] kind \in {"service", "noShow", "ready", "unready"} -> s.status = "waiting"
    [] kind \in {"arrive", "drag", "top", "original"}     -> TRUE
    [] kind = "checkIn"           -> s.status = "none"

Freed(w) == IF w.read.status = "in_service" THEN {w.read.barber} ELSE {}

\* waiting_order of a row that joins the line at its end, at its top or where it first stood.
PlaceFor(kind, g) ==
  LET places == {board.seat[h].place : h \in With(board, "waiting")}
  IN CASE kind = "checkIn" -> IF places = {} THEN 0 ELSE Max(places) + 1
       [] kind = "top"     -> IF places = {} THEN -1 ELSE Min(places) - 1
       [] OTHER            -> board.seat[g].first

\* The columns of the row that each handler sets, given the row it read.
RowAfter(w) ==
  LET s == board.seat[w.guest]
  IN CASE w.kind = "start"    -> [s EXCEPT !.status = "in_service", !.barber = w.barber,
                                           !.kit = w.kit, !.ready = "auto"]
       [] w.kind = "service"  -> [s EXCEPT !.kit = w.kit]
       [] w.kind = "reassign" -> [s EXCEPT !.barber = w.barber]
       [] w.kind \in {"checkout", "cancel", "noShow", "abandon"} -> [s EXCEPT !.status = "gone"]
       [] w.kind = "arrive"   -> [s EXCEPT !.present = ~w.read.present,
                                           !.ready = IF w.read.present THEN "auto" ELSE w.read.ready]
       [] w.kind = "ready"    -> [s EXCEPT !.ready = "yes", !.present = TRUE]
       [] w.kind = "unready"  -> [s EXCEPT !.ready = "no", !.present = w.read.present]
       [] w.kind \in {"top", "original"} ->
            [s EXCEPT !.status = "waiting", !.barber = Nobody, !.place = w.place]
       [] w.kind = "checkIn"  -> [s EXCEPT !.status = "waiting", !.place = w.place, !.first = w.place]
       [] w.kind = "drag"     -> s

Seats(w) ==
  IF w.kind = "drag"
  THEN [g \in Guests |-> IF g \in Range(w.list)
                         THEN [board.seat[g] EXCEPT !.place = CHOOSE i \in DOMAIN w.list : w.list[i] = g]
                         ELSE board.seat[g]]
  ELSE [board.seat EXCEPT ![w.guest] =
          [RowAfter(w) EXCEPT !.turn = IF w.chosen /\ w.kind \in {"start", "service"} THEN @ + 1 ELSE @]]

Busy(w) ==
  CASE w.kind = "start"    -> board.busy \cup {w.barber}
    [] w.kind = "reassign" -> IF w.read.status = "in_service" THEN (board.busy \ Freed(w)) \cup {w.barber}
                              ELSE board.busy
    [] w.kind \in {"checkout", "cancel", "top", "original"} -> board.busy \ Freed(w)
    [] OTHER -> board.busy

To(w, phase) == wire' = (wire \ {w}) \cup (IF phase = "over" THEN {} ELSE {[w EXCEPT !.phase = phase]})

Settled(w) == order' = IF w.kind = "drag" THEN [order EXCEPT ![w.tab] = NoOrder] ELSE order

\* The handler reads the row, makes its writes and tells the socket.
Serve(w) ==
  LET s == board.seat[w.guest]
  IN  /\ w.phase = "sent" /\ Accepted(w.kind, s, w.barber \notin board.busy)
      /\ wire' = (wire \ {w}) \cup {[w EXCEPT !.phase = "handled", !.read = s,
                                                !.place = PlaceFor(w.kind, w.guest)]}
      /\ stale' = Tabs
      /\ UNCHANGED <<board, shown, panel, order, todo, picked, mischarged, unseen>>

\* A refusal: the panel stays open.
Refuse(w) ==
  /\ w.phase = "sent" /\ ~Accepted(w.kind, board.seat[w.guest], w.barber \notin board.busy)
  /\ To(w, "over") /\ Settled(w)
  /\ UNCHANGED <<board, shown, stale, panel, todo, picked, mischarged, unseen>>

CommitPage(w) ==
  LET was == board.seat[w.guest]
      writesKit == w.kind \in {"start", "service"}
  IN  /\ w.phase \in {"handled", "told", "lost"}
      /\ board' = [seat |-> Seats(w), busy |-> Busy(w)]
      /\ To(w, IF w.phase = "handled" THEN "kept" ELSE "over")
      /\ picked' = IF writesKit /\ w.chosen THEN [picked EXCEPT ![w.guest] = w.kit] ELSE picked
      /\ mischarged' = IF w.kind = "checkout" /\ ~w.chosen /\ w.kit # was.kit
                       THEN mischarged \cup {w.guest} ELSE mischarged
      /\ unseen' = IF w.kind \in {"start", "service", "checkout"} /\ w.turn # was.turn
                   THEN unseen \cup {w.guest} ELSE unseen
      /\ UNCHANGED <<shown, stale, panel, order, todo>>

\* The answer arrives: onSuccess fetches the board again and closes the panel.
Tell(w) ==
  /\ w.phase \in {"handled", "kept"}
  /\ To(w, IF w.phase = "handled" THEN "told" ELSE "over") /\ Settled(w)
  /\ stale' = stale \cup {w.tab}
  /\ panel' = IF w.kind \in PanelKinds THEN [panel EXCEPT ![w.tab] = NoPanel] ELSE panel
  /\ UNCHANGED <<board, shown, todo, picked, mischarged, unseen>>

SettledOnLoss(w) == Settled(w)

\* The request or its answer is lost: an error without a status.  Nothing is sent again.
Lose(w) ==
  /\ w.tab \in Lossy /\ w.phase \in {"sent", "handled", "kept"}
  /\ To(w, IF w.phase = "handled" THEN "lost" ELSE "over") /\ SettledOnLoss(w)
  /\ UNCHANGED <<board, shown, stale, panel, todo, picked, mischarged, unseen>>

-----------------------------------------------------------------------------
Refetch(t) ==
  /\ t \in stale
  /\ shown' = [shown EXCEPT ![t] = board]
  /\ stale' = stale \ {t}
  /\ UNCHANGED <<board, panel, order, todo, wire, picked, mischarged, unseen>>

Poll_Never(t) == FALSE /\ UNCHANGED pageVars

\* refetchInterval.
Poll(t) ==
  /\ t \notin stale
  /\ stale' = stale \cup {t}
  /\ UNCHANGED <<board, shown, panel, order, todo, wire, picked, mischarged, unseen>>

FloorPageNext ==
  \/ \E t \in Tabs : \/ OpenPanel(t) \/ FetchBarbers(t) \/ PickServices(t) \/ Submit(t)
                     \/ ClosePanel(t) \/ Tap(t) \/ Drag(t) \/ Refetch(t) \/ Poll(t)
  \/ \E w \in wire : Serve(w) \/ Refuse(w) \/ CommitPage(w) \/ Tell(w) \/ Lose(w)

\* The timer fires and a fetch ends in the end, whoever uses the tablet.
FloorPageFairness == \A t \in Tabs : WF_pageVars(Refetch(t)) /\ WF_pageVars(Poll(t))

FloorPageSpec == FloorPageInit /\ [][FloorPageNext]_pageVars /\ FloorPageFairness

-----------------------------------------------------------------------------
FloorPageTypeOK ==
  /\ board \in Board /\ shown \in [Tabs -> Board] /\ stale \subseteq Tabs
  /\ \A t \in Tabs : order[t] \in Seq(Guests) /\ todo[t] \in Seq(PanelKinds \cup TapKinds)
  /\ \A w \in wire : w.tab \in Tabs /\ w.phase \in {"sent", "handled", "told", "kept", "lost"}
  /\ picked \in [Guests -> Kits] /\ unseen \subseteq Guests

\* A guest who waits is missing from a tablet's list, or stands elsewhere than the board says,
\* only while that tablet's own reorder is unanswered (setLocalWaitingOrder of handleDrop and
\* onSettled).
HiddenOnlyByOwnDrag ==
  \A t \in Tabs : WaitingList(t) # Line(shown[t]) => Pending(t, {"drag"}) # {}

\* The ready cards offer each barber once, nobody who is busy on that board, and leave a guest
\* without a barber only when every free one is on another card (readyMatches).
CardsShareTheBarbers ==
  \A t \in Tabs :
    LET cards == ReadyMatches(t)
        given == {c.barber : c \in cards} \ {Nobody}
    IN  /\ given \cap shown[t].busy = {}
        /\ \A c, d \in cards : c.barber = d.barber /\ c.barber # Nobody => c = d
        /\ (\E c \in cards : c.barber = Nobody) => given = Barbers \ shown[t].busy

\* Panels that send every service of the row they were opened on (StartPanel, CheckoutPanel)
\* leave a visit with the services somebody chose last, and charge for them, unless such a panel
\* was opened on a board from before that choice.
ServicesAreTheLastChoice ==
  /\ mischarged \subseteq unseen
  /\ \A g \in Guests \ unseen : board.seat[g].kit = picked[g]

\* What the page offers on a board that is up to date, the server accepts; but "Mark abandoned"
\* of a client in service it always refuses (row menus of the page, terminate of the service).
OffersAreAccepted ==
  \A t \in Tabs : shown[t] = board =>
    \A kind \in (PanelKinds \cup TapKinds) \ {"checkIn"} : \A g \in Offered(t, kind) :
      Accepted(kind, board.seat[g], TRUE) <=> ~(kind = "abandon" /\ g \in With(board, "in_service"))

FloorPageHolds ==
  HiddenOnlyByOwnDrag /\ CardsShareTheBarbers /\ ServicesAreTheLastChoice /\ OffersAreAccepted

\* Every tablet comes to show the board as it is, again and again, although both the answer and
\* the socket's event may be acted on before the COMMIT (refetchInterval 20 s).
BoardCatchesUp == \A t \in Tabs : []<>(shown[t] = board)
=============================================================================
