------------------------------- MODULE Office -------------------------------
(***************************************************************************)
(* The transactions of the back office, each component at a desk of its    *)
(* own.  The components share no rows here and take no steps together, so  *)
(* a behaviour is spent at one desk and the others keep one initial state. *)
(***************************************************************************)
EXTENDS Refunds, ShopDay, FloorRequests, Booking, Clients, FloorPage, JoinPage

VARIABLE desk

officeVars == <<desk, refundVars, shopDayVars, floorVars, bookingVars, clientVars,
                pageVars, joinVars>>

-----------------------------------------------------------------------------
OfficeInit ==
  /\ desk \in {"refunds", "shopDay", "floor", "booking", "clients", "floorPage", "joinPage"}
  /\ RefundInit    /\ (desk # "refunds" => ask = CHOOSE a \in Asks : TRUE)
  /\ ShopDayInit
  /\ FloorInit     /\ (desk # "floor"   => job = CHOOSE j \in Jobs : TRUE)
  /\ BookingInit   /\ (desk # "booking" => call = CHOOSE c \in Calls : TRUE)
  /\ ClientInit    /\ (desk # "clients" => wish = CHOOSE w \in Wishes : TRUE)
  /\ FloorPageInit
  /\ desk # "floorPage" => \E s \in {CHOOSE s \in Shifts : TRUE} : board = s.board /\ todo = s.chores
  /\ JoinPageInit
  /\ desk # "joinPage" => \E o \in {CHOOSE o \in Occasions : TRUE} : onFile = o.onFile /\ taps = o.taps

\* The desks at which nothing happens.
Elsewhere(here) ==
  /\ desk = here
  /\ here # "refunds"   => UNCHANGED refundVars
  /\ here # "shopDay"   => UNCHANGED shopDayVars
  /\ here # "floor"     => UNCHANGED floorVars
  /\ here # "booking"   => UNCHANGED bookingVars
  /\ here # "clients"   => UNCHANGED clientVars
  /\ here # "floorPage" => UNCHANGED pageVars
  /\ here # "joinPage"  => UNCHANGED joinVars

OfficeNext ==
  /\ UNCHANGED desk
  /\ \/ Elsewhere("refunds")   /\ RefundNext
     \/ Elsewhere("shopDay")   /\ ShopDayNext
     \/ Elsewhere("floor")     /\ FloorNext
     \/ Elsewhere("booking")   /\ BookingNext
     \/ Elsewhere("clients")   /\ ClientNext
     \/ Elsewhere("floorPage") /\ FloorPageNext
     \/ Elsewhere("joinPage")  /\ JoinPageNext

\* The tablets of the Floor page are somewhere else than the behaviours of the other desks.
PageFairness ==
  \A t \in Tabs : /\ WF_pageVars(desk = "floorPage" /\ Refetch(t))
                  /\ WF_pageVars(desk = "floorPage" /\ Poll(t))

OfficeSpec ==
  /\ OfficeInit /\ [][OfficeNext]_officeVars
  /\ FloorFairness /\ BookingFairness /\ PageFairness

\* Every request of the floor and of the calendar comes to its end: whoever waits for a lock gets it
\* or is sent away.
RequestsAnswered == FloorAnswered /\ BookingAnswered

\* Every variable of the component at work holds a value of its kind; the others keep theirs.
OfficeTypeOK ==
  CASE desk = "refunds"   -> RefundTypeOK
    [] desk = "shopDay"   -> ShopDayTypeOK
    [] desk = "floor"     -> FloorTypeOK
    [] desk = "booking"   -> BookingTypeOK
    [] desk = "clients"   -> ClientTypeOK
    [] desk = "floorPage" -> FloorPageTypeOK
    [] desk = "joinPage"  -> JoinPageTypeOK
=============================================================================
