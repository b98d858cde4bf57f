----------------------------- MODULE Management -----------------------------
(***************************************************************************)
(* The shop's management, each component at a desk of its own: settings,   *)
(* schedule and pay, the connections the requests run on, the sessions,    *)
(* and what the board, the schedule page, the reports and the dashboards   *)
(* make of the tables.  The components share no rows here and take no      *)
(* steps together, so a behaviour is spent at one desk.                    *)
(***************************************************************************)
EXTENDS Successions, Settings, Sanitation, Pool, Sessions, FloorBoard, Grid, Reports, Dashboard,
        CheckoutPanel

VARIABLE desk

managementVars == <<desk, successionVars, settingsVars, sanitationVars, poolVars, sessionVars,
                    boardVars, gridVars, reportVars, dashboardVars, panelVars>>

-----------------------------------------------------------------------------
ManagementInit ==
  /\ desk \in {"successions", "settings", "sanitation", "pool", "sessions", "board", "grid",
               "reports", "dashboard", "panel"}
  /\ SuccessionInit /\ (desk # "successions" => order = CHOOSE o \in Orders : TRUE)
  /\ SettingsInit
  /\ desk # "settings" => edit = (CHOOSE e \in Edits : TRUE) /\ settings = CHOOSE s \in Starts : TRUE
  /\ SanitationInit
  /\ desk # "sanitation" => duty = (CHOOSE d \in Duties : TRUE) /\ ~reminder.enabled
                            /\ reminder.interval = CHOOSE i \in Intervals : TRUE
  /\ PoolInit       /\ (desk # "pool" => person = CHOOSE b \in Batches : TRUE)
  /\ SessionInit
  /\ BoardInit
  /\ desk # "board" => line = (CHOOSE l \in Lines : TRUE) /\ floor = CHOOSE f \in Floors : TRUE
  /\ GridInit
  /\ ReportInit
  /\ DashboardInit  /\ (desk # "dashboard" => looker = "staff")
  /\ CheckoutPanelInit /\ (desk # "panel" => \A q \in Queries : Loaded(q))

\* The desks at which nothing happens.
Elsewhere(here) ==
  /\ desk = here
  /\ here # "successions" => UNCHANGED successionVars
  /\ here # "settings"    => UNCHANGED settingsVars
  /\ here # "sanitation"  => UNCHANGED sanitationVars
  /\ here # "pool"        => UNCHANGED poolVars
  /\ here # "sessions"    => UNCHANGED sessionVars
  /\ here # "board"       => UNCHANGED boardVars
  /\ here # "grid"        => UNCHANGED gridVars
  /\ here # "reports"     => UNCHANGED reportVars
  /\ here # "dashboard"   => UNCHANGED dashboardVars
  /\ here # "panel"       => UNCHANGED panelVars

ManagementNext ==
  /\ UNCHANGED desk
  /\ \/ Elsewhere("successions") /\ SuccessionNext
     \/ Elsewhere("settings")    /\ SettingsNext
     \/ Elsewhere("sanitation")  /\ SanitationNext
     \/ Elsewhere("pool")        /\ PoolNext
     \/ Elsewhere("sessions")    /\ SessionNext
     \/ Elsewhere("board")       /\ BoardNext
     \/ Elsewhere("grid")        /\ GridNext
     \/ Elsewhere("reports")     /\ ReportNext
     \/ Elsewhere("dashboard")   /\ DashboardNext
     \/ Elsewhere("panel")       /\ CheckoutPanelNext

ManagementSpec == ManagementInit /\ [][ManagementNext]_managementVars

-----------------------------------------------------------------------------
(* What costs much to evaluate is evaluated at its own desk: nothing changes elsewhere. *)

\* Every variable of a component holds a value of its kind.
ManagementTypeOK ==
  CASE desk = "successions" -> SuccessionTypeOK
    [] desk = "settings"    -> SettingsTypeOK
    [] desk = "sanitation"  -> SanitationTypeOK
    [] desk = "pool"        -> PoolTypeOK
    [] desk = "sessions"    -> SessionTypeOK
    [] desk = "board"       -> BoardTypeOK
    [] desk = "grid"        -> GridTypeOK
    [] desk = "reports"     -> ReportTypeOK
    [] desk = "dashboard"   -> DashboardTypeOK
    [] desk = "panel"       -> CheckoutPanelTypeOK

\* What the board plans can be carried out, one odd reading does not overturn it, and the phones agree.
BoardPlansSoundly == desk = "board" => PlanIsSound

\* Every reader of the schedule counts the same people and the same chairs.
ScheduleReadAlike == desk = "grid" => GridIsOneStory
=============================================================================
