------------------------------ MODULE Settings ------------------------------
(***************************************************************************)
(* One table of a shop's settings (settings.service.ts) and the            *)
(* organization's defaults (org-settings.service.ts).  A save reads the    *)
(* shop's row, merges what it was asked and writes every column; a patch   *)
(* writes its columns only.  The owner's update saves a default and may    *)
(* push it to every shop, each in a transaction of its own that commits    *)
(* before the request's.                                                   *)
(***************************************************************************)
EXTENDS Integers, FiniteSets

CONSTANTS
  Editors,   \* the requests; each is sent once
  Shops,     \* the shops of the organization
  Columns,   \* the columns of the table
  Settable,  \* the values a column may have
  Factory,   \* the values a shop runs on that has no row
  NoRow,     \* what a shop has that has no row
  Original,  \* who gave a value that was there at first
  Edits,     \* what the requests may ask, a bound on the model
  Starts     \* the rows there may be at first

Filled == [Columns -> Settable]
Partial == UNION {[C -> Settable] : C \in SUBSET Columns}
EditAsked == [kind: {"save", "strictSave", "patch", "future", "all"}, shop: Shops, asks: Partial]

ASSUME SettingsConstants ==
  /\ Edits \subseteq [Editors -> EditAsked] /\ Edits # {}
  /\ Factory \in Filled /\ NoRow \notin Filled /\ Original \notin Editors
  /\ Starts \subseteq [Shops -> Filled \cup {NoRow}] /\ Starts # {}

VARIABLES
  edit,     \* what each request asks
  editPc,   \* the statement each handler is about to execute
  formRead, \* the row each save has read
  sawGiver, \* who had given each value of it
  unsaved,  \* the rows written and not committed: who holds which shop's row locked
  toPush,   \* the shops each push has still to reach
  settings, \* the committed row of each shop
  orgDefault, \* organization_settings, committed
  giver,    \* the request that last asked for the column of the shop, not a column
  given     \* the value it asked for

settingsVars == <<edit, editPc, formRead, sawGiver, unsaved, toPush, settings, orgDefault, giver, given>>

SettingsInit ==
  /\ edit \in Edits
  /\ editPc = [e \in Editors |-> "idle"]
  /\ settings \in Starts
  /\ formRead = [e \in Editors |-> Factory]
  /\ giver = [s \in Shops |-> [c \in Columns |-> Original]]
  /\ given = [s \in Shops |-> IF settings[s] = NoRow THEN Factory ELSE settings[s]]
  /\ sawGiver = [e \in Editors |-> giver[edit[e].shop]]
  /\ unsaved = [e \in Editors |-> NoRow]
  /\ toPush = [e \in Editors |-> {}]
  /\ orgDefault = Factory

-----------------------------------------------------------------------------
EditGoto(e, step) == editPc' = [editPc EXCEPT ![e] = step]

Asks(e) == DOMAIN edit[e].asks
Pushes(e) == edit[e].kind \in {"future", "all"}

\* A save looks at the row it will merge with; without one it is refused, or starts from the defaults.
ReadSettings(e) ==
  LET row == settings[edit[e].shop]
  IN  /\ editPc[e] = "idle" /\ edit[e].kind \in {"save", "strictSave"}
      /\ formRead' = [formRead EXCEPT ![e] = IF row = NoRow THEN Factory ELSE row]
      /\ sawGiver' = [sawGiver EXCEPT ![e] = giver[edit[e].shop]]
      /\ EditGoto(e, IF row = NoRow /\ edit[e].kind = "strictSave" THEN "refused" ELSE "write")
      /\ UNCHANGED <<edit, unsaved, toPush, settings, orgDefault, giver, given>>

\* A patch and an update of a default read nothing first.
BeginEdit(e) ==
  /\ editPc[e] = "idle" /\ edit[e].kind \in {"patch", "future", "all"}
  /\ EditGoto(e, IF Pushes(e) THEN "default" ELSE "write")
  /\ UNCHANGED <<edit, formRead, sawGiver, unsaved, toPush, settings, orgDefault, giver, given>>

RowLocked(e, s) == \E u \in Editors \ {e} : unsaved[u] # NoRow /\ edit[u].shop = s

Over_Blank(e, row) == [c \in Columns |-> IF c \in Asks(e) THEN edit[e].asks[c] ELSE Factory[c]]

Merged_AskedOnly(e, row) == edit[e].asks

\* What was asked over what the row had.
Over_Row(e, row) == [c \in Columns |-> IF c \in Asks(e) THEN edit[e].asks[c] ELSE row[c]]

Merged(e, row) == Over_Row(e, row)

\* The update waits for the row; a patch of a shop without a row changes none.
WriteSettings(e) ==
  LET s == edit[e].shop
  IN  /\ editPc[e] = "write" /\ ~RowLocked(e, s)
      /\ IF edit[e].kind = "patch" /\ settings[s] = NoRow
         THEN EditGoto(e, "refused") /\ UNCHANGED unsaved
         ELSE /\ unsaved' = [unsaved EXCEPT ![e] =
                               Merged(e, IF edit[e].kind = "patch" THEN settings[s] ELSE formRead[e])]
              /\ EditGoto(e, "commit")
      /\ UNCHANGED <<edit, formRead, sawGiver, toPush, settings, orgDefault, giver, given>>

Give(e, S) ==
  /\ giver' = [s \in Shops |-> [c \in Columns |-> IF s \in S /\ c \in Asks(e) THEN e ELSE giver[s][c]]]
  /\ given' = [s \in Shops |-> [c \in Columns |->
                                  IF s \in S /\ c \in Asks(e) THEN edit[e].asks[c] ELSE given[s][c]]]

CommitSettings(e) ==
  /\ editPc[e] = "commit" /\ ~Pushes(e)
  /\ settings' = [settings EXCEPT ![edit[e].shop] = unsaved[e]]
  /\ unsaved' = [unsaved EXCEPT ![e] = NoRow]
  /\ Give(e, {edit[e].shop})
  /\ EditGoto(e, "done")
  /\ UNCHANGED <<edit, formRead, sawGiver, toPush, orgDefault>>

\* The upsert of the organization's one row holds it until the request commits.
DefaultTaken(e) == \E u \in Editors \ {e} : Pushes(u) /\ editPc[u] \in {"push", "commit"}

SaveDefault(e) ==
  /\ editPc[e] = "default" /\ ~DefaultTaken(e)
  /\ toPush' = [toPush EXCEPT ![e] = IF edit[e].kind = "all" THEN Shops ELSE {}]
  /\ EditGoto(e, IF edit[e].kind = "all" THEN "push" ELSE "commit")
  /\ UNCHANGED <<edit, formRead, sawGiver, unsaved, settings, orgDefault, giver, given>>

\* runInLocationScope: an update of one column of one shop, committed at once; no row is made.
PushTo(e, s) ==
  /\ editPc[e] = "push" /\ s \in toPush[e] /\ ~RowLocked(e, s)
  /\ toPush' = [toPush EXCEPT ![e] = @ \ {s}]
  /\ EditGoto(e, IF toPush[e] = {s} THEN "commit" ELSE "push")
  /\ IF settings[s] = NoRow
     THEN UNCHANGED <<settings, giver, given>>
     ELSE settings' = [settings EXCEPT ![s] = Over_Row(e, @)] /\ Give(e, {s})
  /\ UNCHANGED <<edit, formRead, sawGiver, unsaved, orgDefault>>

CommitDefault(e) ==
  /\ editPc[e] = "commit" /\ Pushes(e)
  /\ orgDefault' = Over_Row(e, orgDefault)
  /\ EditGoto(e, "done")
  /\ UNCHANGED <<edit, formRead, sawGiver, unsaved, toPush, settings, giver, given>>

\* The client hangs up, a statement fails or the server stops: shops already pushed keep the value.
DropEdit(e) ==
  /\ editPc[e] \in {"write", "default", "push", "commit"}
  /\ EditGoto(e, "refused")
  /\ unsaved' = [unsaved EXCEPT ![e] = NoRow]
  /\ UNCHANGED <<edit, formRead, sawGiver, toPush, settings, orgDefault, giver, given>>

SettingsNext ==
  \E e \in Editors :
    \/ ReadSettings(e) \/ BeginEdit(e) \/ WriteSettings(e) \/ CommitSettings(e) \/ SaveDefault(e)
    \/ \E s \in Shops : PushTo(e, s)
    \/ CommitDefault(e) \/ DropEdit(e)

SettingsSpec == SettingsInit /\ [][SettingsNext]_settingsVars

-----------------------------------------------------------------------------
SettingsTypeOK ==
  /\ edit \in [Editors -> EditAsked]
  /\ editPc \in [Editors -> {"idle", "write", "default", "push", "commit", "done", "refused"}]
  /\ formRead \in [Editors -> Filled] /\ unsaved \in [Editors -> Filled \cup {NoRow}]
  /\ sawGiver \in [Editors -> [Columns -> Editors \cup {Original}]]
  /\ toPush \in [Editors -> SUBSET Shops]
  /\ settings \in [Shops -> Filled \cup {NoRow}] /\ orgDefault \in Filled
  /\ giver \in [Shops -> [Columns -> Editors \cup {Original}]] /\ given \in [Shops -> Filled]

\* A column has the value last asked for it, by a save, a patch or a push, unless a save that was
\* not asked for the column read the row before that request and committed after it.
RevertedOnlyByOverlap ==
  \A s \in Shops, c \in Columns :
    (settings[s] # NoRow /\ settings[s][c] # given[s][c]) =>
      \E e \in Editors : /\ editPc[e] = "done" /\ edit[e].kind \in {"save", "strictSave"}
                         /\ edit[e].shop = s /\ c \notin Asks(e)
                         /\ sawGiver[e][c] # giver[s][c]

\* Of two pushes of a column that both went through, no shop is left with the one and another
\* shop with the other.
PushesDoNotMix ==
  \A p, q \in Editors : \A s, t \in Shops : \A c \in Columns :
    (p # q /\ editPc[p] = "done" /\ editPc[q] = "done" /\ Pushes(p) /\ Pushes(q))
      => ~(giver[s][c] = p /\ giver[t][c] = q)

\* A setting that was saved is lost to no other request but a save that overlapped it.
OverwritesNeedOverlap == RevertedOnlyByOverlap /\ PushesDoNotMix
=============================================================================
