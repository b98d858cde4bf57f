------------------------------ MODULE Clients ------------------------------
(***************************************************************************)
(* The client directory: client-lookup.ts, through which check-in, join    *)
(* and booking find or make a profile, and updateProfile of                *)
(* clients.service.ts.  A profile made by a request carries its name here. *)
(* The requests run in READ COMMITTED transactions and lock what they      *)
(* write; only the active binding of a phone number is unique.             *)
(***************************************************************************)
EXTENDS Integers, FiniteSets

CONSTANTS
  Intakes,   \* requests that look up a number, make a profile or edit one; each is sent once
  Regulars,  \* the clients there are at first
  Names,     \* names as findExactNameMatch compares them: trimmed, single spaces, lower case
  Numbers,   \* normalized phone numbers
  NoNumber,  \* the empty or absent number
  Unasked,   \* a field the edit leaves alone
  Wishes,    \* what the requests may ask for, a bound on the model
  Directory  \* the profiles there are at first

Clients == Regulars \cup Intakes
Profile == [name: Names, number: Numbers \cup {NoNumber}]
Wish    == [kind: {"intake", "another", "edit"}, client: Regulars, name: Names \cup {Unasked},
            number: Numbers \cup {NoNumber, Unasked}]
Binding == [number: Numbers, client: Clients, by: Clients]

ASSUME ClientConstants ==
  /\ Wishes \subseteq [Intakes -> Wish] /\ Wishes # {}
  /\ Directory \in [Regulars -> Profile]
  /\ Regulars \cap Intakes = {} /\ NoNumber \notin Numbers
  /\ Unasked \notin Names \cup Numbers \cup {NoNumber}

\* Who is taken in names himself and a number; the directory has no twins at first.
ASSUME IntakesName ==
  /\ \A w \in Wishes : \A r \in Intakes : w[r].kind # "edit" => w[r].name \in Names /\ w[r].number \in Numbers
  /\ \A c, d \in Regulars : (Directory[c] = Directory[d] /\ Directory[c].number \in Numbers) => c = d

VARIABLES
  wish,      \* what each request asks for
  intakePc,  \* the statement each handler is about to execute
  readAs,    \* the profile each edit has read
  knew,      \* the profiles there were when each request looked for a duplicate
  draft,     \* the profile each transaction has written, or nothing
  aimed,     \* the bindings its update has found in its snapshot
  superseded,\* the bindings each transaction has superseded and so holds locked
  bound,     \* the transactions that have inserted their binding
  profile,   \* the committed profiles
  bindings   \* the committed active rows of phone_bindings

clientVars ==
  <<wish, intakePc, readAs, knew, draft, aimed, superseded, bound, profile, bindings>>

NoDraft == [name |-> Unasked]

Reachable == {c \in Regulars : Directory[c].number \in Numbers}

ClientInit ==
  /\ wish \in Wishes
  /\ intakePc = [r \in Intakes |-> IF wish[r].kind = "another" THEN "check" ELSE "idle"]
  /\ profile = Directory
  /\ readAs = [r \in Intakes |-> profile[wish[r].client]]
  /\ knew = [r \in Intakes |-> {}]
  /\ draft = [r \in Intakes |-> NoDraft]
  /\ aimed = [r \in Intakes |-> {}] /\ superseded = [r \in Intakes |-> {}] /\ bound = {}
  /\ bindings \in {B \in SUBSET {[number |-> profile[c].number, client |-> c, by |-> c] : c \in Reachable} :
                     /\ \A x, y \in B : x.number = y.number => x = y
                     /\ \A c \in Reachable : \E x \in B : x.number = profile[c].number}

-----------------------------------------------------------------------------
IntakeGoto(r, step) == intakePc' = [intakePc EXCEPT ![r] = step]

Subject(r) == IF wish[r].kind = "edit" THEN wish[r].client ELSE r
Holders(n) == {c \in DOMAIN profile : profile[c].number = n}
Drafted(r) == draft[r] # NoDraft

\* findClientByPhone: a number on file is its first client, any other one makes a profile.
LookUp(r) ==
  /\ intakePc[r] = "idle" /\ wish[r].kind = "intake"
  /\ IntakeGoto(r, IF Holders(wish[r].number) # {} THEN "done" ELSE "check")
  /\ UNCHANGED <<wish, readAs, knew, draft, aimed, superseded, bound, profile, bindings>>

ReadProfile(r) ==
  /\ intakePc[r] = "idle" /\ wish[r].kind = "edit"
  /\ readAs' = [readAs EXCEPT ![r] = profile[wish[r].client]]
  /\ IntakeGoto(r, "write")
  /\ UNCHANGED <<wish, knew, draft, aimed, superseded, bound, profile, bindings>>

Duplicates_OnFileOnly(r) ==
  {c \in Holders(wish[r].number) : wish[r].kind = "intake" /\ profile[c].name = wish[r].name}

\* The committed profiles of the number that have the name.
Duplicates(r) == {c \in Holders(wish[r].number) : profile[c].name = wish[r].name}

\* createClient looks for a duplicate and inserts the profile.
Create(r) ==
  /\ intakePc[r] = "check"
  /\ knew' = [knew EXCEPT ![r] = DOMAIN profile]
  /\ IF Duplicates(r) # {}
     THEN IntakeGoto(r, "refused") /\ UNCHANGED draft
     ELSE /\ draft' = [draft EXCEPT ![r] = [name |-> wish[r].name, number |-> wish[r].number]]
          /\ IntakeGoto(r, "aim")
  /\ UNCHANGED <<wish, readAs, aimed, superseded, bound, profile, bindings>>

\* updateProfile writes every column, those it was not asked to change as it has read them.
\* An edit that clears the number leaves its binding.
Edit(r) ==
  LET c == wish[r].client
      name   == IF wish[r].name = Unasked THEN readAs[r].name ELSE wish[r].name
      number == IF wish[r].number = Unasked THEN readAs[r].number ELSE wish[r].number
  IN  /\ intakePc[r] = "write"
      /\ \A u \in Intakes \ {r} : Drafted(u) => Subject(u) # c
      /\ draft' = [draft EXCEPT ![r] = [name |-> name, number |-> number]]
      /\ IntakeGoto(r, IF number \in Numbers /\ number # readAs[r].number THEN "aim" ELSE "commit")
      /\ UNCHANGED <<wish, readAs, knew, aimed, superseded, bound, profile, bindings>>

\* What is to be superseded: whoever holds the number of a new profile; the client's own number
\* when he gets another.
Aims(r) ==
  {x \in bindings : IF wish[r].kind = "edit" THEN x.client = wish[r].client
                    ELSE x.number = draft[r].number}

\* An update works on the rows of its snapshot ...
Aim(r) ==
  /\ intakePc[r] = "aim"
  /\ aimed' = [aimed EXCEPT ![r] = Aims(r)]
  /\ IntakeGoto(r, "supersede")
  /\ UNCHANGED <<wish, readAs, knew, draft, superseded, bound, profile, bindings>>

AwaitsBinding(r, u) ==
  /\ u # r
  /\ \/ intakePc[r] = "supersede" /\ aimed[r] \cap superseded[u] # {}
     \/ intakePc[r] = "bind" /\ \/ u \in bound /\ draft[u].number = draft[r].number
                                \/ \E x \in superseded[u] : x.number = draft[r].number
     \/ intakePc[r] = "write" /\ Drafted(u) /\ Subject(u) = wish[r].client
Clear(r) == \A u \in Intakes : ~AwaitsBinding(r, u)

\* ... waits for those another transaction has locked, and passes over those it has changed.
Supersede(r) ==
  /\ intakePc[r] = "supersede" /\ Clear(r)
  /\ superseded' = [superseded EXCEPT ![r] = aimed[r] \cap bindings]
  /\ IntakeGoto(r, "bind")
  /\ UNCHANGED <<wish, readAs, knew, draft, aimed, bound, profile, bindings>>

RollBackIntake(r, step) ==
  /\ IntakeGoto(r, step)
  /\ draft' = [draft EXCEPT ![r] = NoDraft]
  /\ superseded' = [superseded EXCEPT ![r] = {}]
  /\ bound' = bound \ {r}

\* The unique index waits for a transaction that inserts or supersedes a binding of the number,
\* and refuses a second active one.
Bind(r) ==
  /\ intakePc[r] = "bind" /\ Clear(r)
  /\ IF \E x \in bindings \ superseded[r] : x.number = draft[r].number
     THEN RollBackIntake(r, "refused")
     ELSE /\ bound' = bound \cup {r}
          /\ IntakeGoto(r, "commit")
          /\ UNCHANGED <<draft, superseded>>
  /\ UNCHANGED <<wish, readAs, knew, aimed, profile, bindings>>

CommitIntake(r) ==
  /\ intakePc[r] = "commit"
  /\ profile' = [c \in DOMAIN profile \cup {Subject(r)} |-> IF c = Subject(r) THEN draft[r] ELSE profile[c]]
  /\ bindings' = (bindings \ superseded[r])
                   \cup {[number |-> draft[r].number, client |-> Subject(r), by |-> r] : u \in bound \cap {r}}
  /\ RollBackIntake(r, "done")
  /\ UNCHANGED <<wish, readAs, knew, aimed>>

\* The client hangs up, the server stops, the COMMIT fails, or two edits wait for each other.
DropIntake(r) ==
  /\ intakePc[r] \in {"check", "write", "aim", "supersede", "bind", "commit"}
  /\ RollBackIntake(r, "dropped")
  /\ UNCHANGED <<wish, readAs, knew, aimed, profile, bindings>>

ClientNext ==
  \E r \in Intakes :
    \/ LookUp(r) \/ ReadProfile(r) \/ Create(r) \/ Edit(r) \/ Aim(r) \/ Supersede(r)
    \/ Bind(r) \/ CommitIntake(r) \/ DropIntake(r)

ClientSpec == ClientInit /\ [][ClientNext]_clientVars

-----------------------------------------------------------------------------
ClientTypeOK ==
  /\ wish \in [Intakes -> Wish]
  /\ intakePc \in [Intakes -> {"idle", "check", "write", "aim", "supersede", "bind", "commit",
                               "done", "refused", "dropped"}]
  /\ \A r \in Intakes : /\ readAs[r] \in Profile /\ knew[r] \subseteq Clients
                        /\ draft[r] \in Profile \cup {NoDraft}
                        /\ aimed[r] \subseteq Binding /\ superseded[r] \subseteq Binding
  /\ bound \subseteq Intakes
  /\ DOMAIN profile \subseteq Clients /\ \A c \in DOMAIN profile : profile[c] \in Profile
  /\ bindings \subseteq Binding

EditsOf(c) == {r \in Intakes : wish[r].kind = "edit" /\ wish[r].client = c /\ intakePc[r] = "done"}

\* Two profiles have one name and one number only when one of them was edited, which looks for no
\* duplicate, or when neither request saw the other's profile; and then one of them looked for the
\* bindings when the other, or a third of the household, had bound the number meanwhile.
TwinsNeedOverlap ==
  \A c, d \in DOMAIN profile :
    (c # d /\ profile[c] = profile[d] /\ profile[c].number \in Numbers) =>
      \/ EditsOf(c) \cup EditsOf(d) # {}
      \/ /\ {c, d} \subseteq Intakes
         /\ c \notin knew[d] /\ d \notin knew[c]
         /\ \E x \in {c, d} : \E b \in aimed[x] : b.by \in Intakes \ knew[x]

\* The active binding of a number is a client's who has the number, but for a client whose number
\* was cleared, and one whose edits overlapped, the later of them with a profile from before.
BindingIsTheProfiles ==
  \A x \in bindings :
    profile[x.client].number # x.number =>
      \/ profile[x.client].number = NoNumber
      \/ \E r, u \in EditsOf(x.client) : r # u /\ readAs[r] = readAs[u]

\* The directory has one profile of a person and one client for a number, overlaps apart.
DirectoryHolds == TwinsNeedOverlap /\ BindingIsTheProfiles
=============================================================================
