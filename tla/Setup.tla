-------------------------------- MODULE Setup --------------------------------
(***************************************************************************)
(* Accounts, sessions and the first-run wizard: the routes of              *)
(* server/routes/setup-routes.ts and auth-routes.ts over auth/auth-store.ts*)
(* and the wizard of apps/ui/src/oobe in several browsers.                 *)
(*                                                                         *)
(* A handler without an await is one step together with its answer; the    *)
(* two that await a password hash, create-admin and login, are a request r *)
(* with a beginning and an end, and r also names the account, the recovery *)
(* code and the session it makes.  Progress is saved without waiting for   *)
(* an answer, so the saves in flight arrive in any order or not at all.    *)
(***************************************************************************)
EXTENDS Naturals, FiniteSets

CONSTANTS
  Browsers,   \* browsers with their cookies
  Names,      \* user names an administrator may take
  Requests,   \* create-admin and login requests that can be made
  Nobody,     \* no request, no session, no code
  Admin,      \* number of the step that creates the administrator; the step
              \* after it shows the recovery code
  Review,     \* number of the last step
  MaxSlips,   \* bound: steps back, reloads, lost answers, crashes, ...
  MaxResets   \* bound: runs of frolo-reset-setup

ASSUME StepsAssumption ==
  /\ {Admin, Review} \subseteq Nat
  /\ Admin + 1 < Review
ASSUME RequestsAssumption == Nobody \notin Requests
ASSUME BoundsAssumption == {MaxSlips, MaxResets} \subseteq Nat

VARIABLES
  account,    \* rows of table account
  session,    \* rows of table session that have not expired
  completed,  \* setup_state.completed
  saved,      \* setup_state.progress_json: the step, and flags
  wrapped,    \* the request whose code opens recovery.wrapped.json
  job,        \* requests that await a hash
  resetting,  \* frolo-reset-setup is between its two statements
  page,       \* what a browser shows: "out", "setup", "login", "panel"
  at,         \* the wizard's step
  knows,      \* what the wizard takes for done (OobeState)
  shown,      \* the recovery code the wizard holds
  cookie,     \* the session cookie
  csrf,       \* browsers that hold a CSRF cookie
  waits,      \* the request a browser waits for
  saves,      \* steps of the progress saves in flight
  slips, resets,  \* used up of the bounds
  overlapped  \* two create-admin requests were ever hashing at once

tables == <<account, session, completed, saved, wrapped>>
wizard == <<page, at, knows, shown>>
cookies == <<cookie, csrf>>
bounds == <<slips, resets, overlapped>>
vars == <<tables, job, resetting, wizard, cookies, waits, saves, bounds>>

\* The flag of the saved progress that the wizard reads again for a step it
\* asks of the user; those of the steps that can be passed by are left out.
Flags == {"recovery"}
MaybeRequest == Requests \cup {Nobody}

Idle == [kind |-> "admin", name |-> Nobody,
         owner |-> Nobody, stage |-> "free"]

\* A request that was answered, or will never be.
Ended(j, how) == [kind |-> j.kind, name |-> Nobody, owner |-> Nobody, stage |-> how]

-----------------------------------------------------------------------------
(* Sessions *)

\* AuthStore.resolveSession: the account of a session, if both still exist.
Resolves(t) ==
  \E s \in session : s.token = t /\ \E a \in account : a.id = s.owner

\* requireAuth with checkCsrf: the two cookies are issued together.
Authed(b) == Resolves(cookie[b]) /\ b \in csrf

\* createSession: a token of its own for every session.
CreateSession(r, owner) == session' = session \cup {[token |-> r, owner |-> owner]}

OwnerOf(t) == {s.owner : s \in {x \in session : x.token = t}}

-----------------------------------------------------------------------------
(* What a browser shows *)

\* Bootstrap, Gate and the effect of Oobe that resumes the saved progress: the
\* page a browser with cookie t comes to when it asks for the panel.
Enter(b, t, done) ==
  /\ page' = [page EXCEPT ![b] =
       IF ~done THEN "setup" ELSE IF Resolves(t) THEN "panel" ELSE "login"]
  /\ at' = [at EXCEPT ![b] = IF done THEN 0 ELSE saved.step]
  /\ knows' = [knows EXCEPT ![b] =
       IF done THEN {} ELSE saved.flags \cup (IF account # {} THEN {"admin"} ELSE {})]
  /\ shown' = [shown EXCEPT ![b] = Nobody]

\* goNext: to the step after s, and a save of it nobody waits for; without a
\* CSRF cookie the server refuses the save and persist ignores it.
Advance(b, s, learnt, mayPost) ==
  LET next == IF s < Review THEN s + 1 ELSE Review IN
    /\ at' = [at EXCEPT ![b] = next]
    /\ knows' = [knows EXCEPT ![b] = @ \cup learnt]
    /\ saves' = IF mayPost THEN saves \cup {next} ELSE saves

\* Opening the panel, and reloading it: the wizard's memory is gone.
Load(b) ==
  /\ waits[b] = Nobody
  /\ page[b] # "out" => slips < MaxSlips
  /\ slips' = IF page[b] = "out" THEN slips ELSE slips + 1
  /\ Enter(b, cookie[b], completed)
  /\ UNCHANGED <<tables, job, resetting, cookies, waits, saves, resets, overlapped>>

\* The Continue and Skip buttons of the steps that have one.
Continue(b) ==
  /\ page[b] = "setup"
  /\ at[b] \notin {Admin, Admin + 1, Review}
  /\ Advance(b, at[b], {}, b \in csrf)
  /\ UNCHANGED <<tables, job, resetting, page, shown, cookies, waits, bounds>>

\* Mutant of Back: neither the disabled button nor Math.max at the first step.
BackPastFirst(b) ==
  /\ page[b] = "setup"
  /\ slips < MaxSlips /\ slips' = slips + 1
  /\ at' = [at EXCEPT ![b] = @ - 1]
  /\ UNCHANGED <<tables, job, resetting, page, knows, shown, cookies, waits, saves,
                 resets, overlapped>>

\* goBack: not saved, and possible while a request is under way.
Back(b) ==
  /\ page[b] = "setup" /\ at[b] > 0
  /\ slips < MaxSlips /\ slips' = slips + 1
  /\ at' = [at EXCEPT ![b] = @ - 1]
  /\ UNCHANGED <<tables, job, resetting, page, knows, shown, cookies, waits, saves,
                 resets, overlapped>>

-----------------------------------------------------------------------------
(* POST /api/setup/create-admin *)

\* Mutant of BeginAdmin: the handler does not ask whether there is an account.
BeginAdminUnchecked(b, r, n) ==
  /\ page[b] = "setup" /\ at[b] = Admin /\ "admin" \notin knows[b]
  /\ waits[b] = Nobody /\ job[r].stage = "free"
  /\ job' = [job EXCEPT ![r] = [kind |-> "admin", name |-> n,
                                owner |-> Nobody, stage |-> "begun"]]
  /\ waits' = [waits EXCEPT ![b] = r]
  /\ overlapped' = (overlapped \/ \E q \in Requests :
                      job[q].stage = "begun" /\ job[q].kind = "admin")
  /\ UNCHANGED <<tables, resetting, wizard, cookies, saves, slips, resets>>

\* AdminStep.create and the handler up to the hash; with an account there the
\* answer is 409 and nothing changes.
BeginAdmin(b, r, n) ==
  /\ page[b] = "setup" /\ at[b] = Admin /\ "admin" \notin knows[b]
  /\ waits[b] = Nobody /\ job[r].stage = "free"
  /\ account = {}
  /\ job' = [job EXCEPT ![r] = [kind |-> "admin", name |-> n,
                                owner |-> Nobody, stage |-> "begun"]]
  /\ waits' = [waits EXCEPT ![b] = r]
  /\ overlapped' = (overlapped \/ \E q \in Requests :
                      job[q].stage = "begun" /\ job[q].kind = "admin")
  /\ UNCHANGED <<tables, resetting, wizard, cookies, saves, slips, resets>>

\* The account, then the wrapped key, then the session.  The name may be taken
\* by now (UNIQUE), and the key file may fail to be written: the answer is an
\* error, with the account there in the second case.
StoreAdmin(r) ==
  account' = account \cup {[id |-> r, name |-> job[r].name]}

\* The wrapped key that the code shown for account r opens.
CreateRecovery(r) == wrapped' = r

EndAdmin(r) ==
  /\ job[r].stage = "begun" /\ job[r].kind = "admin"
  /\ \/ /\ \A a \in account : a.name # job[r].name
        /\ StoreAdmin(r)
        /\ CreateRecovery(r)
        /\ CreateSession(r, r)
        /\ job' = [job EXCEPT ![r] = Ended(@, "answered")]
        /\ UNCHANGED slips
     \/ /\ \A a \in account : a.name # job[r].name
        /\ slips < MaxSlips /\ slips' = slips + 1
        /\ StoreAdmin(r)
        /\ job' = [job EXCEPT ![r] = Ended(@, "failed")]
        /\ UNCHANGED <<wrapped, session>>
     \/ /\ \E a \in account : a.name = job[r].name
        /\ job' = [job EXCEPT ![r] = Ended(@, "failed")]
        /\ UNCHANGED <<account, wrapped, session, slips>>
  /\ UNCHANGED <<completed, saved, resetting, wizard, cookies,
                 waits, saves, resets, overlapped>>

-----------------------------------------------------------------------------
(* POST /api/auth/login *)

\* getAccountByUsername
Named(n) == {a \in account : a.name = n}

\* The look-up of the account, and the comparison begun; owner is Nobody when
\* the name or the password is wrong.  An attempt over the limit is answered at
\* once and changes nothing here: the limiter's counts are left out.
BeginLogin(b, r, n, right) ==
  /\ page[b] = "login" /\ waits[b] = Nobody /\ job[r].stage = "free"
  /\ job' = [job EXCEPT ![r] =
       [kind |-> "login", name |-> Nobody, stage |-> "begun",
        owner |-> IF right /\ Named(n) # {}
                  THEN (CHOOSE a \in Named(n) : TRUE).id
                  ELSE Nobody]]
  /\ waits' = [waits EXCEPT ![b] = r]
  /\ UNCHANGED <<account, session, completed, saved, wrapped, resetting,
                 wizard, cookies, saves, bounds>>

\* After the comparison; the account is not looked up again, so a reset in
\* between leaves a session of an account that is gone.
EndLogin(r) ==
  /\ job[r].stage = "begun" /\ job[r].kind = "login"
  /\ IF job[r].owner = Nobody
     THEN /\ job' = [job EXCEPT ![r] = Ended(@, "failed")]
          /\ UNCHANGED session
     ELSE /\ job' = [job EXCEPT ![r] = Ended(@, "answered")]
          /\ CreateSession(r, job[r].owner)
  /\ UNCHANGED <<account, completed, saved, wrapped, resetting, wizard,
                 cookies, waits, saves, bounds>>

-----------------------------------------------------------------------------
(* The answers *)

\* onCreated: goNext of the wizard as it was at the click, with the code.
HearAdmin(b) ==
  LET r == waits[b] IN
  /\ r # Nobody /\ job[r].stage = "answered" /\ job[r].kind = "admin"
  /\ cookie' = [cookie EXCEPT ![b] = r] /\ csrf' = csrf \cup {b}
  /\ waits' = [waits EXCEPT ![b] = Nobody]
  /\ shown' = [shown EXCEPT ![b] = r]
  /\ Advance(b, Admin, {"admin"}, TRUE)
  /\ UNCHANGED <<tables, job, resetting, page, bounds>>

\* onLoggedIn: Bootstrap asks again where to go.
HearLogin(b) ==
  LET r == waits[b] IN
  /\ r # Nobody /\ job[r].stage = "answered" /\ job[r].kind = "login"
  /\ cookie' = [cookie EXCEPT ![b] = r] /\ csrf' = csrf \cup {b}
  /\ waits' = [waits EXCEPT ![b] = Nobody]
  /\ Enter(b, r, completed)
  /\ UNCHANGED <<tables, job, resetting, saves, bounds>>

\* An error is shown and the browser stays where it is.
HearError(b) ==
  /\ waits[b] # Nobody /\ job[waits[b]].stage = "failed"
  /\ waits' = [waits EXCEPT ![b] = Nobody]
  /\ UNCHANGED <<tables, job, resetting, wizard, cookies, saves, bounds>>

\* The connection breaks: the browser sees an error, the handler goes on.
Drop(b) ==
  /\ waits[b] # Nobody /\ slips < MaxSlips /\ slips' = slips + 1
  /\ waits' = [waits EXCEPT ![b] = Nobody]
  /\ UNCHANGED <<tables, job, resetting, wizard, cookies, saves, resets, overlapped>>

-----------------------------------------------------------------------------
(* The other routes of the wizard *)

\* POST /api/setup/progress: the whole progress is replaced by what the wizard
\* sends, the step (the mode and node beside it are not modelled).
DeliverSave(s) ==
  /\ s \in saves /\ saves' = saves \ {s}
  /\ saved' = IF completed THEN saved ELSE [step |-> s, flags |-> {}]
  /\ UNCHANGED <<account, session, completed, wrapped, job,
                 resetting, wizard, cookies, waits, bounds>>

LoseSave(s) ==
  /\ s \in saves /\ saves' = saves \ {s}
  /\ slips < MaxSlips /\ slips' = slips + 1
  /\ UNCHANGED <<tables, job, resetting, wizard, cookies, waits, resets, overlapped>>

\* The other routes keep the saved progress and add a flag to it.
AddFlags(new) == saved' = [saved EXCEPT !.flags = @ \cup new]

\* Mutant of Confirm: onConfirmed does not go to the next step.
ConfirmAndStay(b) ==
  /\ page[b] = "setup" /\ at[b] = Admin + 1 /\ shown[b] # Nobody
  /\ Authed(b)
  /\ AddFlags({"recovery"})
  /\ knows' = [knows EXCEPT ![b] = @ \cup {"recovery"}]
  /\ UNCHANGED <<account, session, completed, wrapped, job, resetting, page, at,
                 shown, cookies, waits, saves, bounds>>

\* RecoveryStep with the code: POST /api/setup/confirm-recovery, then goNext.
Confirm(b) ==
  /\ page[b] = "setup" /\ at[b] = Admin + 1 /\ shown[b] # Nobody
  /\ Authed(b)
  /\ AddFlags({"recovery"})
  /\ Advance(b, at[b], {"recovery"}, TRUE)
  /\ UNCHANGED <<account, session, completed, wrapped, job,
                 resetting, page, shown, cookies, waits, bounds>>

\* RecoveryStep without the code (after a reload) lets anyone pass.
PassRecovery(b) ==
  /\ page[b] = "setup" /\ at[b] = Admin + 1 /\ shown[b] = Nobody
  /\ Advance(b, at[b], {"recovery"}, b \in csrf)
  /\ UNCHANGED <<tables, job, resetting, page, shown, cookies, waits, bounds>>

\* Mutant of Finish: the route asks neither for a session nor for an account.
FinishUnchecked(b) ==
  /\ page[b] = "setup" /\ at[b] = Review
  /\ completed' = TRUE
  /\ Enter(b, cookie[b], TRUE)
  /\ UNCHANGED <<account, session, saved, wrapped, job, resetting, cookies,
                 waits, saves, bounds>>

\* The Finish button: POST /api/setup/complete, then the panel.
Finish(b) ==
  /\ page[b] = "setup" /\ at[b] = Review
  /\ Authed(b) /\ account # {}
  /\ completed' = TRUE
  /\ Enter(b, cookie[b], TRUE)
  /\ UNCHANGED <<account, session, saved, wrapped, job, resetting, cookies,
                 waits, saves, bounds>>

-----------------------------------------------------------------------------
(* Ends of sessions, crashes, and the reset command *)

\* Shell.doLogout: a refused logout leaves the cookies; both come to Bootstrap.
\* everywhere: POST /api/auth/logout-all.
Logout(b, everywhere) ==
  /\ page[b] = "panel" /\ slips < MaxSlips /\ slips' = slips + 1
  /\ page' = [page EXCEPT ![b] = "login"]
  /\ IF Authed(b)
     THEN /\ session' = {s \in session :
               IF everywhere THEN s.owner \notin OwnerOf(cookie[b])
                             ELSE s.token # cookie[b]}
          /\ cookie' = [cookie EXCEPT ![b] = Nobody] /\ csrf' = csrf \ {b}
     ELSE UNCHANGED <<session, cookies>>
  /\ UNCHANGED <<account, completed, saved, wrapped, job, resetting,
                 at, knows, shown, waits, saves, resets, overlapped>>

\* A session's time is over: resolveSession deletes it at the next sight of it.
Expire ==
  /\ slips < MaxSlips /\ slips' = slips + 1
  /\ \E s \in session : session' = session \ {s}
  /\ UNCHANGED <<account, completed, saved, wrapped, job, resetting,
                 wizard, cookies, waits, saves, resets, overlapped>>

\* The server dies and is started again: the requests that hash are lost.
Crash ==
  /\ slips < MaxSlips /\ slips' = slips + 1
  /\ \E r \in Requests : job[r].stage = "begun"
  /\ job' = [r \in Requests |-> IF job[r].stage = "begun"
                                THEN Ended(job[r], "failed") ELSE job[r]]
  /\ UNCHANGED <<tables, resetting, wizard, cookies, waits, saves, resets, overlapped>>

\* frolo-reset-setup, a process of its own: AuthStore.resetSetup first deletes
\* sessions and accounts ...
ResetAccounts ==
  /\ ~resetting /\ resets < MaxResets /\ resets' = resets + 1
  /\ resetting' = TRUE
  /\ session' = {} /\ account' = {}
  /\ UNCHANGED <<completed, saved, wrapped, job, wizard, cookies, waits,
                 saves, slips, overlapped>>

\* ... and then opens setup again.
ResetSetup ==
  /\ resetting /\ resetting' = FALSE
  /\ completed' = FALSE
  /\ saved' = [step |-> 0, flags |-> {}]
  /\ UNCHANGED <<account, session, wrapped, job, wizard, cookies,
                 waits, saves, bounds>>

-----------------------------------------------------------------------------
Init ==
  /\ account = {} /\ session = {} /\ completed = FALSE
  /\ saved = [step |-> 0, flags |-> {}]
  /\ wrapped = Nobody
  /\ job = [r \in Requests |-> Idle]
  /\ resetting = FALSE
  /\ page = [b \in Browsers |-> "out"] /\ at = [b \in Browsers |-> 0]
  /\ knows = [b \in Browsers |-> {}] /\ shown = [b \in Browsers |-> Nobody]
  /\ cookie = [b \in Browsers |-> Nobody] /\ csrf = {}
  /\ waits = [b \in Browsers |-> Nobody] /\ saves = {}
  /\ slips = 0 /\ resets = 0 /\ overlapped = FALSE

\* A user who goes forward: every button that leads on.
Forward(b) ==
  \/ Continue(b) \/ Confirm(b) \/ PassRecovery(b) \/ Finish(b)
  \/ HearAdmin(b) \/ HearLogin(b) \/ HearError(b)

Next ==
  \/ \E b \in Browsers :
       \/ Forward(b) \/ Load(b) \/ Back(b) \/ Drop(b)
       \/ \E everywhere \in BOOLEAN : Logout(b, everywhere)
       \/ \E r \in Requests, n \in Names :
            \/ BeginAdmin(b, r, n)
            \/ \E right \in BOOLEAN : BeginLogin(b, r, n, right)
  \/ \E r \in Requests : EndAdmin(r) \/ EndLogin(r)
  \/ \E s \in saves : DeliverSave(s) \/ LoseSave(s)
  \/ Expire \/ Crash \/ ResetAccounts \/ ResetSetup

\* The server finishes what it began, and a user in the wizard goes on.
Fairness ==
  /\ \A r \in Requests : WF_vars(EndAdmin(r) \/ EndLogin(r))
  /\ \A b \in Browsers : WF_vars(Forward(b))
  /\ WF_vars(ResetSetup)

Spec == Init /\ [][Next]_vars /\ Fairness

-----------------------------------------------------------------------------
(* Properties *)

Job == [kind : {"admin", "login"}, name : Names \cup {Nobody}, owner : MaybeRequest,
        stage : {"free", "begun", "answered", "failed"}]

SetupTypeOK ==
  /\ account \in SUBSET [id : Requests, name : Names]
  /\ session \in SUBSET [token : Requests, owner : Requests]
  /\ completed \in BOOLEAN /\ resetting \in BOOLEAN /\ overlapped \in BOOLEAN
  /\ saved \in [step : 0..Review, flags : SUBSET Flags]
  /\ wrapped \in MaybeRequest
  /\ job \in [Requests -> Job]
  /\ page \in [Browsers -> {"out", "setup", "login", "panel"}]
  /\ at \in [Browsers -> 0..Review]
  /\ knows \in [Browsers -> SUBSET {"admin", "recovery"}]
  /\ shown \in [Browsers -> MaybeRequest] /\ cookie \in [Browsers -> MaybeRequest]
  /\ csrf \in SUBSET Browsers
  /\ waits \in [Browsers -> MaybeRequest]
  /\ saves \in SUBSET (0..Review)
  /\ slips \in 0..MaxSlips /\ resets \in 0..MaxResets

\* There is one first administrator, and the recovery code that a browser asks
\* its user to write down is the one that opens the wrapped master key, as long
\* as its account exists; unless two create-admin requests were hashing at once
\* (setup-routes.ts:51 checks before the await of line 61, and both wrap).
AdminHasItsCode ==
  ~overlapped =>
    /\ \A a, c \in account : a = c
    /\ \A b \in Browsers :
         (\E a \in account : a.id = shown[b]) => wrapped = shown[b]

\* Setup follows the abstract first run: marked complete only while there is an
\* administrator, and opened again only by the reset command.
FirstRunOf == INSTANCE FirstRun WITH admin <- account # {}, done <- completed,
                                     wiping <- resetting
FollowsFirstRun == FirstRunOf!Spec

\* The administrator's page with the account created: it has no button on.
Stuck(b) == page[b] = "setup" /\ at[b] = Admin /\ "admin" \in knows[b]

\* A user who was shown the recovery code and keeps going forward finishes the
\* setup, whatever reloads and lost saves do, unless the session ends or the
\* wizard comes back to the administrator's page.
SetupFinishes ==
  \A b \in Browsers :
    (shown[b] # Nobody /\ Authed(b)) ~> (completed \/ ~Authed(b) \/ Stuck(b))
=============================================================================
