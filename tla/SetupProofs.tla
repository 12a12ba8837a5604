----------------------------- MODULE SetupProofs ------------------------------
(***************************************************************************)
(* Proofs about module Setup, for any number of browsers, names, requests, *)
(* steps, slips and resets: that it implements the abstract first run of   *)
(* module FirstRun, its types, and that the recovery code on the screen is *)
(* the one of the administrator.                                           *)
(***************************************************************************)
EXTENDS Setup, TLAPS

(* The steps that touch neither the accounts nor the marker of a finished  *)
(* setup nor the reset command: every one but four.                        *)
Quiet == UNCHANGED <<account, completed, resetting>>

LEMMA QuietSteps ==
  /\ \A b \in Browsers :
       /\ Continue(b) \/ Confirm(b) \/ PassRecovery(b) \/ HearAdmin(b) \/ HearLogin(b) => Quiet
       /\ HearError(b) \/ Load(b) \/ Back(b) \/ Drop(b) => Quiet
       /\ \A everywhere \in BOOLEAN : Logout(b, everywhere) => Quiet
       /\ \A r \in Requests, n \in Names, right \in BOOLEAN :
            BeginAdmin(b, r, n) \/ BeginLogin(b, r, n, right) => Quiet
  /\ \A r \in Requests : EndLogin(r) => Quiet
  /\ \A s : DeliverSave(s) \/ LoseSave(s) => Quiet
  /\ Expire \/ Crash \/ UNCHANGED vars => Quiet
<1> USE DEF Quiet, tables
<1>1. ASSUME NEW b \in Browsers
      PROVE  Continue(b) \/ Confirm(b) \/ PassRecovery(b) \/ HearAdmin(b) \/ HearLogin(b) => Quiet
  BY DEF Continue, Confirm, PassRecovery, HearAdmin, HearLogin
<1>2. ASSUME NEW b \in Browsers
      PROVE  HearError(b) \/ Load(b) \/ Back(b) \/ Drop(b) => Quiet
  BY DEF HearError, Load, Back, Drop
<1>3. ASSUME NEW b \in Browsers, NEW everywhere \in BOOLEAN
      PROVE  Logout(b, everywhere) => Quiet
  BY DEF Logout
<1>4. ASSUME NEW b \in Browsers, NEW r \in Requests, NEW n \in Names, NEW right \in BOOLEAN
      PROVE  BeginAdmin(b, r, n) \/ BeginLogin(b, r, n, right) => Quiet
  BY DEF BeginAdmin, BeginLogin
<1>5. ASSUME NEW r \in Requests PROVE EndLogin(r) => Quiet
  BY DEF EndLogin, CreateSession
<1>6. ASSUME NEW s PROVE DeliverSave(s) \/ LoseSave(s) => Quiet
  BY DEF DeliverSave, LoseSave
<1>7. Expire \/ Crash \/ UNCHANGED vars => Quiet
  BY DEF Expire, Crash, vars
<1>8. QED
  BY <1>1, <1>2, <1>3, <1>4, <1>5, <1>6, <1>7

(* Every step of the setup is a step of the first run or changes nothing   *)
(* of it.                                                                  *)
LEMMA StepSimulation == [Next]_vars => [FirstRunOf!Next]_(FirstRunOf!vars)
<1> SUFFICES ASSUME [Next]_vars PROVE [FirstRunOf!Next]_(FirstRunOf!vars)
  OBVIOUS
<1>1. CASE Quiet
  BY <1>1 DEF Quiet, FirstRunOf!vars
<1>2. ASSUME NEW r \in Requests, EndAdmin(r) PROVE FirstRunOf!Create \/ Quiet
  <2>1. UNCHANGED <<completed, resetting>>
    BY <1>2 DEF EndAdmin, CreateRecovery, CreateSession
  <2>2. CASE StoreAdmin(r)
    BY <2>1, <2>2 DEF StoreAdmin, FirstRunOf!Create
  <2>3. CASE account' = account
    BY <2>1, <2>3 DEF Quiet
  <2>4. QED
    BY <1>2, <2>2, <2>3 DEF EndAdmin, CreateRecovery, CreateSession
<1>3. ASSUME NEW b \in Browsers, Finish(b) PROVE FirstRunOf!Complete
  BY <1>3 DEF Finish, FirstRunOf!Complete
<1>4. CASE ResetAccounts
  BY <1>4 DEF ResetAccounts, FirstRunOf!Next, FirstRunOf!Wipe
<1>5. CASE ResetSetup
  BY <1>5 DEF ResetSetup, FirstRunOf!Next, FirstRunOf!Reopen
<1>6. QED
  BY <1>1, <1>2, <1>3, <1>4, <1>5, QuietSteps DEF Next, Forward, FirstRunOf!Next

(* Setup is marked complete only under an administrator, stays complete,   *)
(* and only the reset command takes both away.                             *)
THEOREM FirstRunImplemented == Spec => FollowsFirstRun
<1>1. Init => FirstRunOf!Init
  BY DEF Init, FirstRunOf!Init
<1>2. QED
  BY <1>1, StepSimulation, PTL DEF Spec, FollowsFirstRun, FirstRunOf!Spec

(* A panel that asks for a login has an account that can log in, but for a *)
(* reset on its way.                                                       *)
THEOREM LoginIsPossible == Spec => [](completed /\ ~resetting => account # {})
<1>1. FirstRunOf!Init => FirstRunOf!DoneHasAdmin
  BY DEF FirstRunOf!Init, FirstRunOf!DoneHasAdmin
<1>2. FirstRunOf!DoneHasAdmin /\ [FirstRunOf!Next]_(FirstRunOf!vars) => FirstRunOf!DoneHasAdmin'
  BY DEF FirstRunOf!DoneHasAdmin, FirstRunOf!Next, FirstRunOf!vars, FirstRunOf!Create,
         FirstRunOf!Complete, FirstRunOf!Wipe, FirstRunOf!Reopen
<1>3. FirstRunOf!DoneHasAdmin <=> (completed /\ ~resetting => account # {})
  BY DEF FirstRunOf!DoneHasAdmin
<1>4. QED
  BY <1>1, <1>2, <1>3, FirstRunImplemented, PTL DEF FollowsFirstRun, FirstRunOf!Spec
-----------------------------------------------------------------------------
(* Types.  An account is made of the name in the request that hashes.      *)

NamesBegun == \A r \in Requests :
  job[r].stage = "begun" /\ job[r].kind = "admin" => job[r].name \in Names
TypeInv == SetupTypeOK /\ NamesBegun

LEMMA AdvanceTypes ==
  ASSUME SetupTypeOK, NEW b \in Browsers, NEW s \in 0..Review,
         NEW learnt \in SUBSET {"admin", "recovery"}, NEW mayPost, Advance(b, s, learnt, mayPost)
  PROVE  /\ at' \in [Browsers -> 0..Review]
         /\ knows' \in [Browsers -> SUBSET {"admin", "recovery"}]
         /\ saves' \in SUBSET (0..Review)
<1>1. (IF s < Review THEN s + 1 ELSE Review) \in 0..Review
  BY StepsAssumption
<1>2. QED
  BY <1>1 DEF Advance, SetupTypeOK

LEMMA EnterTypes ==
  ASSUME SetupTypeOK, NEW b \in Browsers, NEW t, NEW done, Enter(b, t, done)
  PROVE  /\ page' \in [Browsers -> {"out", "setup", "login", "panel"}]
         /\ at' \in [Browsers -> 0..Review]
         /\ knows' \in [Browsers -> SUBSET {"admin", "recovery"}]
         /\ shown' \in [Browsers -> MaybeRequest]
<1>1. (IF done THEN 0 ELSE saved.step) \in 0..Review
  BY StepsAssumption DEF SetupTypeOK
<1>2. saved.flags \cup (IF account # {} THEN {"admin"} ELSE {}) \in SUBSET {"admin", "recovery"}
  BY DEF SetupTypeOK, Flags
<1>3. QED
  BY <1>1, <1>2 DEF Enter, SetupTypeOK, MaybeRequest

(* A slip or a reset that is left is used up within its bound.             *)
LEMMA Within ==
  ASSUME SetupTypeOK
  PROVE  /\ slips < MaxSlips => slips + 1 \in 0..MaxSlips
         /\ resets < MaxResets => resets + 1 \in 0..MaxResets
BY BoundsAssumption DEF SetupTypeOK

(* A request that begins or ends keeps its type; begun by create-admin, it *)
(* has a name.                                                             *)
LEMMA JobTypes ==
  ASSUME TypeInv, NEW r \in Requests
  PROVE  /\ \A n \in Names : [kind |-> "admin", name |-> n, owner |-> Nobody, stage |-> "begun"] \in Job
         /\ \A o \in MaybeRequest :
              [kind |-> "login", name |-> Nobody, stage |-> "begun", owner |-> o] \in Job
         /\ \A how \in {"answered", "failed"} :
              /\ Ended(job[r], how) \in Job
              /\ Ended(job[r], how).stage = how /\ Ended(job[r], how).kind = job[r].kind
<1>1. job[r] \in Job /\ Nobody \in MaybeRequest
  BY DEF TypeInv, SetupTypeOK, MaybeRequest
<1>2. \A n \in Names : [kind |-> "admin", name |-> n, owner |-> Nobody, stage |-> "begun"] \in Job
  BY <1>1 DEF Job
<1>3. \A o \in MaybeRequest : [kind |-> "login", name |-> Nobody, stage |-> "begun", owner |-> o] \in Job
  BY DEF Job
<1>4. ASSUME NEW j \in Job, NEW how \in {"answered", "failed"}
      PROVE  Ended(j, how) \in Job /\ Ended(j, how).stage = how /\ Ended(j, how).kind = j.kind
  BY <1>1 DEF Job, Ended
<1>5. QED
  BY <1>1, <1>2, <1>3, <1>4

LEMMA JobUpdated ==
  ASSUME TypeInv, NEW r \in Requests, NEW j \in Job,
         j.stage = "begun" /\ j.kind = "admin" => j.name \in Names,
         job' = [job EXCEPT ![r] = j]
  PROVE  job' \in [Requests -> Job] /\ NamesBegun'
<1>1. job \in [Requests -> Job] /\ NamesBegun
  BY DEF TypeInv, SetupTypeOK
<1>2. job' \in [Requests -> Job]
  BY <1>1
<1>3. ASSUME NEW q \in Requests, job'[q].stage = "begun", job'[q].kind = "admin"
      PROVE  job'[q].name \in Names
  <2>1. CASE q = r
    BY <1>1, <1>3, <2>1
  <2>2. CASE q # r
    BY <1>1, <1>3, <2>2 DEF NamesBegun
  <2>3. QED
    BY <2>1, <2>2
<1>4. QED
  BY <1>2, <1>3 DEF NamesBegun

LEMMA TypePreserved == TypeInv /\ [Next]_vars => TypeInv'
<1> SUFFICES ASSUME TypeInv, [Next]_vars PROVE SetupTypeOK' /\ NamesBegun'
  BY DEF TypeInv
<1>0. SetupTypeOK /\ NamesBegun
  BY DEF TypeInv
<1> DEFINE Goal == SetupTypeOK' /\ NamesBegun'
<1> USE DEF tables, wizard, cookies, bounds
<1>1. ASSUME NEW b \in Browsers, Continue(b) PROVE Goal
  <2>1. at[b] \in 0..Review /\ Advance(b, at[b], {}, b \in csrf)
    BY <1>0, <1>1 DEF Continue, SetupTypeOK
  <2>2. QED
    BY <1>0, <1>1, <2>1, AdvanceTypes DEF Continue, SetupTypeOK, NamesBegun
<1>2. ASSUME NEW b \in Browsers, Confirm(b) PROVE Goal
  <2>1. at[b] \in 0..Review /\ Advance(b, at[b], {"recovery"}, TRUE)
    BY <1>0, <1>2 DEF Confirm, SetupTypeOK
  <2>2. saved' \in [step : 0..Review, flags : SUBSET Flags]
    BY <1>0, <1>2 DEF Confirm, AddFlags, SetupTypeOK, Flags
  <2>3. QED
    BY <1>0, <1>2, <2>1, <2>2, AdvanceTypes DEF Confirm, SetupTypeOK, NamesBegun
<1>3. ASSUME NEW b \in Browsers, PassRecovery(b) PROVE Goal
  <2>1. at[b] \in 0..Review /\ Advance(b, at[b], {"recovery"}, b \in csrf)
    BY <1>0, <1>3 DEF PassRecovery, SetupTypeOK
  <2>2. QED
    BY <1>0, <1>3, <2>1, AdvanceTypes DEF PassRecovery, SetupTypeOK, NamesBegun
<1>4. ASSUME NEW b \in Browsers, Finish(b) PROVE Goal
  BY <1>0, <1>4, EnterTypes DEF Finish, SetupTypeOK, NamesBegun
<1>5. ASSUME NEW b \in Browsers, HearAdmin(b) PROVE Goal
  <2>1. waits[b] \in Requests /\ Admin \in 0..Review /\ Advance(b, Admin, {"admin"}, TRUE)
    <3>1. waits[b] \in MaybeRequest /\ waits[b] # Nobody
      BY <1>0, <1>5 DEF HearAdmin, SetupTypeOK
    <3>2. Advance(b, Admin, {"admin"}, TRUE)
      BY <1>5 DEF HearAdmin
    <3>3. Admin \in 0..Review
      BY StepsAssumption
    <3>4. QED
      BY <3>1, <3>2, <3>3 DEF MaybeRequest
  <2>2. /\ at' \in [Browsers -> 0..Review]
        /\ knows' \in [Browsers -> SUBSET {"admin", "recovery"}]
        /\ saves' \in SUBSET (0..Review)
    BY <1>0, <2>1, AdvanceTypes
  <2> DEFINE r == waits[b]
  <2>3. /\ cookie' = [cookie EXCEPT ![b] = r] /\ shown' = [shown EXCEPT ![b] = r]
        /\ waits' = [waits EXCEPT ![b] = Nobody] /\ csrf' = csrf \cup {b}
    BY <1>5 DEF HearAdmin
  <2>4. r \in MaybeRequest /\ Nobody \in MaybeRequest
    BY <2>1 DEF MaybeRequest
  <2> HIDE DEF r
  <2>5. /\ cookie' \in [Browsers -> MaybeRequest] /\ csrf' \in SUBSET Browsers
        /\ waits' \in [Browsers -> MaybeRequest] /\ shown' \in [Browsers -> MaybeRequest]
    BY <1>0, <2>3, <2>4 DEF SetupTypeOK
  <2>6. QED
    BY <1>0, <1>5, <2>2, <2>5 DEF HearAdmin, SetupTypeOK, NamesBegun
<1>6. ASSUME NEW b \in Browsers, HearLogin(b) PROVE Goal
  <2>1. waits[b] \in Requests /\ Enter(b, waits[b], completed)
    BY <1>0, <1>6 DEF HearLogin, SetupTypeOK, MaybeRequest
  <2>2. QED
    BY <1>0, <1>6, <2>1, EnterTypes DEF HearLogin, SetupTypeOK, NamesBegun, MaybeRequest
<1>7. ASSUME NEW b \in Browsers, HearError(b) PROVE Goal
  BY <1>0, <1>7 DEF HearError, SetupTypeOK, NamesBegun, MaybeRequest
<1>8. ASSUME NEW b \in Browsers, Load(b) PROVE Goal
  <2>1. slips' \in 0..MaxSlips
    BY <1>0, <1>8, Within DEF Load, SetupTypeOK
  <2>2. QED
    BY <1>0, <1>8, <2>1, EnterTypes DEF Load, SetupTypeOK, NamesBegun
<1>9. ASSUME NEW b \in Browsers, Back(b) PROVE Goal
  <2>1. at' \in [Browsers -> 0..Review]
    <3>1. at \in [Browsers -> 0..Review] /\ at[b] - 1 \in 0..Review
      BY <1>0, <1>9, StepsAssumption DEF Back, SetupTypeOK
    <3>2. at' = [at EXCEPT ![b] = at[b] - 1]
      BY <1>9 DEF Back
    <3>3. QED
      BY <3>1, <3>2
  <2>2. QED
    BY <1>0, <1>9, <2>1, Within DEF Back, SetupTypeOK, NamesBegun
<1>10. ASSUME NEW b \in Browsers, Drop(b) PROVE Goal
  BY <1>0, <1>10, Within DEF Drop, SetupTypeOK, NamesBegun, MaybeRequest
<1>11. ASSUME NEW b \in Browsers, NEW everywhere \in BOOLEAN, Logout(b, everywhere) PROVE Goal
  <2>1. /\ page' \in [Browsers -> {"out", "setup", "login", "panel"}]
        /\ session' \in SUBSET [token : Requests, owner : Requests]
        /\ cookie' \in [Browsers -> MaybeRequest] /\ csrf' \in SUBSET Browsers
    BY <1>0, <1>11 DEF Logout, SetupTypeOK, MaybeRequest
  <2>2. QED
    BY <1>0, <1>11, <2>1, Within DEF Logout, SetupTypeOK, NamesBegun
<1>12. ASSUME NEW b \in Browsers, NEW r \in Requests, NEW n \in Names, BeginAdmin(b, r, n)
       PROVE Goal
  <2>1. job' \in [Requests -> Job] /\ NamesBegun'
    BY <1>12, JobTypes, JobUpdated DEF BeginAdmin
  <2>2. overlapped' \in BOOLEAN
    BY <1>12 DEF BeginAdmin
  <2>3. QED
    BY <1>0, <1>12, <2>1, <2>2 DEF BeginAdmin, SetupTypeOK, MaybeRequest
<1>13. ASSUME NEW b \in Browsers, NEW r \in Requests, NEW n \in Names, NEW right \in BOOLEAN,
              BeginLogin(b, r, n, right)
       PROVE Goal
  <2> DEFINE o == IF right /\ \E a \in account : a.name = n
                  THEN (CHOOSE a \in account : a.name = n).id ELSE Nobody
  <2>1. o \in MaybeRequest
    <3>1. CASE \E a \in account : a.name = n
      <4>1. (CHOOSE a \in account : a.name = n) \in account
        BY <3>1
      <4>2. QED
        BY <1>0, <4>1 DEF SetupTypeOK, MaybeRequest
    <3>2. CASE ~\E a \in account : a.name = n
      BY <3>2 DEF MaybeRequest
    <3>3. QED
      BY <3>1, <3>2
  <2>2. job' = [job EXCEPT ![r] = [kind |-> "login", name |-> Nobody, stage |-> "begun", owner |-> o]]
    BY <1>13 DEF BeginLogin, Named
  <2> HIDE DEF o
  <2>3. job' \in [Requests -> Job] /\ NamesBegun'
    BY <2>1, <2>2, JobTypes, JobUpdated
  <2>4. QED
    BY <1>0, <1>13, <2>3 DEF BeginLogin, Named, SetupTypeOK, MaybeRequest
<1>14. ASSUME NEW r \in Requests, EndAdmin(r) PROVE Goal
  <2>1. job' \in [Requests -> Job] /\ NamesBegun'
    BY <1>14, JobTypes, JobUpdated DEF EndAdmin, CreateRecovery, CreateSession
  <2>2. [id |-> r, name |-> job[r].name] \in [id : Requests, name : Names]
    BY <1>0, <1>14 DEF EndAdmin, CreateRecovery, CreateSession, NamesBegun
  <2>3. /\ account' \in SUBSET [id : Requests, name : Names]
        /\ session' \in SUBSET [token : Requests, owner : Requests]
        /\ wrapped' \in MaybeRequest /\ slips' \in 0..MaxSlips
    BY <1>0, <1>14, <2>2, Within DEF EndAdmin, CreateRecovery, CreateSession, StoreAdmin, SetupTypeOK, MaybeRequest
  <2>4. QED
    BY <1>0, <1>14, <2>1, <2>3 DEF EndAdmin, CreateRecovery, CreateSession, SetupTypeOK
<1>15. ASSUME NEW r \in Requests, EndLogin(r) PROVE Goal
  <2>1. job' \in [Requests -> Job] /\ NamesBegun'
    BY <1>15, JobTypes, JobUpdated DEF EndLogin, CreateSession
  <2>2. session' \in SUBSET [token : Requests, owner : Requests]
    BY <1>0, <1>15 DEF EndLogin, CreateSession, SetupTypeOK, Job, MaybeRequest
  <2>3. QED
    BY <1>0, <1>15, <2>1, <2>2 DEF EndLogin, CreateSession, SetupTypeOK
<1>16. ASSUME NEW s \in saves, DeliverSave(s) PROVE Goal
  BY <1>0, <1>16 DEF DeliverSave, SetupTypeOK, NamesBegun, Flags
<1>17. ASSUME NEW s \in saves, LoseSave(s) PROVE Goal
  BY <1>0, <1>17, Within DEF LoseSave, SetupTypeOK, NamesBegun
<1>18. CASE Expire
  BY <1>0, <1>18, Within DEF Expire, SetupTypeOK, NamesBegun
<1>19. CASE Crash
  <2>1. \A r \in Requests : job'[r] \in {job[r], Ended(job[r], "failed")}
    BY <1>19 DEF Crash
  <2>2. job' \in [Requests -> Job]
    BY <1>0, <1>19, JobTypes DEF Crash, SetupTypeOK
  <2>3. NamesBegun'
    BY <1>0, <2>1, JobTypes DEF NamesBegun
  <2>4. QED
    BY <1>0, <1>19, <2>2, <2>3, Within DEF Crash, SetupTypeOK
<1>20. CASE ResetAccounts
  BY <1>0, <1>20, Within DEF ResetAccounts, SetupTypeOK, NamesBegun
<1>21. CASE ResetSetup
  <2>1. saved' \in [step : 0..Review, flags : SUBSET Flags]
    <3>1. saved' = [step |-> 0, flags |-> {}] /\ 0 \in 0..Review
      BY <1>21, StepsAssumption DEF ResetSetup
    <3>2. QED
      BY <3>1
  <2>2. QED
    BY <1>0, <1>21, <2>1 DEF ResetSetup, SetupTypeOK, NamesBegun
<1>22. CASE UNCHANGED vars
  BY <1>0, <1>22 DEF vars, SetupTypeOK, NamesBegun
<1>23. QED
  BY <1>1, <1>2, <1>3, <1>4, <1>5, <1>6, <1>7, <1>8, <1>9, <1>10, <1>11, <1>12, <1>13, <1>14,
     <1>15, <1>16, <1>17, <1>18, <1>19, <1>20, <1>21, <1>22 DEF Next, Forward

LEMMA InitTypes == Init => TypeInv
<1> SUFFICES ASSUME Init PROVE SetupTypeOK /\ NamesBegun
  BY DEF TypeInv
<1>1. Idle \in Job /\ Idle.stage = "free"
  BY DEF Idle, Job, MaybeRequest
<1>2. job \in [Requests -> Job] /\ NamesBegun
  BY <1>1 DEF Init, NamesBegun
<1>3. saved \in [step : 0..Review, flags : SUBSET Flags]
  BY StepsAssumption DEF Init
<1>4. /\ at \in [Browsers -> 0..Review] /\ slips \in 0..MaxSlips /\ resets \in 0..MaxResets
  BY StepsAssumption, BoundsAssumption DEF Init
<1>5. /\ page \in [Browsers -> {"out", "setup", "login", "panel"}]
      /\ knows \in [Browsers -> SUBSET {"admin", "recovery"}]
      /\ shown \in [Browsers -> MaybeRequest] /\ cookie \in [Browsers -> MaybeRequest]
      /\ waits \in [Browsers -> MaybeRequest] /\ wrapped \in MaybeRequest
  BY DEF Init, MaybeRequest
<1>6. QED
  BY <1>2, <1>3, <1>4, <1>5 DEF Init, SetupTypeOK

(* Tables, requests and browsers keep their types.                         *)
THEOREM SetupTypeCorrect == Spec => []SetupTypeOK
<1>1. TypeInv => SetupTypeOK
  BY DEF TypeInv
<1>2. QED
  BY <1>1, InitTypes, TypePreserved, PTL DEF Spec
-----------------------------------------------------------------------------
(* The recovery code.  As long as two create-admin requests never hash at  *)
(* once, the one that hashes found no account and is the only one that can *)
(* make one, so the last code wrapped is that of the account there is.     *)

Hashing(r) == job[r].stage = "begun" /\ job[r].kind = "admin"

\* An account belongs to a request that has ended; a code is shown only to the
\* browser whose request was answered.
Past ==
  /\ \A a \in account : job[a.id].stage \in {"answered", "failed"}
  /\ \A b \in Browsers : shown[b] # Nobody => job[shown[b]].stage = "answered"

OneAtATime ==
  ~overlapped =>
    /\ \A r, q \in Requests : Hashing(r) /\ Hashing(q) => r = q
    /\ \A r \in Requests : Hashing(r) => account = {}
    /\ \A a, c \in account : a = c
    /\ \A a \in account : job[a.id].stage = "answered" => wrapped = a.id

CodeInv == TypeInv /\ Past /\ OneAtATime

LEMMA CodeInvSuffices == CodeInv => AdminHasItsCode
<1> SUFFICES ASSUME CodeInv, ~overlapped, NEW b \in Browsers,
                    NEW a \in account, a.id = shown[b]
             PROVE  wrapped = shown[b]
  BY DEF CodeInv, OneAtATime, AdminHasItsCode
<1>1. a.id \in Requests
  BY DEF CodeInv, TypeInv, SetupTypeOK
<1>2. shown[b] # Nobody
  BY <1>1, RequestsAssumption
<1>3. job[a.id].stage = "answered"
  BY <1>2 DEF CodeInv, Past
<1>4. QED
  BY <1>3 DEF CodeInv, OneAtATime

\* A step that leaves accounts, codes and requests that are over as they are,
\* and begins no create-admin request, disturbs nothing.
LEMMA CodeKept ==
  ASSUME CodeInv, TypeInv',
         UNCHANGED <<account, wrapped, overlapped>>,
         \A b \in Browsers : shown'[b] \in {shown[b], Nobody},
         \A r \in Requests :
           /\ job[r].stage \in {"answered", "failed"} => job'[r] = job[r]
           /\ Hashing(r)' => Hashing(r)
  PROVE  CodeInv'
<1>1. \A a \in account : a.id \in Requests
  BY DEF CodeInv, TypeInv, SetupTypeOK
<1>2. \A b \in Browsers : shown[b] # Nobody => shown[b] \in Requests
  BY DEF CodeInv, TypeInv, SetupTypeOK, MaybeRequest
<1>3. Past'
  BY <1>1, <1>2 DEF CodeInv, Past
<1>4. OneAtATime'
  BY <1>1 DEF CodeInv, OneAtATime, Past
<1>5. QED
  BY <1>3, <1>4 DEF CodeInv

\* The steps of a browser but for create-admin and its answer, of the saves, and
\* of a login.
LEMMA CodeKeptByMost ==
  ASSUME CodeInv, TypeInv', Next,
         \A b \in Browsers : ~HearAdmin(b),
         \A b \in Browsers, r \in Requests, n \in Names : ~BeginAdmin(b, r, n),
         \A r \in Requests : ~EndAdmin(r),
         ~ResetAccounts
  PROVE  CodeInv'
<1> DEFINE Kept == /\ UNCHANGED <<account, wrapped, overlapped>>
                   /\ \A b \in Browsers : shown'[b] \in {shown[b], Nobody}
                   /\ \A r \in Requests :
                        /\ job[r].stage \in {"answered", "failed"} => job'[r] = job[r]
                        /\ Hashing(r)' => Hashing(r)
<1> USE DEF tables, wizard, cookies, bounds
<1>0. /\ job \in [Requests -> Job] /\ shown \in [Browsers -> MaybeRequest]
      /\ \A b \in Browsers : waits[b] \in MaybeRequest
  BY DEF CodeInv, TypeInv, SetupTypeOK
<1>1. ASSUME UNCHANGED <<account, wrapped, overlapped, job, shown>> PROVE Kept
  BY <1>1 DEF Hashing
<1>2. ASSUME UNCHANGED <<account, wrapped, overlapped, job>>,
             NEW b \in Browsers, NEW t, NEW done, Enter(b, t, done)
      PROVE  Kept
  <2>1. \A c \in Browsers : shown'[c] \in {shown[c], Nobody}
    BY <1>0, <1>2 DEF Enter
  <2>2. QED
    BY <1>2, <2>1 DEF Hashing
<1>3. ASSUME NEW b \in Browsers, Forward(b) PROVE Kept
  <2>1. CASE Continue(b) \/ Confirm(b) \/ PassRecovery(b) \/ HearError(b)
    BY <1>1, <2>1 DEF Continue, Confirm, PassRecovery, HearError
  <2>2. CASE Finish(b)
    BY <1>2, <2>2 DEF Finish
  <2>3. CASE HearLogin(b)
    BY <1>2, <2>3 DEF HearLogin
  <2>4. QED
    BY <1>3, <2>1, <2>2, <2>3 DEF Forward
<1>4. ASSUME NEW b \in Browsers,
             Load(b) \/ Back(b) \/ Drop(b) \/ \E everywhere \in BOOLEAN : Logout(b, everywhere)
      PROVE  Kept
  <2>1. CASE Back(b) \/ Drop(b) \/ \E everywhere \in BOOLEAN : Logout(b, everywhere)
    BY <1>1, <2>1 DEF Back, Drop, Logout
  <2>2. CASE Load(b)
    BY <1>2, <2>2 DEF Load
  <2>3. QED
    BY <1>4, <2>1, <2>2
<1>5. ASSUME NEW b \in Browsers, NEW r \in Requests, NEW n \in Names, NEW right \in BOOLEAN,
             BeginLogin(b, r, n, right)
      PROVE  Kept
  <2>1. /\ job[r].stage = "free" /\ job'[r].kind = "login"
        /\ \A q \in Requests \ {r} : job'[q] = job[q]
    BY <1>0, <1>5 DEF BeginLogin, Named
  <2>2. UNCHANGED <<account, wrapped, overlapped, shown>>
    BY <1>5 DEF BeginLogin, Named
  <2>3. ASSUME NEW q \in Requests
        PROVE  /\ job[q].stage \in {"answered", "failed"} => job'[q] = job[q]
               /\ Hashing(q)' => Hashing(q)
    BY <2>1 DEF Hashing
  <2>4. QED
    BY <2>2, <2>3
<1>6. ASSUME NEW r \in Requests, EndLogin(r) PROVE Kept
  <2>1. job[r].stage = "begun" /\ job'[r].stage # "begun" /\ \A q \in Requests \ {r} : job'[q] = job[q]
    BY <1>0, <1>6 DEF EndLogin, CreateSession, Ended
  <2>2. UNCHANGED <<account, wrapped, overlapped, shown>>
    BY <1>6 DEF EndLogin, CreateSession
  <2>3. QED
    BY <2>1, <2>2 DEF Hashing
<1>7. ASSUME Crash PROVE Kept
  <2>1. \A r \in Requests :
         job'[r] = job[r] \/ (job[r].stage = "begun" /\ job'[r].stage = "failed")
    BY <1>7 DEF Crash, Ended
  <2>2. UNCHANGED <<account, wrapped, overlapped, shown>>
    BY <1>7 DEF Crash
  <2>3. QED
    BY <2>1, <2>2 DEF Hashing
<1>8. ASSUME (\E s \in saves : DeliverSave(s) \/ LoseSave(s)) \/ Expire \/ ResetSetup
      PROVE  Kept
  BY <1>1, <1>8 DEF DeliverSave, LoseSave, Expire, ResetSetup
<1>9. Kept
  BY <1>3, <1>4, <1>5, <1>6, <1>7, <1>8 DEF Next
<1>10. QED
  BY <1>9, CodeKept

LEMMA CodePreserved == CodeInv /\ [Next]_vars => CodeInv'
<1> SUFFICES ASSUME CodeInv, [Next]_vars PROVE CodeInv'
  OBVIOUS
<1> USE DEF tables, wizard, cookies, bounds
<1>0. TypeInv' /\ job \in [Requests -> Job] /\ shown \in [Browsers -> MaybeRequest]
      /\ \A a \in account : a.id \in Requests
  BY TypePreserved DEF CodeInv, TypeInv, SetupTypeOK
<1>1. CASE UNCHANGED vars
  <2>1. \A r \in Requests : Hashing(r)' => Hashing(r)
    BY <1>1 DEF vars, Hashing
  <2>2. QED
    BY <1>0, <1>1, <2>1, CodeKept DEF vars
<1>2. ASSUME NEW b \in Browsers, HearAdmin(b) PROVE CodeInv'
  <2>1. /\ UNCHANGED <<account, wrapped, overlapped, job>>
        /\ shown' = [shown EXCEPT ![b] = waits[b]] /\ job[waits[b]].stage = "answered"
    BY <1>2 DEF HearAdmin
  <2>2. Past'
    BY <1>0, <2>1 DEF CodeInv, Past
  <2>3. OneAtATime'
    BY <2>1 DEF CodeInv, OneAtATime, Hashing
  <2>4. QED
    BY <1>0, <2>2, <2>3 DEF CodeInv
<1>3. ASSUME NEW b \in Browsers, NEW r \in Requests, NEW n \in Names, BeginAdmin(b, r, n)
      PROVE  CodeInv'
  <2>1. /\ UNCHANGED <<account, wrapped, shown>> /\ account = {} /\ job[r].stage = "free"
        /\ \A q \in Requests \ {r} : job'[q] = job[q]
        /\ ~overlapped' => ~overlapped /\ \A q \in Requests : ~Hashing(q)
    BY <1>0, <1>3 DEF BeginAdmin, Hashing
  <2>2. \A c \in Browsers : shown[c] # Nobody => shown[c] \in Requests
    BY <1>0 DEF MaybeRequest
  <2>3. Past'
    BY <2>1, <2>2 DEF CodeInv, Past
  <2>4. OneAtATime'
    BY <2>1 DEF OneAtATime, Hashing
  <2>5. QED
    BY <1>0, <2>3, <2>4 DEF CodeInv
<1>4. ASSUME NEW r \in Requests, EndAdmin(r) PROVE CodeInv'
  <2>1. /\ Hashing(r) /\ job'[r].stage \in {"answered", "failed"}
        /\ \A q \in Requests \ {r} : job'[q] = job[q]
        /\ UNCHANGED <<overlapped, shown>>
    BY <1>0, <1>4 DEF EndAdmin, CreateRecovery, CreateSession, Ended, Hashing
  <2>2. \/ UNCHANGED <<account, wrapped>>
        \/ /\ account' = account \cup {[id |-> r, name |-> job[r].name]}
           /\ job'[r].stage = "answered" => wrapped' = r
    BY <1>0, <1>4 DEF EndAdmin, CreateRecovery, CreateSession, StoreAdmin, Ended
  <2>3. \A c \in Browsers : shown[c] # Nobody => shown[c] \in Requests
    BY <1>0 DEF MaybeRequest
  <2>4. Past'
    BY <1>0, <2>1, <2>2, <2>3 DEF CodeInv, Past, Hashing
  <2>5. OneAtATime'
    <3>1. SUFFICES ASSUME ~overlapped
                   PROVE  /\ \A q, p \in Requests : Hashing(q)' /\ Hashing(p)' => q = p
                          /\ \A q \in Requests : Hashing(q)' => account' = {}
                          /\ \A a, c \in account' : a = c
                          /\ \A a \in account' : job'[a.id].stage = "answered" => wrapped' = a.id
      BY <2>1 DEF OneAtATime
    <3>2. account = {}
      BY <2>1, <3>1 DEF CodeInv, OneAtATime
    <3>3. \A q \in Requests : ~Hashing(q)'
      BY <2>1, <3>1 DEF CodeInv, OneAtATime, Hashing
    <3>4. QED
      BY <2>2, <3>2, <3>3
  <2>6. QED
    BY <1>0, <2>4, <2>5 DEF CodeInv
<1>5. CASE ResetAccounts
  <2>1. account' = {} /\ UNCHANGED <<shown, job, overlapped>>
    BY <1>5 DEF ResetAccounts
  <2>2. Past' /\ OneAtATime'
    BY <2>1 DEF CodeInv, Past, OneAtATime, Hashing
  <2>3. QED
    BY <1>0, <2>2 DEF CodeInv
<1>6. QED
  BY <1>0, <1>1, <1>2, <1>3, <1>4, <1>5, CodeKeptByMost

(* The code a browser shows opens the wrapped key of its administrator.    *)
THEOREM AdminCodeCorrect == Spec => []AdminHasItsCode
<1>1. Init => CodeInv
  <2>1. Init => TypeInv
    BY InitTypes
  <2>2. Init => Past /\ OneAtATime
    BY DEF Init, Past, OneAtATime, Hashing, Idle
  <2>3. QED
    BY <2>1, <2>2 DEF CodeInv
<1>2. QED
  BY <1>1, CodePreserved, CodeInvSuffices, PTL DEF Spec
=============================================================================
