---------------------------- MODULE UpdaterProofs -----------------------------
(***************************************************************************)
(* Proofs about module Updater, for any releases, any number of updates of *)
(* the panel and of the command line, and any crashes: its types, that the *)
(* link points to a release that is built and stays built, that answers    *)
(* are true, that the service is left in health, and that what is offered  *)
(* is newer, because compareVersions computes the precedence of versions.  *)
(***************************************************************************)
EXTENDS Updater, WellFoundedInduction, TLAPS

Busyness == {"fetch", "stage", "extract", "build", "swap", "restart", "health",
             "back", "back_restart", "back_health"}

At(c, p) == [pc |-> p, tag |-> up[c].tag, previous |-> up[c].previous]

LEMMA EndedIsIdle ==
  ASSUME NEW a \in {"none", "updated", "rolled_back", "failed"}
  PROVE  Ended(a) \in Idle /\ Ended(a).pc = "idle" /\ Ended(a).answer = a
  BY DEF Ended, Idle

(* An update under way has a release to install and one to go back to.     *)
LEMMA BusyUpdate ==
  ASSUME UpdTypeOK, NEW c \in Callers, up[c].pc # "idle"
  PROVE  /\ up[c] \in Update /\ up[c].tag \in Tags /\ up[c].previous \in Tags
         /\ up[c].pc \in Busyness
  BY DEF UpdTypeOK, Update, Idle, Busyness

LEMMA GotoUp ==
  ASSUME UpdTypeOK, NEW c \in Callers, up[c].pc # "idle", NEW p \in Busyness, Goto(c, p)
  PROVE  /\ up' \in [Callers -> Update \cup Idle]
         /\ up'[c] = At(c, p)
         /\ \A d \in Callers \ {c} : up'[d] = up[d]
<1>1. up[c] \in Update
  BY BusyUpdate
<1>2. [up[c] EXCEPT !.pc = p] = At(c, p) /\ At(c, p) \in Update
  BY <1>1 DEF Update, At, Busyness
<1>3. up' = [up EXCEPT ![c] = At(c, p)]
  BY <1>2 DEF Goto
<1>4. QED
  BY <1>2, <1>3 DEF UpdTypeOK

LEMMA AnswerUp ==
  ASSUME UpdTypeOK, NEW c \in Callers, NEW a \in {"updated", "rolled_back", "failed"},
         Answer(c, a)
  PROVE  /\ up' \in [Callers -> Update \cup Idle] /\ offer' \in Tags \cup {None}
         /\ up'[c] = Ended(a)
         /\ \A d \in Callers \ {c} : up'[d] = up[d]
  BY EndedIsIdle DEF Answer, UpdTypeOK

(* A killed update is over; whoever is not killed goes on.                 *)
LEMMA KilledUp ==
  ASSUME UpdTypeOK, NEW kill
  PROVE  /\ Killed(kill) \in [Callers -> Update \cup Idle]
         /\ \A c \in Callers : /\ Killed(kill)[c] \in {up[c], Ended("none")}
                               /\ c \notin kill => Killed(kill)[c] = up[c]
         /\ (\A c \in Callers : up[c].pc = "idle" \/ c \notin kill) => Killed(kill) = up
         /\ Killed(kill) = up => \A c \in Callers : up[c].pc = "idle" \/ c \notin kill
<1>1. \A c \in Callers : up[c] \in Update \cup Idle
  BY DEF UpdTypeOK
<1>2. up = [c \in Callers |-> up[c]]
  BY DEF UpdTypeOK
<1>3. Ended("none") \in Idle /\ Ended("none").pc = "idle"
  BY EndedIsIdle
<1>4. QED
  BY <1>1, <1>2, <1>3 DEF Killed

(* A restart of the service: the caller goes on, or was the service.       *)
LEMMA RestartUp ==
  ASSUME UpdTypeOK, NEW c \in Callers, NEW p \in Busyness, NEW q \in Busyness, Restart(c, p, q)
  PROVE  /\ up' \in [Callers -> Update \cup Idle] /\ running' \in Tags
         /\ offer' \in Tags \cup {None} /\ cut' \in BOOLEAN
         /\ \A d \in Callers \ {c} : up'[d] \in {up[d], Ended("none")}
         /\ \/ up'[c] = At(c, q) /\ (restarts => running' = current)
            \/ up'[c] = Ended("none") /\ cut' = TRUE
         /\ ~cut' => ~cut /\ up'[c] = At(c, q)
<1>1. up[c].pc = p /\ up[c].pc # "idle"
  BY DEF Restart, Busyness
<1>2. /\ running \in Tags /\ current \in Tags /\ offer \in Tags \cup {None} /\ cut \in BOOLEAN
      /\ c \in Panel \cup Shell
  BY DEF UpdTypeOK, Callers
<1>3. CASE ~restarts /\ Goto(c, q) /\ UNCHANGED <<running, offer, cut>>
  BY <1>1, <1>2, <1>3, GotoUp
<1>4. CASE restarts /\ c \in Panel /\ Launch(Panel) /\ up' = Killed(Panel)
  <2>1. Killed(Panel)[c] = Ended("none") /\ Killed(Panel) # up
    BY <1>1, <1>4, KilledUp DEF Killed
  <2>2. running' \in Tags /\ offer' = None /\ cut' = TRUE
    BY <1>2, <1>4, <2>1 DEF Launch
  <2>3. QED
    BY <1>4, <2>1, <2>2, KilledUp
<1>5. CASE /\ restarts /\ c \in Shell /\ Launch(Panel)
           /\ up' = [Killed(Panel) EXCEPT ![c].pc = q]
  <2>1. c \notin Panel /\ Killed(Panel)[c] = up[c] /\ up[c] \in Update
    BY <1>1, <1>5, ProcessesAssumption, KilledUp, BusyUpdate
  <2>2. [up[c] EXCEPT !.pc = q] = At(c, q) /\ At(c, q) \in Update
    BY <2>1 DEF Update, At, Busyness
  <2>3. up' = [Killed(Panel) EXCEPT ![c] = At(c, q)]
    BY <1>5, <2>1, <2>2
  <2>4. running' = current /\ offer' = None /\ cut' \in BOOLEAN /\ (~cut' => ~cut)
    BY <1>2, <1>5 DEF Launch
  <2>5. Killed(Panel) \in [Callers -> Update \cup Idle]
    BY KilledUp
  <2>6. up'[c] = At(c, q) /\ \A d \in Callers \ {c} : up'[d] = Killed(Panel)[d]
    BY <2>3, <2>5
  <2>7. up' \in [Callers -> Update \cup Idle]
    BY <2>2, <2>3, <2>5
  <2>8. QED
    BY <1>2, <2>4, <2>6, <2>7, KilledUp
<1>6. QED
  BY <1>3, <1>4, <1>5 DEF Restart

-----------------------------------------------------------------------------
(* Types.                                                                  *)

Types ==
  /\ restarts \in BOOLEAN /\ published \subseteq Tags
  /\ tree \in [Tags -> {"absent", "partial", "built"}]
  /\ current \in Tags /\ running \in Tags
  /\ up \in [Callers -> Update \cup Idle] /\ offer \in Tags \cup {None}
  /\ cut \in BOOLEAN /\ overlapped \in BOOLEAN /\ collided \in BOOLEAN
  /\ applies \in 0..MaxApplies /\ crashes \in 0..MaxCrashes

LEMMA TypesAre == UpdTypeOK <=> Types
  BY DEF UpdTypeOK, Types

LEMMA InitTypes == UpdInit => UpdTypeOK
<1> SUFFICES ASSUME UpdInit PROVE Types
  BY TypesAre
<1>1. Ended("none") \in Idle
  BY EndedIsIdle
<1>2. applies \in 0..MaxApplies /\ crashes \in 0..MaxCrashes
  BY UpdaterBounds DEF UpdInit
<1>3. QED
  BY <1>1, <1>2, TagsAssumption, UpdaterFlags DEF UpdInit, Types

(* A step of one update touches no other but by killing it.                *)
Others(c) == \A d \in Callers \ {c} : up'[d] \in {up[d], Ended("none")}

LEMMA UpdateStepTypes ==
  ASSUME UpdTypeOK, NEW c \in Callers, UpdateStep(c)
  PROVE  UpdTypeOK' /\ Others(c)
<1> USE DEF past, given
<1>1. Types
  BY TypesAre
<1>2. CASE Fetch(c) \/ CheckNotStaged(c)
  <2>1. PICK p \in Busyness : Goto(c, p)
    BY <1>2 DEF Fetch, CheckNotStaged, Busyness
  <2>2. up[c].pc # "idle"
    BY <1>2 DEF Fetch, CheckNotStaged
  <2>3. up' \in [Callers -> Update \cup Idle] /\ Others(c)
    BY <2>1, <2>2, GotoUp DEF Others
  <2>4. Types'
    BY <1>1, <1>2, <2>3 DEF Fetch, CheckNotStaged, Types
  <2>5. QED
    BY <2>3, <2>4, TypesAre DEF UpdTypeOK, Types
<1>3. CASE Extract(c) \/ Build(c)
  <2>1. PICK p \in Busyness : Goto(c, p)
    BY <1>3 DEF Extract, Build, Busyness
  <2>2. up[c].pc # "idle"
    BY <1>3 DEF Extract, Build
  <2>3. up' \in [Callers -> Update \cup Idle] /\ Others(c)
    BY <2>1, <2>2, GotoUp DEF Others
  <2>4. tree' \in [Tags -> {"absent", "partial", "built"}]
    BY <1>1, <1>3 DEF Extract, Build, Types
  <2>5. Types'
    BY <1>1, <1>3, <2>3, <2>4 DEF Extract, Build, Types
  <2>6. QED
    BY <2>3, <2>5 DEF UpdTypeOK, Types
<1>4. CASE Swap(c) \/ PointBack(c) \/ Throw(c)
  <2>1. PICK p \in Busyness : Goto(c, p)
    BY <1>4 DEF Swap, PointBack, Throw, Busyness
  <2>2. up[c].pc # "idle"
    BY <1>4 DEF Swap, PointBack, Throw
  <2>3. up' \in [Callers -> Update \cup Idle] /\ Others(c)
    BY <2>1, <2>2, GotoUp DEF Others
  <2>4. current' \in Tags /\ cut' \in BOOLEAN
    BY <1>1, <1>4, <2>2, BusyUpdate DEF Swap, PointBack, Throw, Types
  <2>5. Types'
    BY <1>1, <1>4, <2>3, <2>4 DEF Swap, PointBack, Throw, Types
  <2>6. QED
    BY <2>3, <2>5 DEF UpdTypeOK, Types
<1>5. CASE Restart(c, "restart", "health") \/ Restart(c, "back_restart", "back_health")
  <2>1. PICK p \in Busyness, q \in Busyness : Restart(c, p, q)
    BY <1>5 DEF Busyness
  <2>2. /\ up' \in [Callers -> Update \cup Idle] /\ running' \in Tags
        /\ offer' \in Tags \cup {None} /\ cut' \in BOOLEAN /\ Others(c)
    BY <2>1, RestartUp DEF Others
  <2>3. Types'
    BY <1>1, <2>1, <2>2 DEF Restart, Types
  <2>4. QED
    BY <2>2, <2>3 DEF UpdTypeOK, Types
<1>6. CASE HealthCheck(c) \/ BackHealth(c) \/ BackThrows(c)
  <2>1. PICK a \in {"updated", "rolled_back", "failed"} : Answer(c, a)
    BY <1>6 DEF HealthCheck, BackHealth, BackThrows
  <2>2. up' \in [Callers -> Update \cup Idle] /\ offer' \in Tags \cup {None} /\ Others(c)
    BY <2>1, AnswerUp DEF Others
  <2>3. Types'
    BY <1>1, <1>6, <2>2 DEF HealthCheck, BackHealth, BackThrows, Types
  <2>4. QED
    BY <2>2, <2>3 DEF UpdTypeOK, Types
<1>7. QED
  BY <1>2, <1>3, <1>4, <1>5, <1>6 DEF UpdateStep

LEMMA StepTypes == UpdTypeOK /\ [UpdNext]_updVars => UpdTypeOK'
<1> SUFFICES ASSUME UpdTypeOK, [UpdNext]_updVars PROVE UpdTypeOK'
  OBVIOUS
<1> USE DEF past, given
<1>1. Types
  BY TypesAre
<1>2. ASSUME NEW t \in Tags, Publish(t) PROVE Types'
  BY <1>1, <1>2 DEF Publish, Types
<1>3. ASSUME CheckForUpdates PROVE Types'
  <2>1. offer' \in Tags \cup {None}
    BY <1>1, <1>3 DEF CheckForUpdates, Types
  <2>2. UNCHANGED <<restarts, published, tree, current, running, up, cut, overlapped,
                    collided, applies, crashes>>
    BY <1>3 DEF CheckForUpdates
  <2>3. QED
    BY <1>1, <2>1, <2>2 DEF Types
<1>4. ASSUME NEW c \in Callers, NEW t \in Tags, StartApply(c, t) PROVE Types'
  <2>1. [pc |-> "fetch", tag |-> t, previous |-> current] \in Update
    BY <1>1 DEF Types, Update
  <2>2. up' \in [Callers -> Update \cup Idle]
    BY <1>1, <1>4, <2>1 DEF StartApply, Types
  <2>3. applies' \in 0..MaxApplies
    BY <1>1, <1>4, UpdaterBounds DEF StartApply, Types
  <2>4. QED
    BY <1>1, <1>4, <2>2, <2>3 DEF StartApply, Types
<1>5. ASSUME Crash PROVE Types'
  <2>1. PICK kill : Launch(kill) /\ up' = Killed(kill)
    BY <1>5 DEF Crash
  <2>2. up' \in [Callers -> Update \cup Idle]
    BY <2>1, KilledUp
  <2>3. running' \in Tags /\ offer' = None /\ cut' \in BOOLEAN
    BY <1>1, <2>1 DEF Launch, Types
  <2>4. crashes' \in 0..MaxCrashes
    BY <1>1, <1>5, UpdaterBounds DEF Crash, Types
  <2>5. UNCHANGED <<restarts, published, tree, current, overlapped, collided, applies>>
    BY <1>5 DEF Crash
  <2>6. QED
    BY <1>1, <2>2, <2>3, <2>4, <2>5 DEF Types
<1>6. ASSUME UNCHANGED updVars PROVE Types'
  <2>1. UNCHANGED <<restarts, published, tree, current, running, up, offer, cut, overlapped,
                    collided, applies, crashes>>
    BY <1>6 DEF updVars
  <2>2. QED
    BY <1>1, <2>1 DEF Types
<1>7. ASSUME Types' PROVE UpdTypeOK'
  BY <1>7 DEF Types, UpdTypeOK
<1>8. QED
  BY <1>2, <1>3, <1>4, <1>5, <1>6, <1>7, UpdateStepTypes DEF UpdNext

(* The link, the service, the releases and the updates keep their types.   *)
THEOREM TypeCorrect == UpdSpec => []UpdTypeOK
  BY InitTypes, StepTypes, PTL DEF UpdSpec

-----------------------------------------------------------------------------
(* A release that is built.                                                *)

(* Unless two updates ever installed the same release at once, those under *)
(* way install different ones, and what the link points to, what runs and  *)
(* what an update would go back to is built; an update finds no directory  *)
(* of its release until it makes it, and builds it before it swaps.        *)
Built ==
  /\ tree[current] = "built" /\ tree[running] = "built"
  /\ \A c \in Callers : up[c].pc # "idle" =>
       /\ tree[up[c].previous] = "built"
       /\ up[c].pc = "extract" => tree[up[c].tag] = "absent"
       /\ up[c].pc \in {"swap", "restart", "health"} => tree[up[c].tag] = "built"
  /\ \A c, d \in Callers : up[c].pc # "idle" /\ up[d].pc # "idle" /\ c # d =>
       up[c].tag # up[d].tag

BuiltInv == ~collided => Built

(* What is built stays built.                                              *)
Kept == \A t \in Tags : tree[t] = "built" => tree'[t] = "built"

(* A step that changes one update, and ends others at most.                *)
LEMMA BuiltMove ==
  ASSUME UpdTypeOK, Built, NEW c \in Callers, Others(c), Kept,
         tree'[current'] = "built" /\ tree'[running'] = "built",
         \/ up'[c].pc = "idle"
         \/ /\ up[c].pc # "idle"
            /\ up'[c].tag = up[c].tag /\ up'[c].previous = up[c].previous
            /\ up'[c].pc = "extract" => tree'[up[c].tag] = "absent"
            /\ up'[c].pc \in {"swap", "restart", "health"} => tree'[up[c].tag] = "built",
         \A t \in Tags : (up[c].pc = "idle" \/ t # up[c].tag) => tree'[t] = tree[t]
  PROVE  Built'
<1>1. \A d \in Callers : up[d].pc # "idle" => up[d].tag \in Tags /\ up[d].previous \in Tags
  BY BusyUpdate
<1>2. \A d \in Callers \ {c} : up'[d].pc # "idle" => up'[d] = up[d]
  BY EndedIsIdle DEF Others
<1>3. \A d \in Callers : up'[d].pc # "idle" =>
        up[d].pc # "idle" /\ up'[d].tag = up[d].tag /\ up'[d].previous = up[d].previous
  BY <1>2
<1>4. \A d \in Callers : up'[d].pc # "idle" => tree'[up'[d].previous] = "built"
  BY <1>1, <1>3 DEF Built, Kept
<1>5. ASSUME NEW d \in Callers, up'[d].pc # "idle"
      PROVE  /\ up'[d].pc = "extract" => tree'[up'[d].tag] = "absent"
             /\ up'[d].pc \in {"swap", "restart", "health"} => tree'[up'[d].tag] = "built"
  <2>1. CASE d = c
    BY <1>3, <1>5, <2>1
  <2>2. CASE d # c
    <3>1. up'[d] = up[d] /\ up[d].pc # "idle"
      BY <1>2, <1>5, <2>2
    <3>2. tree'[up[d].tag] = tree[up[d].tag]
      BY <1>1, <2>2, <3>1 DEF Built
    <3>3. QED
      BY <3>1, <3>2 DEF Built
  <2>3. QED
    BY <2>1, <2>2
<1>6. \A d, e \in Callers : up'[d].pc # "idle" /\ up'[e].pc # "idle" /\ d # e =>
        up'[d].tag # up'[e].tag
  BY <1>3 DEF Built
<1>7. QED
  BY <1>4, <1>5, <1>6 DEF Built

LEMMA BuiltUpdateStep ==
  ASSUME UpdTypeOK, Built, NEW c \in Callers, UpdateStep(c)
  PROVE  Built' /\ Kept
<1>1. Others(c)
  BY UpdateStepTypes
<1>2. /\ tree \in [Tags -> {"absent", "partial", "built"}] /\ current \in Tags /\ running \in Tags
      /\ tree[current] = "built" /\ tree[running] = "built"
  BY DEF UpdTypeOK, Built
<1>3. up[c].pc # "idle" =>
        /\ up[c].tag \in Tags /\ up[c].previous \in Tags
        /\ tree[up[c].previous] = "built"
        /\ up[c].pc = "extract" => tree[up[c].tag] = "absent"
        /\ up[c].pc \in {"swap", "restart", "health"} => tree[up[c].tag] = "built"
  BY BusyUpdate DEF Built
<1>4. ASSUME NEW p \in Busyness, up[c].pc # "idle", Goto(c, p)
      PROVE  up'[c].pc = p /\ up'[c].tag = up[c].tag /\ up'[c].previous = up[c].previous
  <2>1. up'[c] = At(c, p)
    BY <1>4, GotoUp
  <2>2. QED
    BY <2>1 DEF At
<1>5. CASE Fetch(c) \/ CheckNotStaged(c) \/ Swap(c) \/ PointBack(c) \/ Throw(c)
  <2>1. PICK p \in {"stage", "extract", "restart", "back_restart", "back"} :
          /\ Goto(c, p)
          /\ p = "extract" => tree[up[c].tag] = "absent"
          /\ p = "restart" => tree[up[c].tag] = "built"
    BY <1>3, <1>5 DEF Fetch, CheckNotStaged, Swap, PointBack, Throw
  <2>2. up[c].pc # "idle" /\ tree' = tree /\ running' = running
    BY <1>5 DEF Fetch, CheckNotStaged, Swap, PointBack, Throw
  <2>3. tree[current'] = "built"
    BY <1>2, <1>3, <1>5 DEF Fetch, CheckNotStaged, Swap, PointBack, Throw
  <2>4. up'[c].pc = p /\ up'[c].tag = up[c].tag /\ up'[c].previous = up[c].previous
    BY <1>4, <2>1, <2>2 DEF Busyness
  <2>5. Kept
    BY <2>2 DEF Kept
  <2>6. QED
    BY <1>1, <1>2, <2>1, <2>2, <2>3, <2>4, <2>5, BuiltMove
<1>6. CASE Extract(c)
  <2>1. up[c].pc = "extract" /\ Goto(c, "build") /\ current' = current /\ running' = running
    BY <1>6 DEF Extract
  <2>2. up'[c].pc = "build" /\ up'[c].tag = up[c].tag /\ up'[c].previous = up[c].previous
    BY <1>4, <2>1 DEF Busyness
  <2>3. tree[up[c].tag] = "absent" /\ \A t \in Tags : t # up[c].tag => tree'[t] = tree[t]
    BY <1>2, <1>3, <1>6, <2>1 DEF Extract
  <2>4. Kept /\ tree'[current'] = "built" /\ tree'[running'] = "built"
    BY <1>2, <2>1, <2>3 DEF Kept
  <2>5. QED
    BY <1>1, <2>1, <2>2, <2>3, <2>4, BuiltMove
<1>7. CASE Build(c)
  <2>1. up[c].pc = "build" /\ Goto(c, "swap") /\ current' = current /\ running' = running
    BY <1>7 DEF Build
  <2>2. up'[c].pc = "swap" /\ up'[c].tag = up[c].tag /\ up'[c].previous = up[c].previous
    BY <1>4, <2>1 DEF Busyness
  <2>3. tree'[up[c].tag] = "built" /\ \A t \in Tags : t # up[c].tag => tree'[t] = tree[t]
    BY <1>2, <1>3, <1>7, <2>1 DEF Build
  <2>4. Kept /\ tree'[current'] = "built" /\ tree'[running'] = "built"
    BY <1>2, <2>1, <2>3 DEF Kept
  <2>5. QED
    BY <1>1, <2>1, <2>2, <2>3, <2>4, BuiltMove
<1>8. ASSUME NEW p \in {"restart", "back_restart"}, NEW q \in {"health", "back_health"},
             Restart(c, p, q), q = "health" => p = "restart"
      PROVE  Built' /\ Kept
  <2>1. up[c].pc = p /\ tree' = tree /\ current' = current /\ running' \in {current, running}
    BY <1>8 DEF Restart, Launch
  <2>2. up'[c] = At(c, q) \/ up'[c] = Ended("none")
    BY <1>8, RestartUp DEF Busyness
  <2>3. \/ up'[c].pc = "idle"
        \/ up'[c].pc = q /\ up'[c].tag = up[c].tag /\ up'[c].previous = up[c].previous
    BY <2>2, EndedIsIdle DEF At
  <2>4. Kept /\ tree'[current'] = "built" /\ tree'[running'] = "built"
    BY <1>2, <2>1 DEF Kept
  <2>5. QED
    BY <1>1, <1>3, <1>8, <2>1, <2>3, <2>4, BuiltMove
<1>9. CASE HealthCheck(c) \/ BackHealth(c) \/ BackThrows(c)
  <2>1. PICK a \in {"updated", "rolled_back", "failed"} : Answer(c, a)
    BY <1>9 DEF HealthCheck, BackHealth, BackThrows
  <2>2. up'[c].pc = "idle"
    BY <2>1, AnswerUp, EndedIsIdle
  <2>3. tree' = tree /\ current' = current /\ running' = running
    BY <1>9 DEF HealthCheck, BackHealth, BackThrows
  <2>4. Kept /\ tree'[current'] = "built" /\ tree'[running'] = "built"
    BY <1>2, <2>3 DEF Kept
  <2>5. QED
    BY <1>1, <2>2, <2>3, <2>4, BuiltMove
<1>10. Restart(c, "restart", "health") \/ Restart(c, "back_restart", "back_health") =>
         Built' /\ Kept
  BY <1>8
<1>11. QED
  BY <1>5, <1>6, <1>7, <1>9, <1>10 DEF UpdateStep

LEMMA BuiltStep ==
  ASSUME UpdTypeOK, BuiltInv, [UpdNext]_updVars
  PROVE  BuiltInv' /\ (~collided' => Kept)
<1> SUFFICES ASSUME ~collided' PROVE Built' /\ Kept
  BY DEF BuiltInv
<1> USE DEF past, given
<1>1. ~collided
  BY DEF UpdNext, updVars, Publish, CheckForUpdates, StartApply, Crash, UpdateStep, Fetch,
     CheckNotStaged, Extract, Build, Swap, Restart, HealthCheck, Throw, PointBack, BackHealth,
     BackThrows
<1>2. Built
  BY <1>1 DEF BuiltInv
<1>3. CASE \/ \E t \in Tags : Publish(t)
           \/ CheckForUpdates
           \/ UNCHANGED updVars
  <2>1. tree' = tree /\ current' = current /\ running' = running /\ up' = up
    BY <1>3 DEF Publish, CheckForUpdates, updVars
  <2>2. QED
    BY <1>2, <2>1 DEF Built, Kept
<1>4. ASSUME NEW c \in Callers, NEW t \in Tags, StartApply(c, t) PROVE Built' /\ Kept
  <2>1. /\ up \in [Callers -> Update \cup Idle]
        /\ up' = [up EXCEPT ![c] = [pc |-> "fetch", tag |-> t, previous |-> current]]
        /\ tree' = tree /\ current' = current /\ running' = running
        /\ \A d \in Callers : up[d].pc # "idle" => up[d].tag # t
    BY <1>4 DEF StartApply, UpdTypeOK
  <2>2. /\ up'[c].pc = "fetch" /\ up'[c].tag = t /\ up'[c].previous = current
        /\ \A d \in Callers \ {c} : up'[d] = up[d]
    BY <2>1
  <2>3. \A d \in Callers : up'[d].pc # "idle" =>
          /\ tree'[up'[d].previous] = "built"
          /\ up'[d].pc = "extract" => tree'[up'[d].tag] = "absent"
          /\ up'[d].pc \in {"swap", "restart", "health"} => tree'[up'[d].tag] = "built"
    BY <1>2, <2>1, <2>2 DEF Built
  <2>4. \A d, e \in Callers : up'[d].pc # "idle" /\ up'[e].pc # "idle" /\ d # e =>
          up'[d].tag # up'[e].tag
    BY <1>2, <2>1, <2>2 DEF Built
  <2>5. QED
    BY <1>2, <2>1, <2>3, <2>4 DEF Built, Kept
<1>5. CASE Crash
  <2>1. PICK kill : Launch(kill) /\ up' = Killed(kill)
    BY <1>5 DEF Crash
  <2>2. tree' = tree /\ current' = current /\ running' = current
    BY <1>5, <2>1 DEF Crash, Launch
  <2>3. \A d \in Callers : up'[d].pc # "idle" => up'[d] = up[d]
    BY <2>1, KilledUp, EndedIsIdle
  <2>4. QED
    BY <1>2, <2>2, <2>3 DEF Built, Kept
<1>6. QED
  BY <1>2, <1>3, <1>4, <1>5, BuiltUpdateStep DEF UpdNext

LEMMA BuiltInit == UpdInit => BuiltInv
<1> SUFFICES ASSUME UpdInit PROVE Built
  BY DEF BuiltInv
<1>1. \A c \in Callers : up[c].pc = "idle"
  BY EndedIsIdle DEF UpdInit
<1>2. tree[current] = "built" /\ tree[running] = "built"
  BY TagsAssumption DEF UpdInit
<1>3. QED
  BY <1>1, <1>2 DEF Built

LEMMA BuiltAlways == UpdSpec => [](UpdTypeOK /\ BuiltInv)
<1>1. UpdTypeOK /\ BuiltInv /\ [UpdNext]_updVars => UpdTypeOK' /\ BuiltInv'
  BY StepTypes, BuiltStep
<1>2. QED
  BY <1>1, InitTypes, BuiltInit, PTL DEF UpdSpec

(* The link never points to a release that is not completely built.        *)
THEOREM LinkedIsBuilt == UpdSpec => []CurrentIsBuilt
<1>1. BuiltInv => CurrentIsBuilt
  BY DEF BuiltInv, Built, CurrentIsBuilt
<1>2. QED
  BY <1>1, BuiltAlways, PTL

(* Nothing writes to a release that was built.                             *)
THEOREM BuiltOnce == UpdSpec => ReleasesImmutable
<1>1. UpdTypeOK /\ BuiltInv /\ [UpdNext]_updVars =>
        [~collided' => \A t \in Tags : tree[t] = "built" => tree'[t] = "built"]_updVars
  BY BuiltStep DEF Kept
<1>2. QED
  BY <1>1, BuiltAlways, PTL DEF UpdSpec, ReleasesImmutable

-----------------------------------------------------------------------------
(* Updates that do not overlap.                                            *)

(* Unless updates ever overlapped, at most one is under way; it knows      *)
(* where the link points, and what runs once it has restarted the service. *)
Sequential ==
  /\ \A c, d \in Callers : up[c].pc # "idle" /\ up[d].pc # "idle" => c = d
  /\ \A c \in Callers :
       /\ up[c].pc \in {"fetch", "stage", "extract", "build", "swap"} =>
            current = up[c].previous
       /\ up[c].pc \in {"restart", "health"} => current = up[c].tag
       /\ up[c].pc \in {"back_restart", "back_health"} => current = up[c].previous
       /\ up[c].pc \in {"health", "back_health"} /\ restarts => running = current

SequentialInv == ~overlapped => Sequential

(* What Sequential says of one update.                                     *)
Tracks(c) ==
  /\ up[c].pc \in {"fetch", "stage", "extract", "build", "swap"} => current = up[c].previous
  /\ up[c].pc \in {"restart", "health"} => current = up[c].tag
  /\ up[c].pc \in {"back_restart", "back_health"} => current = up[c].previous
  /\ up[c].pc \in {"health", "back_health"} /\ restarts => running = current

LEMMA SequentialUpdateStep ==
  ASSUME UpdTypeOK, Sequential, NEW c \in Callers, UpdateStep(c)
  PROVE  Sequential'
<1>1. up[c].pc # "idle" /\ restarts' = restarts
  BY DEF UpdateStep, Fetch, CheckNotStaged, Extract, Build, Swap, Restart, HealthCheck, Throw,
     PointBack, BackHealth, BackThrows, given
<1>2. \A d \in Callers \ {c} : up[d].pc = "idle" /\ up'[d].pc = "idle"
  <2>1. Others(c)
    BY UpdateStepTypes
  <2>2. QED
    BY <1>1, <2>1, EndedIsIdle DEF Sequential, Others
<1>3. Tracks(c)
  BY DEF Sequential, Tracks
<1>4. ASSUME NEW p \in Busyness, Goto(c, p)
      PROVE  up'[c].pc = p /\ up'[c].tag = up[c].tag /\ up'[c].previous = up[c].previous
  <2>1. up'[c] = At(c, p)
    BY <1>1, <1>4, GotoUp
  <2>2. QED
    BY <2>1 DEF At
<1>5. CASE Fetch(c) \/ CheckNotStaged(c) \/ Extract(c) \/ Build(c)
  <2>1. PICK p \in {"stage", "extract", "build", "swap"} : Goto(c, p)
    BY <1>5 DEF Fetch, CheckNotStaged, Extract, Build
  <2>2. up'[c].pc = p /\ up'[c].previous = up[c].previous
    BY <1>4, <2>1 DEF Busyness
  <2>3. current' = current /\ up[c].pc \in {"fetch", "stage", "extract", "build"}
    BY <1>5 DEF Fetch, CheckNotStaged, Extract, Build
  <2>4. Tracks(c)'
    BY <1>3, <2>1, <2>2, <2>3 DEF Tracks
  <2>5. QED
    BY <1>2, <2>4 DEF Sequential, Tracks
<1>6. CASE Swap(c)
  <2>1. current' = up[c].tag /\ up'[c].pc = "restart" /\ up'[c].tag = up[c].tag
    BY <1>4, <1>6 DEF Swap, Busyness
  <2>2. Tracks(c)'
    BY <2>1 DEF Tracks
  <2>3. QED
    BY <1>2, <2>2 DEF Sequential, Tracks
<1>7. CASE PointBack(c)
  <2>1. /\ current' = up[c].previous
        /\ up'[c].pc = "back_restart" /\ up'[c].previous = up[c].previous
    BY <1>4, <1>7 DEF PointBack, Busyness
  <2>2. Tracks(c)'
    BY <2>1 DEF Tracks
  <2>3. QED
    BY <1>2, <2>2 DEF Sequential, Tracks
<1>8. CASE Throw(c)
  <2>1. up'[c].pc = "back"
    BY <1>4, <1>8 DEF Throw, Busyness
  <2>2. Tracks(c)'
    BY <2>1 DEF Tracks
  <2>3. QED
    BY <1>2, <2>2 DEF Sequential, Tracks
<1>9. ASSUME NEW p \in Busyness, NEW q \in {"health", "back_health"}, Restart(c, p, q),
             p = IF q = "health" THEN "restart" ELSE "back_restart"
      PROVE  Sequential'
  <2>1. up[c].pc = p /\ current' = current
    BY <1>9 DEF Restart
  <2>2. \/ up'[c] = At(c, q) /\ (restarts => running' = current)
        \/ up'[c] = Ended("none")
    BY <1>9, RestartUp DEF Busyness
  <2>3. Tracks(c)'
    <3>1. CASE up'[c] = Ended("none")
      BY <3>1, EndedIsIdle DEF Tracks
    <3>2. CASE up'[c] = At(c, q) /\ (restarts => running' = current)
      <4>1. up'[c].pc = q /\ up'[c].tag = up[c].tag /\ up'[c].previous = up[c].previous
        BY <3>2 DEF At
      <4>2. QED
        BY <1>1, <1>3, <1>9, <2>1, <3>2, <4>1 DEF Tracks
    <3>3. QED
      BY <2>2, <3>1, <3>2
  <2>4. QED
    BY <1>2, <2>3 DEF Sequential, Tracks
<1>10. CASE HealthCheck(c) \/ BackHealth(c) \/ BackThrows(c)
  <2>1. PICK a \in {"updated", "rolled_back", "failed"} : Answer(c, a)
    BY <1>10 DEF HealthCheck, BackHealth, BackThrows
  <2>2. up'[c].pc = "idle"
    BY <2>1, AnswerUp, EndedIsIdle
  <2>3. QED
    BY <1>2, <2>2 DEF Sequential
<1>11. Restart(c, "restart", "health") \/ Restart(c, "back_restart", "back_health") => Sequential'
  BY <1>9 DEF Busyness
<1>12. QED
  BY <1>5, <1>6, <1>7, <1>8, <1>10, <1>11 DEF UpdateStep

LEMMA SequentialStep == UpdTypeOK /\ SequentialInv /\ [UpdNext]_updVars => SequentialInv'
<1> SUFFICES ASSUME UpdTypeOK, SequentialInv, [UpdNext]_updVars, ~overlapped' PROVE Sequential'
  BY DEF SequentialInv
<1> USE DEF past, given
<1>1. ~overlapped
  BY DEF UpdNext, updVars, Publish, CheckForUpdates, StartApply, Crash, UpdateStep, Fetch,
     CheckNotStaged, Extract, Build, Swap, Restart, HealthCheck, Throw, PointBack, BackHealth,
     BackThrows
<1>2. Sequential
  BY <1>1 DEF SequentialInv
<1>3. CASE \/ \E t \in Tags : Publish(t)
           \/ CheckForUpdates
           \/ UNCHANGED updVars
  <2>1. /\ current' = current /\ running' = running /\ up' = up /\ restarts' = restarts
    BY <1>3 DEF Publish, CheckForUpdates, updVars
  <2>2. QED
    BY <1>2, <2>1 DEF Sequential
<1>4. ASSUME NEW c \in Callers, NEW t \in Tags, StartApply(c, t) PROVE Sequential'
  <2>1. /\ up \in [Callers -> Update \cup Idle]
        /\ up' = [up EXCEPT ![c] = [pc |-> "fetch", tag |-> t, previous |-> current]]
        /\ current' = current /\ ~Busy
    BY <1>4 DEF StartApply, UpdTypeOK
  <2>2. /\ up'[c].pc = "fetch" /\ up'[c].previous = current
        /\ \A d \in Callers \ {c} : up'[d] = up[d] /\ up[d].pc = "idle"
    BY <2>1 DEF Busy
  <2>3. QED
    BY <2>1, <2>2 DEF Sequential
<1>5. CASE Crash
  <2>1. PICK kill : Launch(kill) /\ up' = Killed(kill)
    BY <1>5 DEF Crash
  <2>2. current' = current /\ running' = current
    BY <1>5, <2>1 DEF Crash, Launch
  <2>3. \A d \in Callers : up'[d].pc # "idle" => up'[d] = up[d]
    BY <2>1, KilledUp, EndedIsIdle
  <2>4. \A d \in Callers : Tracks(d)'
    BY <1>2, <2>2, <2>3 DEF Sequential, Tracks
  <2>5. QED
    BY <1>2, <2>3, <2>4 DEF Sequential, Tracks
<1>6. QED
  BY <1>2, <1>3, <1>4, <1>5, SequentialUpdateStep DEF UpdNext

LEMMA SequentialAlways == UpdSpec => [](UpdTypeOK /\ SequentialInv)
<1>1. UpdInit => SequentialInv
  BY EndedIsIdle DEF UpdInit, SequentialInv, Sequential
<1>2. UpdTypeOK /\ SequentialInv /\ [UpdNext]_updVars => UpdTypeOK' /\ SequentialInv'
  BY StepTypes, SequentialStep
<1>3. QED
  BY <1>1, <1>2, InitTypes, PTL DEF UpdSpec

(* What one update answers in a step.                                      *)
TrueAnswer(c) ==
  up[c].pc # "idle" /\ up'[c].pc = "idle" =>
    /\ up'[c].answer = "updated" =>
         /\ current = up[c].tag
         /\ restarts => running = up[c].tag /\ Healthy
    /\ up'[c].answer = "rolled_back" =>
         /\ current = up[c].previous
         /\ restarts => running = up[c].previous /\ Healthy

LEMMA AnswersStep ==
  ASSUME UpdTypeOK, Sequential, [UpdNext]_updVars, NEW c \in Callers
  PROVE  TrueAnswer(c)
<1>1. ASSUME up'[c] \in {up[c], Ended("none"), Ended("failed")} \/ up'[c].pc # "idle"
      PROVE  TrueAnswer(c)
  BY <1>1, EndedIsIdle DEF TrueAnswer
<1>2. Tracks(c)
  BY DEF Sequential, Tracks
<1>3. CASE UNCHANGED updVars \/ CheckForUpdates \/ \E t \in Tags : Publish(t)
  <2>1. up' = up
    BY <1>3 DEF updVars, CheckForUpdates, Publish
  <2>2. QED
    BY <1>1, <2>1
<1>4. CASE Crash
  <2>1. PICK kill : up' = Killed(kill)
    BY <1>4 DEF Crash
  <2>2. QED
    BY <1>1, <2>1, KilledUp
<1>5. ASSUME NEW d \in Callers, NEW t \in Tags, StartApply(d, t) PROVE TrueAnswer(c)
  <2>1. /\ up \in [Callers -> Update \cup Idle]
        /\ up' = [up EXCEPT ![d] = [pc |-> "fetch", tag |-> t, previous |-> current]]
    BY <1>5 DEF StartApply, UpdTypeOK
  <2>2. up'[c].pc = "fetch" \/ up'[c] = up[c]
    BY <2>1
  <2>3. QED
    BY <1>1, <2>2
<1>6. ASSUME NEW d \in Callers \ {c}, UpdateStep(d) PROVE TrueAnswer(c)
  <2>1. up'[c] \in {up[c], Ended("none")}
    BY <1>6, UpdateStepTypes DEF Others
  <2>2. QED
    BY <1>1, <2>1
<1>7. CASE \/ Fetch(c) \/ CheckNotStaged(c) \/ Extract(c) \/ Build(c) \/ Swap(c)
           \/ Throw(c) \/ PointBack(c)
  <2>1. PICK p \in Busyness : Goto(c, p) /\ up[c].pc # "idle"
    BY <1>7 DEF Fetch, CheckNotStaged, Extract, Build, Swap, Throw, PointBack, Busyness
  <2>2. up'[c] = At(c, p) /\ p # "idle"
    BY <2>1, GotoUp DEF Busyness
  <2>3. QED
    BY <1>1, <2>2 DEF At
<1>8. CASE Restart(c, "restart", "health") \/ Restart(c, "back_restart", "back_health")
  <2>1. PICK p \in Busyness, q \in Busyness : Restart(c, p, q)
    BY <1>8 DEF Busyness
  <2>2. (up'[c] = At(c, q) \/ up'[c] = Ended("none")) /\ q # "idle"
    BY <2>1, RestartUp DEF Busyness
  <2>3. QED
    BY <1>1, <2>2 DEF At
<1>9. CASE HealthCheck(c)
  <2>1. up[c].pc = "health" /\ Healthy /\ Answer(c, "updated")
    BY <1>9 DEF HealthCheck
  <2>2. up'[c] = Ended("updated")
    BY <2>1, AnswerUp
  <2>3. current = up[c].tag /\ (restarts => running = current)
    BY <1>2, <2>1 DEF Tracks
  <2>4. up'[c].answer = "updated"
    BY <2>2, EndedIsIdle
  <2>5. QED
    BY <2>1, <2>3, <2>4 DEF TrueAnswer
<1>10. CASE BackHealth(c)
  <2>1. /\ up[c].pc = "back_health"
        /\ (Healthy /\ Answer(c, "rolled_back")) \/ Answer(c, "failed")
    BY <1>10 DEF BackHealth
  <2>2. current = up[c].previous /\ (restarts => running = current)
    BY <1>2, <2>1 DEF Tracks
  <2>3. (Healthy /\ up'[c] = Ended("rolled_back")) \/ up'[c] = Ended("failed")
    BY <2>1, AnswerUp
  <2>4. Ended("rolled_back").answer = "rolled_back"
    BY EndedIsIdle
  <2>5. QED
    BY <1>1, <2>2, <2>3, <2>4 DEF TrueAnswer
<1>11. CASE BackThrows(c)
  <2>1. up'[c] = Ended("failed")
    BY <1>11, AnswerUp DEF BackThrows
  <2>2. QED
    BY <1>1, <2>1
<1>12. ASSUME UpdateStep(c) PROVE TrueAnswer(c)
  BY <1>7, <1>8, <1>9, <1>10, <1>11, <1>12 DEF UpdateStep
<1>13. QED
  BY <1>3, <1>4, <1>5, <1>6, <1>12 DEF UpdNext

(* Where updates do not overlap, what they answer is so.                   *)
THEOREM AnswerCorrect == UpdSpec => AnswerIsTrue
<1>1. UpdTypeOK /\ SequentialInv /\ [UpdNext]_updVars =>
        [~overlapped => \A c \in Callers : up[c].pc # "idle" /\ up'[c].pc = "idle" =>
           /\ up'[c].answer = "updated" =>
                /\ current = up[c].tag
                /\ restarts => running = up[c].tag /\ Healthy
           /\ up'[c].answer = "rolled_back" =>
                /\ current = up[c].previous
                /\ restarts => running = up[c].previous /\ Healthy]_updVars
  BY AnswersStep DEF SequentialInv, TrueAnswer
<1>2. QED
  BY <1>1, SequentialAlways, PTL DEF UpdSpec, AnswerIsTrue

-----------------------------------------------------------------------------
(* The service is left in health.                                          *)

(* If moreover no update was killed and every restart succeeds, there is a *)
(* healthy release to go back to, and it runs when no update is under way. *)
GoodInv ==
  restarts /\ ~overlapped /\ ~cut =>
    /\ \A c \in Callers : up[c].pc # "idle" => up[c].previous \in Good
    /\ LeftHealthy

LEMMA GoodStep ==
  ASSUME UpdTypeOK, SequentialInv, GoodInv, [UpdNext]_updVars
  PROVE  GoodInv'
<1> SUFFICES ASSUME restarts', ~overlapped', ~cut'
             PROVE  /\ \A c \in Callers : up'[c].pc # "idle" => up'[c].previous \in Good
                    /\ (\A c \in Callers : up'[c].pc = "idle") =>
                         running' \in Good /\ current' = running'
  BY DEF GoodInv, LeftHealthy, Healthy, Busy
<1> USE DEF past, given
<1>1. restarts /\ ~overlapped
  <2>1. restarts' = restarts
    BY DEF UpdNext, updVars, Publish, CheckForUpdates, StartApply, Crash, UpdateStep, Fetch,
       CheckNotStaged, Extract, Build, Swap, Restart, HealthCheck, Throw, PointBack, BackHealth,
       BackThrows
  <2>2. ~overlapped
    BY DEF UpdNext, updVars, Publish, CheckForUpdates, StartApply, Crash, UpdateStep, Fetch,
       CheckNotStaged, Extract, Build, Swap, Restart, HealthCheck, Throw, PointBack, BackHealth,
       BackThrows
  <2>3. QED
    BY <2>1, <2>2
<1>2. ASSUME ~cut
      PROVE  /\ \A c \in Callers : up[c].pc # "idle" => up[c].previous \in Good
             /\ (\A c \in Callers : up[c].pc = "idle") => running \in Good /\ current = running
  BY <1>1, <1>2 DEF GoodInv, LeftHealthy, Healthy, Busy
<1>3. Sequential
  BY <1>1 DEF SequentialInv
<1>4. CASE \/ \E t \in Tags : Publish(t)
           \/ CheckForUpdates
           \/ UNCHANGED updVars
  <2>1. current' = current /\ running' = running /\ up' = up /\ cut' = cut
    BY <1>4 DEF Publish, CheckForUpdates, updVars
  <2>2. QED
    BY <1>2, <2>1
<1>5. ASSUME NEW c \in Callers, NEW t \in Tags, StartApply(c, t)
      PROVE  /\ \A d \in Callers : up'[d].pc # "idle" => up'[d].previous \in Good
             /\ \E d \in Callers : up'[d].pc # "idle"
  <2>1. /\ up \in [Callers -> Update \cup Idle]
        /\ up' = [up EXCEPT ![c] = [pc |-> "fetch", tag |-> t, previous |-> current]]
        /\ cut' = cut /\ ~Busy
    BY <1>5 DEF StartApply, UpdTypeOK
  <2>2. /\ up'[c].pc = "fetch" /\ up'[c].previous = current
        /\ \A d \in Callers \ {c} : up'[d] = up[d] /\ up[d].pc = "idle"
    BY <2>1 DEF Busy
  <2>3. current \in Good
    BY <1>2, <2>1 DEF Busy
  <2>4. QED
    BY <2>2, <2>3
<1>6. ASSUME Crash
      PROVE  /\ \A c \in Callers : up'[c].pc # "idle" => up'[c].previous \in Good
             /\ (\A c \in Callers : up'[c].pc = "idle") =>
                  running' \in Good /\ current' = running'
  <2>1. PICK kill : Launch(kill) /\ up' = Killed(kill)
    BY <1>6 DEF Crash
  <2>2. ~cut /\ up' = up /\ running' = current /\ current' = current
    BY <1>6, <2>1 DEF Crash, Launch
  <2>3. QED
    BY <1>2, <2>2
<1>7. ASSUME NEW c \in Callers, UpdateStep(c)
      PROVE  /\ \A d \in Callers : up'[d].pc # "idle" => up'[d].previous \in Good
             /\ (\A d \in Callers : up'[d].pc = "idle") =>
                  running' \in Good /\ current' = running'
  <2>1. up[c].pc # "idle"
    BY <1>7 DEF UpdateStep, Fetch, CheckNotStaged, Extract, Build, Swap, Restart, HealthCheck,
       Throw, PointBack, BackHealth, BackThrows
  <2>2. \A d \in Callers \ {c} : up'[d].pc = "idle"
    <3>1. Others(c)
      BY <1>7, UpdateStepTypes
    <3>2. QED
      BY <1>3, <2>1, <3>1, EndedIsIdle DEF Sequential, Others
  <2>3. Tracks(c)
    BY <1>3 DEF Sequential, Tracks
  <2>4. ASSUME NEW p \in Busyness, up'[c] = At(c, p), ~cut
        PROVE  up'[c].pc # "idle" /\ up'[c].previous \in Good
    BY <1>2, <2>1, <2>4 DEF At, Busyness
  <2>5. CASE \/ Fetch(c) \/ CheckNotStaged(c) \/ Extract(c) \/ Build(c) \/ Swap(c)
             \/ Throw(c) \/ PointBack(c)
    <3>1. PICK p \in Busyness : Goto(c, p)
      BY <2>5 DEF Fetch, CheckNotStaged, Extract, Build, Swap, Throw, PointBack, Busyness
    <3>2. ~cut
      BY <2>5 DEF Fetch, CheckNotStaged, Extract, Build, Swap, Throw, PointBack
    <3>3. up'[c] = At(c, p)
      BY <2>1, <3>1, GotoUp
    <3>4. up'[c].pc # "idle" /\ up'[c].previous \in Good
      BY <2>4, <3>2, <3>3
    <3>5. QED
      BY <2>2, <3>4
  <2>6. CASE Restart(c, "restart", "health") \/ Restart(c, "back_restart", "back_health")
    <3>1. PICK p \in Busyness, q \in Busyness : Restart(c, p, q)
      BY <2>6 DEF Busyness
    <3>2. ~cut /\ up'[c] = At(c, q)
      BY <3>1, RestartUp
    <3>3. up'[c].pc # "idle" /\ up'[c].previous \in Good
      BY <2>4, <3>2
    <3>4. QED
      BY <2>2, <3>3
  <2>7. CASE HealthCheck(c) \/ BackHealth(c)
    <3>1. PICK a \in {"updated", "rolled_back", "failed"} : Answer(c, a)
      BY <2>7 DEF HealthCheck, BackHealth
    <3>2. up'[c].pc = "idle"
      BY <3>1, AnswerUp, EndedIsIdle
    <3>3. ~cut /\ current' = current /\ running' = running
      <4>1. cut' = cut
        BY <2>7 DEF HealthCheck, BackHealth
      <4>2. current' = current /\ running' = running
        BY <2>7 DEF HealthCheck, BackHealth
      <4>3. QED
        BY <4>1, <4>2
    <3>4. running = current
      BY <1>1, <2>3, <2>7 DEF HealthCheck, BackHealth, Tracks
    <3>5. running \in Good
      <4>1. CASE HealthCheck(c)
        BY <4>1 DEF HealthCheck, Healthy
      <4>2. CASE BackHealth(c)
        <5>1. current = up[c].previous
          BY <2>3, <4>2 DEF BackHealth, Tracks
        <5>2. QED
          BY <1>2, <2>1, <3>3, <3>4, <5>1
      <4>3. QED
        BY <2>7, <4>1, <4>2
    <3>6. QED
      BY <2>2, <3>2, <3>3, <3>4, <3>5
  <2>8. ~BackThrows(c)
    BY DEF BackThrows
  <2>9. QED
    BY <1>7, <2>5, <2>6, <2>7, <2>8 DEF UpdateStep
<1>8. QED
  BY <1>4, <1>5, <1>6, <1>7 DEF UpdNext

(* The service is left in health, if the release installed at first is.    *)
THEOREM HealthCorrect == Base \in Good => (UpdSpec => []LeftHealthy)
<1> SUFFICES ASSUME Base \in Good PROVE UpdSpec => []LeftHealthy
  OBVIOUS
<1>1. UpdInit => GoodInv
  BY EndedIsIdle DEF UpdInit, GoodInv, LeftHealthy, Healthy
<1>2. UpdTypeOK /\ SequentialInv /\ GoodInv /\ [UpdNext]_updVars => GoodInv'
  BY GoodStep
<1>3. GoodInv => LeftHealthy
  BY DEF GoodInv, LeftHealthy
<1>4. QED
  BY <1>1, <1>2, <1>3, SequentialAlways, PTL DEF UpdSpec

-----------------------------------------------------------------------------
(* compareVersions computes the precedence of versions.                    *)

LEMMA MinIs ==
  ASSUME NEW S \in SUBSET Nat, S # {}
  PROVE  Min(S) \in S /\ \A y \in S : Min(S) <= y
<1> DEFINE R == OpToRel(<, Nat)
<1>1. IsWellFoundedOn(R, Nat)
  BY NatLessThanWellFounded
<1>2. \A x, y \in Nat : y < x => <<y, x>> \in R
  BY DEF OpToRel
<1> HIDE DEF R
<1>3. PICK x \in S : \A y \in S : ~ (<<y, x>> \in R)
  BY <1>1, WFMin
<1>4. x \in Nat /\ \A y \in S : y \in Nat /\ ~(y < x)
  BY <1>2, <1>3
<1>5. \A y \in S : x <= y
  BY <1>4
<1>6. QED
  BY <1>3, <1>5 DEF Min

(* The least of a set, when it is known.                                   *)
LEMMA MinIsThis ==
  ASSUME NEW S \in SUBSET Nat, NEW m \in S, \A y \in S : m <= y
  PROVE  Min(S) = m
<1>1. Min(S) \in S /\ Min(S) <= m /\ m <= Min(S)
  BY MinIs
<1>2. Min(S) \in Nat /\ m \in Nat
  BY <1>1
<1> HIDE DEF Min
<1>3. QED
  BY <1>1, <1>2

LEMMA IdsCompared ==
  ASSUME NEW x \in Identifier, NEW y \in Identifier
  PROVE  /\ CompareIds(x, y) \in Int
         /\ CompareIds(x, y) > 0 <=> LessId(y, x)
         /\ CompareIds(x, y) < 0 <=> LessId(x, y)
         /\ CompareIds(x, y) = 0 <=> x = y
<1>1. /\ x.kind \in {"number", "word"} /\ y.kind \in {"number", "word"}
      /\ x.rank \in Nat /\ y.rank \in Nat
      /\ x = y <=> x.kind = y.kind /\ x.rank = y.rank
  BY DEF Identifier
<1>2. QED
  BY <1>1 DEF CompareIds, LessId

Differ(a, b) == {i \in 1..Max({Len(a), Len(b)}) :
                   i > Len(a) \/ i > Len(b) \/ CompareIds(a[i], b[i]) # 0}

LEMMA MaxOfTwo ==
  ASSUME NEW m \in Nat, NEW n \in Nat
  PROVE  Max({m, n}) = IF m >= n THEN m ELSE n
BY DEF Max

(* Where two prereleases differ, and where they do not.                    *)
LEMMA DifferIs ==
  ASSUME NEW a \in Seq(Identifier), NEW b \in Seq(Identifier)
  PROVE  /\ Differ(a, b) \in SUBSET Nat
         /\ \A i \in Nat \ {0} :
              i \in Differ(a, b) <=>
                \/ i > Len(a) /\ i <= Len(b)
                \/ i > Len(b) /\ i <= Len(a)
                \/ i <= Len(a) /\ i <= Len(b) /\ a[i] # b[i]
<1>1. Len(a) \in Nat /\ Len(b) \in Nat
  OBVIOUS
<1>2. Max({Len(a), Len(b)}) \in Nat
  BY <1>1, MaxOfTwo
<1>3. \A i \in Nat \ {0} : i <= Len(a) /\ i <= Len(b) =>
        (CompareIds(a[i], b[i]) = 0 <=> a[i] = b[i])
  <2>1. \A i \in Nat \ {0} : i <= Len(a) /\ i <= Len(b) =>
          a[i] \in Identifier /\ b[i] \in Identifier
    OBVIOUS
  <2>2. QED
    BY <2>1, IdsCompared
<1>4. \A i \in Nat : i \in 1..Max({Len(a), Len(b)}) <=> i > 0 /\ (i <= Len(a) \/ i <= Len(b))
  BY <1>1, MaxOfTwo
<1>5. Differ(a, b) \in SUBSET Nat
  BY <1>2 DEF Differ
<1>6. ASSUME NEW i \in Nat \ {0}
      PROVE  i \in Differ(a, b) <=>
               /\ i <= Len(a) \/ i <= Len(b)
               /\ i > Len(a) \/ i > Len(b) \/ CompareIds(a[i], b[i]) # 0
  <2> DEFINE m == Max({Len(a), Len(b)})
             apart == i > Len(a) \/ i > Len(b) \/ CompareIds(a[i], b[i]) # 0
  <2>1. i \in Differ(a, b) <=> i \in 1..m /\ apart
    BY DEF Differ
  <2>2. i \in 1..m <=> i <= Len(a) \/ i <= Len(b)
    <3>1. i \in Nat /\ i > 0
      OBVIOUS
    <3>2. QED
      BY <1>4, <3>1
  <2> HIDE DEF m, apart
  <2>3. QED
    BY <2>1, <2>2 DEF apart
<1>7. ASSUME NEW i \in Nat \ {0}
      PROVE  i \in Differ(a, b) <=>
               \/ i > Len(a) /\ i <= Len(b)
               \/ i > Len(b) /\ i <= Len(a)
               \/ i <= Len(a) /\ i <= Len(b) /\ a[i] # b[i]
  BY <1>1, <1>3, <1>6
<1>8. QED
  BY <1>5, <1>7

BelowId(s, t) ==
  \E n \in 0..Len(s) :
    /\ n < Len(t)
    /\ \A i \in 1..n : s[i] = t[i]
    /\ n = Len(s) \/ LessId(s[n + 1], t[n + 1])

LEMMA PreCompared ==
  ASSUME NEW a \in Seq(Identifier), NEW b \in Seq(Identifier)
  PROVE  /\ ComparePre(a, b) > 0 => BelowId(b, a)
         /\ BelowId(a, b) => ComparePre(a, b) < 0
         /\ ComparePre(a, b) \in Int
<1> DEFINE differ == Differ(a, b)
           first  == Min(differ)
<1>1. Len(a) \in Nat /\ Len(b) \in Nat
  OBVIOUS
<1>2. ComparePre(a, b) = IF differ = {} THEN 0
                         ELSE IF first > Len(a) THEN -1
                         ELSE IF first > Len(b) THEN 1
                         ELSE CompareIds(a[first], b[first])
  BY DEF ComparePre, Differ
<1> HIDE DEF differ, first
<1>3. ASSUME ComparePre(a, b) > 0 PROVE BelowId(b, a)
  <2>1. differ # {}
    BY <1>2, <1>3
  <2>2. first \in differ /\ \A i \in differ : first <= i
    BY <2>1, DifferIs, MinIs DEF differ, first
  <2>3. first \in Nat \ {0}
    BY <1>1, <2>2, MaxOfTwo DEF differ, Differ
  <2>4. first <= Len(a)
    BY <1>1, <1>2, <1>3, <2>1, <2>3
  <2>5. \A i \in 1..first - 1 : i <= Len(a) /\ i <= Len(b) /\ a[i] = b[i]
    BY <1>1, <2>4, <2>2, <2>3, DifferIs DEF differ
  <2>6. first - 1 <= Len(b)
    BY <1>1, <2>3, <2>5
  <2>7. first - 1 = Len(b) \/ LessId(b[first], a[first])
    <3>1. CASE first > Len(b)
      BY <1>1, <2>3, <2>6, <3>1
    <3>2. CASE first <= Len(b)
      <4>1. CompareIds(a[first], b[first]) > 0
        BY <1>1, <1>2, <1>3, <2>4, <2>3, <3>2
      <4>2. a[first] \in Identifier /\ b[first] \in Identifier
        BY <2>4, <2>3, <3>2
      <4>3. QED
        BY <4>1, <4>2, IdsCompared
    <3>3. QED
      BY <1>1, <2>3, <3>1, <3>2
  <2>8. QED
    <3> DEFINE n == first - 1
    <3>1. n \in 0..Len(b) /\ n < Len(a) /\ n + 1 = first
      BY <1>1, <2>4, <2>3, <2>6
    <3>2. \A i \in 1..n : b[i] = a[i]
      BY <2>5
    <3> HIDE DEF n
    <3>3. n = Len(b) \/ LessId(b[n + 1], a[n + 1])
      BY <2>7, <3>1 DEF n
    <3>4. QED
      BY <3>1, <3>2, <3>3 DEF BelowId
<1>4. ASSUME BelowId(a, b) PROVE ComparePre(a, b) < 0
  <2>1. PICK n \in 0..Len(a) : /\ n < Len(b)
                               /\ \A i \in 1..n : a[i] = b[i]
                               /\ n = Len(a) \/ LessId(a[n + 1], b[n + 1])
    BY <1>4 DEF BelowId
  <2>2. n + 1 \in Nat \ {0} /\ n + 1 <= Len(b)
    BY <1>1, <2>1
  <2>3. n < Len(a) => /\ a[n + 1] \in Identifier /\ b[n + 1] \in Identifier
                      /\ CompareIds(a[n + 1], b[n + 1]) < 0
    <3>1. n < Len(a) => a[n + 1] \in Identifier /\ b[n + 1] \in Identifier
      BY <1>1, <2>2
    <3>2. n < Len(a) => n # Len(a)
      BY <1>1
    <3>3. n < Len(a) => LessId(a[n + 1], b[n + 1])
      BY <2>1, <3>2
    <3>4. QED
      BY <3>1, <3>3, IdsCompared
  <2>4. n < Len(a) => a[n + 1] # b[n + 1]
    BY <2>3, IdsCompared
  <2>5. n + 1 \in differ
    BY <1>1, <2>1, <2>2, <2>4, DifferIs DEF differ
  <2>6. \A i \in differ : n + 1 <= i
    <3>1. \A i \in differ : i \in Nat \ {0}
      BY <1>1, MaxOfTwo DEF differ, Differ
    <3>2. \A i \in 1..n : i \notin differ
      BY <1>1, <2>1, <3>1, DifferIs DEF differ
    <3>3. QED
      BY <1>1, <3>1, <3>2
  <2>7. first = n + 1
    BY <2>5, <2>6, DifferIs, MinIsThis DEF first, differ
  <2>8. QED
    BY <1>1, <1>2, <2>1, <2>2, <2>3, <2>5, <2>7
<1>5. ComparePre(a, b) \in Int
  <2>1. CASE differ = {}
    BY <1>2, <2>1
  <2>2. CASE differ # {}
    <3>1. first \in differ
      BY <2>2, DifferIs, MinIs DEF differ, first
    <3>2. first \in Nat \ {0}
      BY <1>1, <3>1, MaxOfTwo DEF differ, Differ
    <3>3. first <= Len(a) /\ first <= Len(b) => CompareIds(a[first], b[first]) \in Int
      <4>1. first <= Len(a) /\ first <= Len(b) =>
              a[first] \in Identifier /\ b[first] \in Identifier
        BY <1>1, <3>2
      <4>2. QED
        BY <4>1, IdsCompared
    <3>4. QED
      BY <1>1, <1>2, <3>2, <3>3
  <2>3. QED
    BY <2>1, <2>2
<1>6. QED
  BY <1>3, <1>4, <1>5

LEMMA CoreCompared ==
  ASSUME NEW v \in Version, NEW w \in Version
  PROVE  LET differ == {i \in 1..3 : v.core[i] # w.core[i]}
             m      == Min(differ)
             under(s, t) == \E n \in 0..3 : /\ n < 3 /\ \A i \in 1..n : s[i] = t[i]
                                            /\ n = 3 \/ s[n + 1] < t[n + 1]
         IN  /\ differ = {} <=> v.core = w.core
             /\ differ # {} /\ v.core[m] - w.core[m] > 0 => under(w.core, v.core)
             /\ under(v.core, w.core) => differ # {} /\ v.core[m] - w.core[m] < 0
             /\ differ # {} => v.core[m] - w.core[m] \in Int
<1> DEFINE differ == {i \in 1..3 : v.core[i] # w.core[i]}
           m      == Min(differ)
           under(s, t) == \E n \in 0..3 : /\ n < 3 /\ \A i \in 1..n : s[i] = t[i]
                                          /\ n = 3 \/ s[n + 1] < t[n + 1]
<1>1. /\ v.core \in Seq(Nat) /\ Len(v.core) = 3 /\ w.core \in Seq(Nat) /\ Len(w.core) = 3
  BY DEF Version
<1>2. \A i \in 1..3 : v.core[i] \in Nat /\ w.core[i] \in Nat
  BY <1>1
<1>3. differ = {} <=> v.core = w.core
  <2>1. differ = {} => \A i \in 1..3 : v.core[i] = w.core[i]
    OBVIOUS
  <2>2. (\A i \in 1..3 : v.core[i] = w.core[i]) => v.core = w.core
    <3>1. \A s \in Seq(Nat) : Len(s) = 3 => s \in [1..3 -> Nat]
      <4> SUFFICES ASSUME NEW s \in Seq(Nat), Len(s) = 3 PROVE s \in [1..3 -> Nat]
        OBVIOUS
      <4>1. DOMAIN s = 1..3 /\ s = [i \in 1..3 |-> s[i]]
        OBVIOUS
      <4>2. QED
        BY <4>1
    <3>2. v.core \in [1..3 -> Nat] /\ w.core \in [1..3 -> Nat]
      BY <1>1, <3>1
    <3>3. QED
      BY <3>2
  <2>3. QED
    BY <2>1, <2>2
<1>4. ASSUME differ # {}, v.core[m] - w.core[m] > 0 PROVE under(w.core, v.core)
  <2>1. m \in differ /\ \A i \in differ : m <= i
    BY <1>4, MinIs
  <2>2. m \in 1..3 /\ \A i \in 1..m - 1 : w.core[i] = v.core[i]
    BY <2>1
  <2> HIDE DEF m
  <2>3. w.core[m] < v.core[m]
    BY <1>2, <1>4, <2>2
  <2>4. m - 1 \in 0..3 /\ m - 1 < 3 /\ (m - 1) + 1 = m
    BY <2>2
  <2>5. QED
    BY <2>2, <2>3, <2>4
<1>5. ASSUME under(v.core, w.core) PROVE differ # {} /\ v.core[m] - w.core[m] < 0
  <2>1. PICK n \in 0..3 : /\ n < 3 /\ \A i \in 1..n : v.core[i] = w.core[i]
                          /\ n = 3 \/ v.core[n + 1] < w.core[n + 1]
    BY <1>5
  <2>2. n + 1 \in 1..3 /\ v.core[n + 1] < w.core[n + 1]
    BY <2>1
  <2>3. n + 1 \in differ
    BY <1>2, <2>2
  <2>4. \A i \in differ : n + 1 <= i
    BY <2>1
  <2>5. m = n + 1
    BY <2>3, <2>4, MinIsThis
  <2> HIDE DEF m
  <2>6. QED
    BY <1>2, <2>2, <2>3, <2>5
<1>6. differ # {} => v.core[m] - w.core[m] \in Int
  BY <1>2, MinIs
<1>7. QED
  BY <1>3, <1>4, <1>5, <1>6

(* compareVersions is positive only for a version after the other, and     *)
(* negative for one that comes before, as semantic versioning orders them: *)
(* for all versions, whatever their numbers and prerelease parts.          *)
THEOREM ComparisonIsPrecedence ==
  \A v, w \in Version : /\ CompareVersions(v, w) \in Int
                        /\ CompareVersions(v, w) > 0 => Precedes(w, v)
                        /\ Precedes(v, w) => CompareVersions(v, w) < 0
<1> SUFFICES ASSUME NEW v \in Version, NEW w \in Version
             PROVE  /\ CompareVersions(v, w) \in Int
                    /\ CompareVersions(v, w) > 0 => Precedes(w, v)
                    /\ Precedes(v, w) => CompareVersions(v, w) < 0
  OBVIOUS
<1> DEFINE differ == {i \in 1..3 : v.core[i] # w.core[i]}
           m      == Min(differ)
           under(s, t) == \E n \in 0..3 : /\ n < 3 /\ \A i \in 1..n : s[i] = t[i]
                                          /\ n = 3 \/ s[n + 1] < t[n + 1]
<1>1. /\ differ = {} <=> v.core = w.core
      /\ differ # {} /\ v.core[m] - w.core[m] > 0 => under(w.core, v.core)
      /\ under(v.core, w.core) => differ # {} /\ v.core[m] - w.core[m] < 0
      /\ differ # {} => v.core[m] - w.core[m] \in Int
  BY CoreCompared
<1>2. /\ v.pre \in Seq(Identifier) /\ w.pre \in Seq(Identifier)
      /\ Len(v.core) = 3 /\ Len(w.core) = 3
  BY DEF Version
<1>3. /\ CompareVersions(v, w) =
           CASE differ # {}                    -> v.core[m] - w.core[m]
             [] differ = {} /\ v.pre = w.pre   -> 0
             [] differ = {} /\ v.pre = <<>> /\ w.pre # <<>> -> 1
             [] differ = {} /\ v.pre # <<>> /\ w.pre = <<>> -> -1
             [] OTHER                          -> ComparePre(v.pre, w.pre)
  BY DEF CompareVersions
<1>4. /\ Precedes(v, w) <=> \/ under(v.core, w.core)
                            \/ /\ v.core = w.core /\ v.pre # <<>>
                               /\ w.pre = <<>> \/ BelowId(v.pre, w.pre)
      /\ Precedes(w, v) <=> \/ under(w.core, v.core)
                            \/ /\ w.core = v.core /\ w.pre # <<>>
                               /\ v.pre = <<>> \/ BelowId(w.pre, v.pre)
  BY <1>2 DEF Precedes, Below, BelowId, LessNumber
<1>5. BelowId(v.pre, w.pre) => v.pre # w.pre /\ w.pre # <<>>
  <2>1. ASSUME v.pre = w.pre, BelowId(v.pre, w.pre) PROVE FALSE
    <3>1. PICK n \in 0..Len(v.pre) : /\ n < Len(v.pre)
                                     /\ n = Len(v.pre) \/ LessId(v.pre[n + 1], v.pre[n + 1])
      BY <2>1 DEF BelowId
    <3>2. v.pre[n + 1] \in Identifier
      BY <1>2, <3>1
    <3>3. QED
      BY <1>2, <3>1, <3>2 DEF LessId, Identifier
  <2>2. ASSUME w.pre = <<>>, BelowId(v.pre, w.pre) PROVE FALSE
    BY <1>2, <2>2 DEF BelowId
  <2>3. QED
    BY <2>1, <2>2
<1>6. /\ ComparePre(v.pre, w.pre) > 0 => BelowId(w.pre, v.pre)
      /\ BelowId(v.pre, w.pre) => ComparePre(v.pre, w.pre) < 0
      /\ ComparePre(v.pre, w.pre) \in Int
  BY <1>2, PreCompared
<1> HIDE DEF differ, m, under
<1>7. CompareVersions(v, w) > 0 => Precedes(w, v)
  BY <1>1, <1>3, <1>4, <1>6
<1>8. Precedes(v, w) => CompareVersions(v, w) < 0
  BY <1>1, <1>3, <1>4, <1>5, <1>6
<1>9. CompareVersions(v, w) \in Int
  BY <1>1, <1>3, <1>6
<1>10. QED
  BY <1>7, <1>8, <1>9

-----------------------------------------------------------------------------
(* What the panel offers is newer than what runs.                          *)

OfferInv == offer # None => offer \in Tags /\ Applicable(offer) /\ Precedes(running, offer)

(* An offer that was not there before is a release that checkForUpdates    *)
(* found to be the latest.                                                 *)
LEMMA OfferFound ==
  ASSUME UpdTypeOK, CheckForUpdates, offer' # None
  PROVE  /\ offer' \in Tags /\ Applicable(offer') /\ Precedes(running', offer')
         /\ \A t \in published : Applicable(t) => ~Precedes(offer', t)
<1> DEFINE latest == {t \in published : Applicable(t)}
<1>1. /\ published \subseteq Tags /\ running \in Tags /\ running' = running
      /\ \A t \in Tags : t \in Version /\ t # None
  BY TagsAreVersions, TagsAssumption DEF UpdTypeOK, CheckForUpdates
<1>2. offer' \in IF latest = {} THEN {None}
                 ELSE {IF CompareVersions(t, running) > 0 THEN t ELSE None :
                         t \in {s \in latest : \A q \in latest : CompareVersions(s, q) >= 0}}
  BY DEF CheckForUpdates
<1>3. PICK t \in latest : /\ \A q \in latest : CompareVersions(t, q) >= 0
                          /\ offer' = IF CompareVersions(t, running) > 0 THEN t ELSE None
  BY <1>2
<1>4. offer' = t /\ CompareVersions(t, running) > 0 /\ t \in Tags /\ Applicable(t)
  BY <1>1, <1>3
<1>5. Precedes(running, t)
  BY <1>1, <1>4, ComparisonIsPrecedence
<1>6. \A q \in latest : ~Precedes(t, q)
  <2> SUFFICES ASSUME NEW q \in latest, Precedes(t, q) PROVE FALSE
    OBVIOUS
  <2>1. /\ CompareVersions(t, q) < 0 /\ CompareVersions(t, q) >= 0
        /\ CompareVersions(t, q) \in Int
    BY <1>1, <1>3, <1>4, ComparisonIsPrecedence
  <2>2. QED
    BY <2>1
<1>7. QED
  BY <1>1, <1>4, <1>5, <1>6

(* Nothing but a check makes an offer, and what changes the service that   *)
(* runs takes it back.                                                     *)
LEMMA OfferStep ==
  UpdTypeOK /\ [UpdNext]_updVars =>
    \/ CheckForUpdates
    \/ offer' = None
    \/ offer' = offer /\ running' = running
<1> SUFFICES ASSUME UpdTypeOK, [UpdNext]_updVars
             PROVE  \/ CheckForUpdates
                    \/ offer' = None
                    \/ offer' = offer /\ running' = running
  OBVIOUS
<1>1. CASE \E t \in Tags : Publish(t) \/ \E c \in Callers : StartApply(c, t)
  BY <1>1 DEF Publish, StartApply
<1>2. ASSUME NEW c \in Callers, UpdateStep(c)
      PROVE  offer' = None \/ (offer' = offer /\ running' = running)
  <2>1. CASE Fetch(c) \/ CheckNotStaged(c) \/ Extract(c) \/ Build(c) \/ Swap(c)
    BY <2>1 DEF Fetch, CheckNotStaged, Extract, Build, Swap
  <2>2. CASE Restart(c, "restart", "health") \/ Restart(c, "back_restart", "back_health")
    BY <2>2 DEF Restart, Launch
  <2>3. CASE HealthCheck(c) \/ BackHealth(c) \/ BackThrows(c)
    BY <2>3 DEF HealthCheck, BackHealth, BackThrows, Answer
  <2>4. CASE Throw(c) \/ PointBack(c)
    BY <2>4 DEF Throw, PointBack, Answer
  <2>5. QED
    BY <1>2, <2>1, <2>2, <2>3, <2>4 DEF UpdateStep
<1>3. CASE Crash
  BY <1>3 DEF Crash, Launch
<1>4. CASE UNCHANGED updVars
  BY <1>4 DEF updVars
<1>5. QED
  BY <1>1, <1>2, <1>3, <1>4 DEF UpdNext

LEMMA OfferPreserved == UpdTypeOK /\ OfferInv /\ [UpdNext]_updVars => OfferInv'
BY OfferFound, OfferStep DEF OfferInv, Applicable

(* What the panel offers can be installed and is newer than what runs, at  *)
(* every moment until it is taken back (checkForUpdates, applyUpdate,      *)
(* getStatus after a restart), and there was none newer when it looked.    *)
THEOREM OfferCorrect == UpdSpec => OfferIsNewer
<1>1. UpdInit => OfferInv
  BY DEF UpdInit, OfferInv
<1>2. UpdTypeOK /\ OfferInv /\ OfferInv' /\ [UpdNext]_updVars =>
        [offer' # None =>
           /\ Applicable(offer')
           /\ Precedes(running', offer')
           /\ offer' # offer =>
                \A t \in published : Applicable(t) => ~Precedes(offer', t)]_updVars
  BY OfferFound, OfferStep DEF OfferInv, Applicable
<1>3. QED
  BY <1>1, <1>2, TypeCorrect, OfferPreserved, PTL DEF UpdSpec, OfferIsNewer
=============================================================================
