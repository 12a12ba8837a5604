------------------------------- MODULE Updater -------------------------------
(***************************************************************************)
(* The source updater (packages/server/src/updater.ts, updater-node.ts):   *)
(* a release is fetched and verified, staged in a directory of its own and *)
(* built there, the link `current` is pointed to it, the service restarted *)
(* from the link and its health checked; any failure points the link back  *)
(* and restarts again.                                                     *)
(*                                                                         *)
(* The panel and the command line run the same code in two processes.  The *)
(* panel is the service: a restart ends the process that asked for it.     *)
(* Nothing keeps two updates apart.  A release's prerelease flag is that   *)
(* of its version, and the version a service reports is its release's.     *)
(***************************************************************************)
EXTENDS Versions

CONSTANTS
  Tags,             \* versions of the releases there may be
  Base,             \* the release that is installed at first
  Good,             \* the releases that, once started, answer as healthy
  Panel,            \* update requests to the panel
  Shell,            \* runs of frolo-update
  None,             \* no release
  AllowPrerelease,  \* whether prereleases are installed
  RestartCommand,   \* whether there may be a restart command, a set of BOOLEANs
  MaxApplies,       \* bound: updates
  MaxCrashes        \* bound: crashes

ASSUME TagsAssumption == Base \in Tags /\ Good \subseteq Tags /\ None \notin Tags
ASSUME TagsAreVersions == Tags \subseteq Version
ASSUME ProcessesAssumption == Panel \cap Shell = {}
ASSUME UpdaterFlags == AllowPrerelease \in BOOLEAN /\ RestartCommand \subseteq BOOLEAN
ASSUME UpdaterBounds == MaxApplies \in Nat /\ MaxCrashes \in Nat

Callers == Panel \cup Shell

VARIABLES
  restarts,   \* whether a restart command is configured
  published,  \* the releases GitHub has
  tree,       \* tree[t]: the directory of release t
  current,    \* the release the link points to
  running,    \* the release the service was started from
  up,         \* up[c]: where update c is
  offer,      \* the update the panel shows as available
  cut,        \* history: an update was killed, or a restart command failed
  overlapped, \* history: an update began while another was under way
  collided,   \* history: and installed the same release
  applies, crashes

updVars == <<restarts, published, tree, current, running, up, offer, cut,
             overlapped, collided, applies, crashes>>
given   == <<restarts, published>>
past    == <<overlapped, collided, applies, crashes>>

Update == [pc : {"fetch", "stage", "extract", "build", "swap", "restart", "health",
                 "back", "back_restart", "back_health"},
           tag : Tags, previous : Tags]
Idle   == [pc : {"idle"}, answer : {"none", "updated", "rolled_back", "failed"}]

Ended(answer) == [pc |-> "idle", answer |-> answer]

UpdTypeOK ==
  /\ restarts \in BOOLEAN
  /\ published \subseteq Tags
  /\ tree \in [Tags -> {"absent", "partial", "built"}]
  /\ current \in Tags /\ running \in Tags
  /\ up \in [Callers -> Update \cup Idle]
  /\ offer \in Tags \cup {None}
  /\ {cut, overlapped, collided} \subseteq BOOLEAN
  /\ applies \in 0..MaxApplies /\ crashes \in 0..MaxCrashes

UpdInit ==
  /\ restarts \in RestartCommand
  /\ published = {Base}
  /\ tree = [t \in Tags |-> IF t = Base THEN "built" ELSE "absent"]
  /\ current = Base /\ running = Base
  /\ up = [c \in Callers |-> Ended("none")]
  /\ offer = None
  /\ cut = FALSE /\ overlapped = FALSE /\ collided = FALSE
  /\ applies = 0 /\ crashes = 0

Busy    == \E c \in Callers : up[c].pc # "idle"
Healthy == running \in Good

Publish(t) ==
  /\ published' = published \cup {t}
  /\ UNCHANGED <<restarts, tree, current, running, up, offer, cut, past>>

Applicable(t) == AllowPrerelease \/ t.pre = <<>>

(* checkForUpdates in the panel: the releases newest first.                *)
CheckForUpdates ==
  /\ Healthy
  /\ LET latest == {t \in published : Applicable(t)}
     IN  offer' \in
           IF latest = {} THEN {None}
           ELSE {IF CompareVersions(t, running) > 0 THEN t ELSE None :
                   t \in {s \in latest : \A r \in latest : CompareVersions(s, r) >= 0}}
  /\ UNCHANGED <<tree, current, running, up, cut, past, given>>

-----------------------------------------------------------------------------
(* applyUpdate.                                                            *)

Goto(c, p) == up' = [up EXCEPT ![c].pc = p]

(* The panel's route answers while its process is there; frolo-update is a *)
(* process of its own.                                                     *)
Asked(c) ==
  /\ up[c].pc = "idle"
  /\ c \in Panel => Healthy

(* Mutant: no target is read, and the failure points the link to none.     *)
StartBlind(c, t) ==
  /\ Asked(c)
  /\ applies < MaxApplies
  /\ applies' = applies + 1
  /\ up' = [up EXCEPT ![c] = [pc |-> "fetch", tag |-> t, previous |-> None]]
  /\ overlapped' = (overlapped \/ Busy)
  /\ collided' = (collided \/ \E d \in Callers : up[d].pc # "idle" /\ up[d].tag = t)
  /\ UNCHANGED <<tree, current, running, offer, cut, crashes, given>>

(* The target of the link is read before anything else.                    *)
StartApply(c, t) ==
  /\ Asked(c)
  /\ applies < MaxApplies
  /\ applies' = applies + 1
  /\ up' = [up EXCEPT ![c] = [pc |-> "fetch", tag |-> t, previous |-> current]]
  /\ overlapped' = (overlapped \/ Busy)
  /\ collided' = (collided \/ \E d \in Callers : up[d].pc # "idle" /\ up[d].tag = t)
  /\ UNCHANGED <<tree, current, running, offer, cut, crashes, given>>

(* resolveRelease and downloadAndVerify.                                   *)
Fetch(c) ==
  /\ up[c].pc = "fetch"
  /\ up[c].tag \in published /\ Applicable(up[c].tag)
  /\ Goto(c, "stage")
  /\ UNCHANGED <<tree, current, running, offer, cut, past, given>>

(* Mutant: a directory that is there is used again.                        *)
StageAnyway(c) ==
  /\ up[c].pc = "stage"
  /\ Goto(c, "extract")
  /\ UNCHANGED <<tree, current, running, offer, cut, past, given>>

CheckNotStaged(c) ==
  /\ up[c].pc = "stage"
  /\ tree[up[c].tag] = "absent"
  /\ Goto(c, "extract")
  /\ UNCHANGED <<tree, current, running, offer, cut, past, given>>

Extract(c) ==
  /\ up[c].pc = "extract"
  /\ tree' = [tree EXCEPT ![up[c].tag] = "partial"]
  /\ Goto(c, "build")
  /\ UNCHANGED <<current, running, offer, cut, past, given>>

(* Mutant: the link is pointed to the release before it is built.          *)
SwapThenBuild(c) ==
  /\ up[c].pc = "build"
  /\ current' = up[c].tag
  /\ Goto(c, "swap")
  /\ UNCHANGED <<tree, running, offer, cut, past, given>>

Build(c) ==
  /\ up[c].pc = "build"
  /\ tree' = [tree EXCEPT ![up[c].tag] = "built"]
  /\ Goto(c, "swap")
  /\ UNCHANGED <<current, running, offer, cut, past, given>>

Swap(c) ==
  /\ up[c].pc = "swap"
  /\ current' = up[c].tag
  /\ Goto(c, "restart")
  /\ UNCHANGED <<tree, running, offer, cut, past, given>>

-----------------------------------------------------------------------------
(* The service.                                                            *)

(* The service starts from the link; updates of kill end with a process.   *)
Killed(kill) == [c \in Callers |-> IF c \in kill /\ up[c].pc # "idle" THEN Ended("none")
                                   ELSE up[c]]
Launch(kill) ==
  /\ running' = current
  /\ offer' = None
  /\ cut' = (cut \/ Killed(kill) # up)

(* The restart command, or none; it ends what the panel is doing.          *)
Restart(c, p, q) ==
  /\ up[c].pc = p
  /\ \/ ~restarts /\ Goto(c, q) /\ UNCHANGED <<running, offer, cut>>
     \/ restarts /\ c \in Panel /\ Launch(Panel) /\ up' = Killed(Panel)
     \/ restarts /\ c \in Shell /\ Launch(Panel) /\ up' = [Killed(Panel) EXCEPT ![c].pc = q]
  /\ UNCHANGED <<tree, current, past, given>>

(* The server dies, or the host with all that runs on it; both come back.  *)
Crash ==
  /\ crashes < MaxCrashes
  /\ crashes' = crashes + 1
  /\ \E kill \in {Panel, Callers} : Launch(kill) /\ up' = Killed(kill)
  /\ UNCHANGED <<tree, current, overlapped, collided, applies, given>>

-----------------------------------------------------------------------------
(* The health check and the rollback.                                      *)

(* An answer ends the update; the panel takes its offer back.              *)
Answer(c, a) ==
  /\ up' = [up EXCEPT ![c] = Ended(a)]
  /\ offer' = IF a = "updated" /\ c \in Panel THEN None ELSE offer

(* Mutant: the health check has no timeout.                                *)
ThrowNoTimeout(c) ==
  /\ up[c].pc \in {"fetch", "stage", "extract", "build", "swap", "restart"}
  /\ up[c].pc = "restart" => restarts
  /\ cut' = (cut \/ up[c].pc = "restart")
  /\ Goto(c, "back")
  /\ UNCHANGED <<tree, current, running, offer, past, given>>

(* Mutant: nobody asks the service.                                        *)
Assume(c) ==
  /\ up[c].pc = "health"
  /\ Answer(c, "updated")
  /\ UNCHANGED <<tree, current, running, cut, past, given>>

HealthCheck(c) ==
  /\ up[c].pc = "health"
  /\ Healthy
  /\ Answer(c, "updated")
  /\ UNCHANGED <<tree, current, running, cut, past, given>>

(* Anything throws before the update is done: the network, the checksum,   *)
(* the disk, the build, the restart command, or the health check at its    *)
(* timeout.                                                                *)
Throw(c) ==
  /\ up[c].pc \in {"fetch", "stage", "extract", "build", "swap", "restart", "health"}
  /\ up[c].pc = "restart" => restarts
  /\ cut' = (cut \/ up[c].pc = "restart")
  /\ Goto(c, "back")
  /\ UNCHANGED <<tree, current, running, offer, past, given>>

(* Mutant: the link is not pointed back.                                   *)
BackInPlace(c) ==
  /\ up[c].pc = "back"
  /\ Goto(c, "back_restart")
  /\ UNCHANGED <<tree, current, running, offer, cut, past, given>>

PointBack(c) ==
  /\ up[c].pc = "back"
  /\ current' = up[c].previous
  /\ Goto(c, "back_restart")
  /\ UNCHANGED <<tree, running, offer, cut, past, given>>

(* The health of the previous release is what rolledBack says.             *)
BackHealth(c) ==
  /\ up[c].pc = "back_health"
  /\ \/ Healthy /\ Answer(c, "rolled_back")
     \/ Answer(c, "failed")
  /\ UNCHANGED <<tree, current, running, cut, past, given>>

(* The rollback throws.                                                    *)
BackThrows(c) ==
  /\ \/ up[c].pc = "back"
     \/ up[c].pc = "back_restart" /\ restarts
  /\ cut' = TRUE
  /\ Answer(c, "failed")
  /\ UNCHANGED <<tree, current, running, past, given>>

UpdateStep(c) ==
  \/ Fetch(c) \/ CheckNotStaged(c) \/ Extract(c) \/ Build(c) \/ Swap(c)
  \/ Restart(c, "restart", "health") \/ HealthCheck(c) \/ Throw(c)
  \/ PointBack(c) \/ Restart(c, "back_restart", "back_health")
  \/ BackHealth(c) \/ BackThrows(c)

UpdNext ==
  \/ \E t \in Tags : Publish(t) \/ \E c \in Callers : StartApply(c, t)
  \/ CheckForUpdates
  \/ \E c \in Callers : UpdateStep(c)
  \/ Crash

UpdSpec == UpdInit /\ [][UpdNext]_updVars

(* Downloads, builds and health checks end, one way or the other.          *)
FairUpdSpec == UpdSpec /\ \A c \in Callers : WF_updVars(UpdateStep(c))

-----------------------------------------------------------------------------
(* Properties.                                                             *)

(* The link points, at every moment and after any crash, to a release that *)
(* is completely built, and the service runs from one, unless two updates  *)
(* ever installed the same release at once.                                *)
CurrentIsBuilt == ~collided => tree[current] = "built" /\ tree[running] = "built"

(* A release that was built is never written to again, with the same       *)
(* exception.                                                              *)
ReleasesImmutable ==
  [][~collided' => \A t \in Tags : tree[t] = "built" => tree'[t] = "built"]_updVars

(* Where no two updates overlap, what an update answers is so: with a      *)
(* restart command, after "updated" the service runs, in health, the       *)
(* release the link points to, and after "rolled back" the one from before.*)
AnswerIsTrue ==
  [][~overlapped => \A c \in Callers : up[c].pc # "idle" /\ up'[c].pc = "idle" =>
       /\ up'[c].answer = "updated" =>
            /\ current = up[c].tag
            /\ restarts => running = up[c].tag /\ Healthy
       /\ up'[c].answer = "rolled_back" =>
            /\ current = up[c].previous
            /\ restarts => running = up[c].previous /\ Healthy]_updVars

(* When no update is under way, the service is healthy and the link points *)
(* to what it runs, unless updates overlapped, an update was killed, a     *)
(* restart command failed or there is none.                                *)
LeftHealthy ==
  restarts /\ ~Busy /\ ~overlapped /\ ~cut => Healthy /\ current = running

(* What the panel offers can be installed, is newer than what runs, also   *)
(* after what runs has changed, and is the newest there is when it looks.  *)
OfferIsNewer ==
  [][offer' # None =>
       /\ Applicable(offer')
       /\ Precedes(running', offer')
       /\ offer' # offer => \A t \in published : Applicable(t) => ~Precedes(offer', t)]_updVars

(* Every update ends.                                                      *)
UpdatesEnd == \A c \in Callers : up[c].pc # "idle" ~> up[c].pc = "idle"
=============================================================================
