----------------------------- MODULE Deployment ------------------------------
(***************************************************************************)
(* What one HTTP request does to a deployment: run, retry and delete       *)
(* (packages/controller/src/deployment-orchestrator.ts and confirmAndDelete*)
(* of controller.ts), on top of the operation journal of module Journal,   *)
(* with the guest key in the vault and the one SSH client that every run   *)
(* of the server shares (packages/providers-guest).                        *)
(*                                                                         *)
(* A step goes from one await to the next; what the code does between two  *)
(* awaits is one step.  The commands of a recipe are one step too, and so  *)
(* is the application of the router mappings.                              *)
(***************************************************************************)
EXTENDS Journal

CONSTANTS
  NoDep,        \* no deployment
  HasExposure,  \* deployments whose plan has a router chain and an exposure
  RunFrom,      \* states in which clients post a run
  Overlap,      \* whether two requests for one deployment overlap
  MaxRequests   \* bound: requests

ASSUME NoDepAssumption == NoDep \notin Deps
ASSUME RequestsAssumption ==
  /\ HasExposure \subseteq Deps
  /\ Overlap \in BOOLEAN
  /\ MaxRequests \in Nat
  /\ MaxBegun >= 3 * MaxRequests

VARIABLES
  state,     \* state[d]: the persisted state of deployment d
  run,       \* run[c]: the request caller c handles and how far it is
  vault,     \* vault[d]: the guest private key of d in the vault
  link,      \* the VM the shared SSH client is connected to, {} when none
  page,      \* page[v]: the deployment whose marker VM v serves
  requests   \* number of requests so far

depVars    == <<state, run, vault, link, page, requests>>
deployVars == <<vm, task, entry, call, mode, todo, seen, begun, crashes,
                past, left, state, run, vault, link, page, requests>>

L == INSTANCE Lifecycle

Pcs == {"none", "clone", "put", "stored", "configure", "start", "address", "reach",
        "install", "check", "expose", "teardown", "teardown_only", "delete"}
Run == [pc : Pcs, dep : Deps \cup {NoDep}, key : GuestKeys \cup {NoKey}]

NoRun == [pc |-> "none", dep |-> NoDep, key |-> NoKey]

DeployTypeOK ==
  /\ TypeOK
  /\ state \in [Deps -> L!States]
  /\ run \in [Callers -> Run]
  /\ vault \in [Deps -> GuestKeys \cup {NoKey}]
  /\ link \subseteq Vms
  /\ page \in [Vms -> Deps \cup {NoDep}]
  /\ requests \in 0..MaxRequests

DeployInit ==
  /\ Init
  /\ L!Init
  /\ run = [c \in Callers |-> NoRun]
  /\ vault = [d \in Deps |-> NoKey]
  /\ link = {}
  /\ page = [v \in Vms |-> NoDep]
  /\ requests = 0

-----------------------------------------------------------------------------
(* What the steps of a request are made of.                                *)

Enter(d, s) == state' = [state EXCEPT ![d] = s]
Goto(c, p)  == run' = [run EXCEPT ![c].pc = p]
Done(c)     == run' = [run EXCEPT ![c] = NoRun]

(* Caller c is at p, and runMutation, if it was called there, has returned.*)
At(c, p) == mode = "serving" /\ run[c].pc = p /\ call[c].pc = "idle"

(* Mutant: only an operation that has succeeded is skipped.                *)
MutateUnlessSucceeded(c, d, a, g) ==
  SkipSucceeded(c, <<d, a>>) \/ BeginUnlessSucceeded(c, <<d, a>>, g)

(* runMutation up to its first await, for operation a of deployment d.     *)
Mutate(c, d, a, g) ==
  \/ SkipSucceeded(c, <<d, a>>)
  \/ SkipNeedsAttention(c, <<d, a>>)
  \/ Begin(c, <<d, a>>, g)

(* The shared transport: connect replaces its one client, close ends it,   *)
(* and a command runs on the VM the client is connected to, if there is one.*)
Connect(v) == link' = {v}
Close      == link' = {}
RunCommands(d) == \E v \in link : page' = [page EXCEPT ![v] = d]

(* The finally of run: dispose ends whatever client is open.               *)
EndRun(c) == Done(c) /\ Close

Fail(c) ==
  /\ Enter(run[c].dep, "Failed")
  /\ EndRun(c)
  /\ UNCHANGED <<vault, page, requests, vars>>

(* An exception that nothing in run catches: the state stays.              *)
Throw(c) ==
  /\ EndRun(c)
  /\ UNCHANGED <<state, vault, page, requests, vars>>

-----------------------------------------------------------------------------
(* run and retry.                                                          *)

MayStart(c, d) ==
  /\ mode = "serving" /\ run[c].pc = "none"
  /\ requests < MaxRequests
  /\ Overlap \/ \A b \in Callers : run[b].dep # d
  /\ requests' = requests + 1

(* Mutant: a run of a deployment that is Ready does not leave Ready.       *)
StartRunSilently(c, d) ==
  /\ MayStart(c, d)
  /\ state[d] \in RunFrom \cup {"Failed"}
  /\ IF state[d] = "Ready" THEN UNCHANGED state ELSE Enter(d, "Cloning")
  /\ run' = [run EXCEPT ![c] = [pc |-> "clone", dep |-> d, key |-> NoKey]]
  /\ Mutate(c, d, "clone", NoKey)
  /\ UNCHANGED <<vault, link, page>>

(* run up to the clone request; retry differs in its guard only, for       *)
(* Queued is overwritten before the first await.                           *)
StartRun(c, d) ==
  /\ MayStart(c, d)
  /\ state[d] \in RunFrom \cup {"Failed"}
  /\ Enter(d, "Cloning")
  /\ run' = [run EXCEPT ![c] = [pc |-> "clone", dep |-> d, key |-> NoKey]]
  /\ Mutate(c, d, "clone", NoKey)
  /\ UNCHANGED <<vault, link, page>>

(* The keys something still refers to; a generated key is none of them.    *)
KeysInUse == {vault[d] : d \in Deps} \cup {vm[v].key : v \in Vms}
               \cup {run[c].key : c \in Callers}

(* The clone has succeeded: generate a key pair.                           *)
GenerateKey(c) ==
  /\ At(c, "clone") /\ call[c].res = "ok"
  /\ GuestKeys \ KeysInUse # {}
  /\ run' = [run EXCEPT ![c].pc = "put",
                        ![c].key = CHOOSE g \in GuestKeys : g \notin KeysInUse]
  /\ UNCHANGED <<state, vault, link, page, requests, vars>>

(* vault.put.                                                              *)
StoreKey(c) ==
  /\ At(c, "put")
  /\ vault' = [vault EXCEPT ![run[c].dep] = run[c].key]
  /\ Goto(c, "stored")
  /\ UNCHANGED <<state, link, page, requests, vars>>

(* The vault file is not written: the key may be in memory nevertheless.   *)
StoreKeyThrows(c) ==
  /\ At(c, "put")
  /\ \E g \in {run[c].key, vault[run[c].dep]} :
       vault' = [vault EXCEPT ![run[c].dep] = g]
  /\ EndRun(c)
  /\ UNCHANGED <<state, page, requests, vars>>

Configure(c) ==
  /\ At(c, "stored")
  /\ Enter(run[c].dep, "Configuring")
  /\ Goto(c, "configure")
  /\ Mutate(c, run[c].dep, "configure", run[c].key)
  /\ UNCHANGED <<vault, link, page, requests>>

(* resolveNetwork throws for a profile that gives no address.              *)
ConfigureThrows(c) ==
  /\ At(c, "stored")
  /\ Enter(run[c].dep, "Configuring")
  /\ EndRun(c)
  /\ UNCHANGED <<vault, page, requests, vars>>

(* Mutant: the result of configure is not looked at.                       *)
BootUnchecked(c) ==
  /\ At(c, "configure")
  /\ Enter(run[c].dep, "Booting")
  /\ Goto(c, "start")
  /\ Mutate(c, run[c].dep, "start", NoKey)
  /\ UNCHANGED <<vault, link, page, requests>>

Boot(c) ==
  /\ At(c, "configure") /\ call[c].res = "ok"
  /\ Enter(run[c].dep, "Booting")
  /\ Goto(c, "start")
  /\ Mutate(c, run[c].dep, "start", NoKey)
  /\ UNCHANGED <<vault, link, page, requests>>

Booted(c) ==
  /\ At(c, "start") /\ call[c].res = "ok"
  /\ Goto(c, "address")
  /\ UNCHANGED <<state, vault, link, page, requests, vars>>

Machine(c) == Target[run[c].dep]

(* getGuestAddress: the guest agent of a running VM may answer.            *)
ReadAddress(c) ==
  /\ At(c, "address")
  /\ vm[Machine(c)].status = "running"
  /\ Goto(c, "reach")
  /\ UNCHANGED <<state, vault, link, page, requests, vars>>

(* waitReachable: the SSH client, from here on the one client of all runs, *)
(* logs in with the key the vault has.                                     *)
Reach(c) ==
  /\ At(c, "reach")
  /\ vm[Machine(c)].status = "running"
  /\ vm[Machine(c)].key = vault[run[c].dep]
  /\ Connect(Machine(c))
  /\ Enter(run[c].dep, "Installing")
  /\ Goto(c, "install")
  /\ UNCHANGED <<vault, page, requests, vars>>

(* Mutant: Checking is not entered.                                        *)
InstallWithoutEnter(c) ==
  /\ At(c, "install")
  /\ RunCommands(run[c].dep)
  /\ Goto(c, "check")
  /\ UNCHANGED <<state, vault, link, requests, vars>>

(* The recipe runs on the VM the client is connected to.                   *)
Install(c) ==
  /\ At(c, "install")
  /\ RunCommands(run[c].dep)
  /\ Enter(run[c].dep, "Checking")
  /\ Goto(c, "check")
  /\ UNCHANGED <<vault, link, requests, vars>>

(* httpGet finds the marker on the VM the client is connected to.          *)
MarkerFound(c) == \E v \in link : page[v] = run[c].dep

CheckThenExpose(c) ==
  /\ At(c, "check") /\ MarkerFound(c)
  /\ run[c].dep \in HasExposure
  /\ Enter(run[c].dep, "Exposing")
  /\ Goto(c, "expose")
  /\ UNCHANGED <<vault, link, page, requests, vars>>

Finish(c) ==
  /\ \/ At(c, "check") /\ MarkerFound(c) /\ run[c].dep \notin HasExposure
     \/ At(c, "expose")
  /\ Enter(run[c].dep, "Ready")
  /\ EndRun(c)
  /\ UNCHANGED <<vault, page, requests, vars>>

(* Every return of fail(): a mutation that failed, the network profile or  *)
(* the recipe missing, no address, not reachable, a command or the check   *)
(* failing, the exposure failing.  Commands need a client.                 *)
StepFails(c) ==
  /\ \/ \E p \in {"clone", "configure", "start"} :
          At(c, p) /\ call[c].res = "failed"
     \/ \E p \in {"stored", "address", "reach", "expose"} : At(c, p)
     \/ \E p \in {"install", "check"} : At(c, p) /\ link # {}
  /\ Fail(c)

(* Mutant: nobody hears of a mutation that threw.                          *)
StepThrowsUnheard(c) ==
  /\ \E p \in {"install", "check"} : At(c, p)
  /\ Throw(c)

(* exec rejects when there is no client, and when an open one fails.       *)
StepThrows(c) ==
  /\ \/ \E p \in {"clone", "configure", "start"} : At(c, p) /\ call[c].res = "threw"
     \/ \E p \in {"install", "check"} : At(c, p)
  /\ Throw(c)

-----------------------------------------------------------------------------
(* confirmAndDelete.                                                       *)

(* The VM id is allocated by the first run, together with its clone row.   *)
Allocated(d) == entry[<<d, "clone">>].status # "none"

(* The deployment is read here: whether it has a VM is not looked at again.*)
StartDelete(c, d) ==
  /\ MayStart(c, d)
  /\ run' = [run EXCEPT ![c] =
               [pc |-> IF Allocated(d) THEN "teardown" ELSE "teardown_only",
                dep |-> d, key |-> NoKey]]
  /\ UNCHANGED <<state, vault, link, page, vars>>

(* teardownForDelete throws when the chain or the local address is gone.   *)
TeardownThrows(c) ==
  /\ At(c, "teardown") \/ At(c, "teardown_only")
  /\ run[c].dep \in HasExposure
  /\ Done(c)
  /\ UNCHANGED <<state, vault, link, page, requests, vars>>

DeleteMachine(c) ==
  /\ At(c, "teardown")
  /\ Goto(c, "delete")
  /\ Mutate(c, run[c].dep, "delete", NoKey)
  /\ UNCHANGED <<state, vault, link, page, requests>>

(* The VM is gone, or there was none: remove the key from the vault.       *)
Forget(c) ==
  /\ \/ At(c, "teardown_only")
     \/ At(c, "delete") /\ call[c].res = "ok"
  /\ vault' = [vault EXCEPT ![run[c].dep] = NoKey]
  /\ Done(c)
  /\ UNCHANGED <<state, link, page, requests, vars>>

(* vault.remove throws: the key may be gone from memory nevertheless.      *)
ForgetThrows(c) ==
  /\ \/ At(c, "teardown_only")
     \/ At(c, "delete") /\ call[c].res = "ok"
  /\ \E g \in {NoKey, vault[run[c].dep]} :
       vault' = [vault EXCEPT ![run[c].dep] = g]
  /\ Done(c)
  /\ UNCHANGED <<state, link, page, requests, vars>>

DeleteFails(c) ==
  /\ At(c, "delete") /\ call[c].res \in {"failed", "threw"}
  /\ Done(c)
  /\ UNCHANGED <<state, vault, link, page, requests, vars>>

-----------------------------------------------------------------------------
(* The steps of the journal, and what they mean for the guests: a VM that  *)
(* is deleted takes its page and its SSH connection with it.               *)

GuestsFollow ==
  /\ page' = [v \in Vms |-> IF vm'[v].status = "absent" THEN NoDep ELSE page[v]]
  /\ link' = {v \in link : vm'[v].status # "absent"}

MutationStep(c) ==
  /\ CallStep(c)
  /\ GuestsFollow
  /\ UNCHANGED <<state, run, vault, requests>>

EnvironmentStep ==
  /\ ServerStep \/ NodeStep
  /\ UNCHANGED depVars

CrashServer ==
  /\ Crash
  /\ run' = [c \in Callers |-> NoRun]
  /\ Close
  /\ UNCHANGED <<state, vault, page, requests>>

RequestStep(c) ==
  \/ GenerateKey(c) \/ StoreKey(c) \/ Configure(c) \/ Boot(c) \/ Booted(c)
  \/ ReadAddress(c) \/ Reach(c) \/ Install(c) \/ CheckThenExpose(c) \/ Finish(c)
  \/ StepFails(c) \/ StepThrows(c) \/ StoreKeyThrows(c) \/ ConfigureThrows(c)
  \/ TeardownThrows(c) \/ DeleteMachine(c) \/ DeleteFails(c)
  \/ Forget(c) \/ ForgetThrows(c)
  \/ MutationStep(c)

DeployNext ==
  \/ \E c \in Callers, d \in Deps : StartRun(c, d) \/ StartDelete(c, d)
  \/ \E c \in Callers : RequestStep(c)
  \/ EnvironmentStep
  \/ CrashServer

DeploySpec == DeployInit /\ [][DeployNext]_deployVars

(* The request waits for a command on a guest.  exec has no timeout: it    *)
(* waits for the close of the channel, which nothing bounds.               *)
Commands(c) == run[c].pc \in {"install", "check"} /\ link # {}

(* A handler that can go on does, and so does the server; a command need   *)
(* not end.                                                                *)
DeployFairness ==
  /\ \A c \in Callers : WF_deployVars(RequestStep(c) /\ ~Commands(c))
  /\ WF_deployVars(ServerStep /\ UNCHANGED depVars)

FairDeploySpec == DeploySpec /\ DeployFairness

-----------------------------------------------------------------------------
(* Properties.                                                             *)

Succeeded(d, a) == entry[<<d, a>>].status = "succeeded"

After(s) ==
  CASE s = "clone"     -> {"Configuring", "Booting", "Installing", "Checking",
                           "Exposing", "Ready"}
    [] s = "configure" -> {"Booting", "Installing", "Checking", "Exposing", "Ready"}
    [] s = "start"     -> {"Installing", "Checking", "Exposing", "Ready"}

(* The persisted state is never ahead of the journal: past a step only     *)
(* when its operation is recorded as succeeded, across crashes, retries    *)
(* and deletions.                                                          *)
StateFollowsJournal ==
  \A d \in Deps, a \in {"clone", "configure", "start"} :
    state[d] \in After(a) => Succeeded(d, a)

(* A deployment that is Ready and that nobody asked to delete has a        *)
(* running VM that serves its own page and that its stored key opens.      *)
ReadyIsServed ==
  \A d \in Deps :
    state[d] = "Ready" /\ entry[<<d, "delete">>].status = "none" =>
      /\ vm[Target[d]].status = "running"
      /\ page[Target[d]] = d
      /\ vm[Target[d]].key = vault[d]

(* As long as requests for a deployment do not overlap, its persisted      *)
(* states follow the transition table, and every run starts at Cloning.    *)
FollowsLifecycle == L!Spec

(* Whatever requests do, the journal behaves as module Journal says.       *)
FollowsJournal == Spec

(* Every request ends, unless it waits for ever for a command on a guest:  *)
(* no crash, lost answer, slow task or exception leaves it anywhere else.  *)
RequestsEnd ==
  \A c \in Callers :
    run[c].pc # "none" ~> (run[c].pc = "none" \/ []Commands(c))

-----------------------------------------------------------------------------
(* What the documents say and the code does not do.                        *)

(* When the check of a deployment passes, its own VM serves its page.      *)
CheckedOnOwnVm ==
  [][\A d \in Deps : state[d] # "Ready" /\ state'[d] = "Ready" =>
       page[Target[d]] = d]_deployVars
=============================================================================
