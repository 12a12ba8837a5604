# Frolo: a TLA+ verification project

Frolo is a self-hosted panel that clones virtual machines from templates of a
Proxmox node, installs a recipe on them over SSH and opens their ports along a
chain of home routers by replaying workflows recorded in the routers' web
interfaces. This directory holds TLA+ modules that model its core, the TLC
configurations that check them on small instances, and TLAPS proofs of what
matters most. Paths below are relative to the repository; `controller/` stands
for `packages/controller/src/` and so on.

Contents: 1 inventory, 2 the modules and the code, 3 the runs, 4 fairness,
5 the proofs, 6 disagreements with the documents, 7 what is not modelled,
8 the plan.

## 1. Inventory

One Node.js process (`server/bin/frolo-server.ts`) serves the panel. It is
single-threaded: a handler runs undisturbed from one `await` to the next, and
handlers of concurrent requests interleave at every `await`. SQLite statements
(`store/`) are synchronous. The process may die anywhere; `main` reconciles the
operation journal before it listens again.

| component | state | operations | made correct by |
|---|---|---|---|
| Operation journal (`controller/journal-service.ts`, table `operation`) | a row per idempotency key `<deployment>:<action>`: status, task id | `runMutation`, `pollToResult`, `reconcile` | a row never says what did not happen; what has settled is not issued again; every unresolved row has an owner; calls return |
| Proxmox node (`providers-proxmox/`) | VMs, tasks with a hidden outcome | clone, configure, start, delete, poll, describe, address | a mutation takes effect on arrival, its outcome is known later or never |
| Deployment orchestrator (`controller/deployment-orchestrator.ts`, `controller.ts`) | persisted state of each deployment, its VM id and address | run, retry, confirmAndDelete | the state is never ahead of the journal; it follows the transition table; Ready means served |
| Guest provider (`providers-guest/`) | one SSH client for the whole server | waitReachable, exec, httpGet, dispose | commands reach the VM of their own deployment |
| Vault (`vault/`) | master key in the keychain (two accounts), records in memory, one file | unlock, put, get, remove, rotateKey | the file is whole; every record decrypts; what is acknowledged is durable |
| Exposure orchestrator (`controller/exposure-orchestrator.ts`, `core/chain-planner.ts`) | a mapping row per hop, rules on routers, a simulated NAT chain in mock mode | apply, rollback, teardownForDelete | innermost first, undone outermost first; answers are true; unmapped before deleted; a port leads where its exposure said |
| Router providers, Teach Mode (`providers-router/`, `core/locator.ts`) | recorded workflows, simulated routers, a browser page per replay | record, replay, probeRule | a step acts on the element it was taught on or stops; a rule has its values from one deployment |
| Updater (`server/updater.ts`, `updater-node.ts`) | the `current` link, staging directories, status | checkForUpdates, applyUpdate | a failed update leaves the previous release running |
| Accounts and setup (`server/auth/`, `server/routes/setup-routes.ts`, the wizard `apps/ui/src/oobe/`) | accounts, sessions, setup progress, the wrapped key; in a browser the step, the code and the cookies | create-admin, confirm-recovery, progress, complete, login, logout, `frolo-reset-setup` | one first administrator, whose code opens the wrapped key; complete only with an administrator; a user gets through |
| Connections (`server/routes/connection-routes.ts`, `context.ts`) | connection rows, tokens in the vault, desired and effective mode | save, delete, enable-real, disable-real, restart | the real mode names a connection that exists and has its token |
| Licensing (`licensing/verifier.ts`, `server/license-keys.ts`, `controller.ts`) | public keys, one licence in the vault | load keys, install, verify, gate of an exposure | long chains are opened only under a licence that pays for them |
| Pure algorithms (`core/`, `compareVersions`) | none | transitions, retry state, chain plan, network resolution, locator choice, version order | each meets its reference definition |
| Sanitizer, events, recipes, most of the UI, installer | none that decides anything | | section 7 |

Interactions. The orchestrator calls the journal for every mutation; the
journal calls the Proxmox provider and the store; the orchestrator and the
exposure orchestrator use the vault (guest keys, router credentials); a run
that exposes calls the exposure orchestrator, and a deletion calls it before
the journal. All runs share one SSH client and one vault object. Which providers
there are is decided once, at the start of the process, from the connections,
their tokens and the desired mode; deployments do not record the mode.

Hard behaviours: two requests for one operation; a crash between a request and
the record of it; a poll that times out while the task runs on; an exception
half-way; retries that skip what the journal calls done while the inputs have
changed; partial chains of mappings; replays that report the wrong thing; rules
of several deployments on one router; pages that change under a replay; two
browsers in the wizard, reloads, late saves; a token and its row that part; a
crash inside a key rotation. `PROJECT.json` lists the hazards with their lines.

## 2. The modules and the code

- **Proxmox** - the node as `FakeProxmoxProvider` defines it, with the failures
  `real.ts` adds placed in Journal. `vm` and `task` are its VMs and task log; a
  task id is the position in the log.
- **Journal** (extends Proxmox) - `entry` is the operation table, `call[c]` the
  place of a caller inside `runMutation` (`issuing`: request on its way, `sent`:
  executed, answer on its way, `polling`), `mode/todo/seen` the process and its
  `reconcile`. `Begin` is all `runMutation` does up to `await issue()`;
  `Arrive` is the node's side; `IssueThrows`, `RecordUpid`, `PollEnds` and
  `PollThrows` are what the code does after each await; `Restart`, `Inspect`,
  `Conclude`, `Listen` are `reconcile` and `main`. `past` and `left` are history,
  read by properties only: which operations lost an answer, overlapped, were cut
  by a crash or not found by a lookup, and which were left by a poll that threw.
- **Lifecycle** - the transition table of `core/state-machine.ts`, `nextState` and
  `computeRetryState`, and the abstract lifecycle the table promises for
  persisted states.
- **Deployment** (extends Journal) - `run[c]` is where a request is inside
  `run`, `retry` or `confirmAndDelete`; `state` the persisted state, `vault` the
  guest keys, `link` the VM the shared SSH client is connected to, `page` what
  each VM serves. `Mutate` calls the journal; the steps in between are
  Journal's own actions. Vault calls and commands may throw (`StoreKeyThrows`,
  `ForgetThrows`, `StepThrows`), and a command may never end (`Commands`). It
  implements Lifecycle (`FollowsLifecycle`) and
  Journal (`FollowsJournal`).
- **Vault** - `keychain`, `key`, `file`, `disk`, `tmp` are the accounts, the
  object's fields, the file and the temporary files; `temp[c]` is the name call `c`
  gave its temporary file, which is that of another call when both are made in one
  millisecond, and `handle[c]` what the file it writes to is by now: its own, shared,
  the vault file itself after the other's rename, or none. `persist` is the three
  actions `CreateTemp`, `WriteTemp`, `Rename`; `rotateKey` is `StageKey`,
  `Reencrypt`, those three, `PromoteKey`, `UnstageKey`.
- **Exposure** - one deployment and its chain: `record` the mapping rows, `rule`
  the routers, `forward` the simulated chain, `call[c]` the place in `apply`,
  `rollback` or `teardownForDelete`. Hop numbers count from 1 (the code from 0).
- **Versions** - `compareVersions`, and the precedence of semantic versioning,
  defined independently, that it is to compute.
- **Updater** (extends Versions) - `tree[t]` the staging directory of a release,
  `current` the link, `running` the release the service was started from,
  `up[c]` the place inside `applyUpdate` of a request to the panel or a run of
  `frolo-update`, `offer` what the panel shows as available. The panel is the
  service itself, so `Restart` ends it; `overlapped`, `collided` and `cut` only
  record what happened, for the conditions of properties.
- **FirstRun** - what the first-run setup promises, in three variables: whether
  there is an administrator, whether setup is complete, whether the reset
  command is between its two statements.
- **Setup** - `account`, `session`, `completed`, `saved`, `wrapped` are the tables
  and the key file; `page[b]`, `at[b]`, `knows[b]`, `shown[b]` what browser `b`
  shows (the Gate of the panel, the wizard's step, what it takes for done, the
  recovery code it holds), `cookie` and `csrf` its cookies, `saves` the posts of
  progress in flight. The two handlers that await a password hash are requests
  `r` with a beginning and an end (`BeginAdmin`/`EndAdmin`, `BeginLogin`/
  `EndLogin`); any other handler is one step. It implements FirstRun through the
  refinement mapping `FirstRunOf`.
- **Connections** - `row`, `config`, `token`, `disk`, `writing` are the connection
  rows, the desired mode, the tokens in memory and in the vault file, and the
  writes of the file under way; `up`, `ready`, `effective` the process and what
  `buildContext` chose; `target`, `cloned`, `deleted`, `vm` one deployment that is
  run and deleted in whatever mode the process is in.
- **Replay** - `Element`, `BuildLocators`, `Resolution` are the recorder and
  `resolveLocators`, a locator being a strategy and a value; `Steps` the fixture
  workflows; `replay[r]` the place of a replay, `page[p]` and `rules` the router.
  A simulated router resolves and acts at once, one replay at a time; a browser
  looks (`Look`) and acts later, next to other replays.
- **Addresses** - `parseCidr` and `resolveNetwork` over addresses of `Bits` bits.
- **Licence** - `loadPublicLicenseKeys`, `verifyLicense`, `computeEntitlements`.
- **Ports** (extends Addresses, Licence) - several deployments on one chain of
  simulated routers: allocation of VM ids, addresses, the licence gate,
  `planExposure`, and `nat-chain.ts`'s apply, remove and probe. In mock mode
  nothing an exposure awaits does I/O, so a request is one step. `nextVmid` is the
  counter of the fake Proxmox, `forwards[r]` the list of rules of router `r`, of which
  `Filtered` is `list.filter`. `Place` is `run` up to the guest's address, `CloneFails`
  one whose clone fails, `PlaceAgain` one after the deletion of its VM, which reads the
  address of the VM that has the id now; `moved` and `readdressed` only record what
  happened, for conditions.
- **MCJournal**, **MCDeployment**, **MCUpdater**, **MCReplay**, **MCPorts** - values of
  constants and symmetries for TLC. Setup, Connections, Vault and Exposure need
  no other values than their configurations give.
- **DeploymentProofs** (of Journal as well), **VaultProofs**, **ExposureProofs**,
  **UpdaterProofs**, **SetupProofs**, **ConnectionsProofs**, **ReplayProofs**,
  **PortsProofs** - the theorems.

Composition: Deployment extends Journal, which extends Proxmox, and implements
Lifecycle and Journal; Setup implements FirstRun; Ports composes Addresses, Licence
and the simulated routers; Connections composes routes, vault writes, provider
choice and the VMs of a deployment.

Operators whose comment begins with *Mutant* are plausible bugs in the
definition that follows them; each property is shown to fail for one of them.

What the models leave out of the steps they have:

- A request in flight when the server dies has reached the node or never does.
- The commands of a recipe are one step; so is, in Deployment, the exposure
  (module Exposure has it hop by hop); so is a login to the guest.
- In Deployment a VM address is not kept, only whether it can be read, and the
  vault's memory and its file are one (module Vault has them apart).
- The node ages a finished task out of its task list only while the server is
  down; a poll interval is too short for it.
- Vault: FileKeychain writes a key in one step; a write to a file is whole or torn;
  a record is its key and its value, a cipher decrypts with its own key only.
- Updater: a release's prerelease flag is that of its version, the version a
  service reports is its release's, and the restart command ends the old process
  before it returns.
- Exposure: rule names of deployments differ, a chain does not change (Ports has
  deployments that share routers, and chains that change); nobody edits the
  routers by hand; `deleted` stands for the whole journaled deletion.
- Setup: the wizard's steps on the way (welcome, Proxmox, network, node) are
  `Continue`; of the saved progress only the step and the flag of the recovery
  code are kept; attempts over the login limit are answered at once and change
  nothing.
- Connections: the values of a connection's metadata; a connection is the node
  it leads to. Deployments are one, with one VM id.
- Replay: a rule has two of its five fields, the name and the port; the login
  workflow, frames and coordinates are left out; the counts of all locators of a
  step are taken at one time; what the recorder captures is the fixture's form.
  A browser finds a text also within another one and in any case; here no text is
  part of another, nor is the name of a rule.
- Ports: all deployments use one chain; a router stands for its WAN address; a
  signature is good or not, a key names its environment, and no two keys have one
  id. It is one life of the process: a restart empties the simulated node.

## 3. The runs

| run | instance | states | what it shows |
|---|---|---|---|
| `journal` | 1 deployment, 2 callers of any operation, 2 begun mutations, 2 crashes, all 6 faults | 625,968 | types; the four safety and action properties; calls return |
| `deployment` | 1 deployment, 1 client, 3 requests, 1 crash, lost answers, slow tasks, polls that throw, with an exposure, run posted in any state | 529,657 | state and journal agree; Ready is served; Lifecycle and Journal are implemented; requests end but in a command that hangs |
| `vault` | 2 clients, 2 secrets, 2 values, 3 keys, 3 calls, 2 rotations, 2 crashes, failing writes, temporary files shared or not | 3,022,294 | whole file and decryptable records unless a temporary file was shared, durable when settled |
| `exposure` | 3 routers, 3 requests, 1 crash, mock and real mode | 185,971 | order, truth of answers, unmapped before deleted, termination |
| `updater` | 3 releases, one of them not healthy, 2 updates (panel, command line), 1 crash, with and without a restart command | 106,511 | whole releases, true answers, newer offers, updates end |
| `setup` | 2 browsers, 2 requests, 2 names, 4 steps of the wizard, 1 slip (reload, step back, lost answer or save, crash, expiry, logout), 1 reset | 365,938 | one administrator with its code; FirstRun is implemented; a user with the code finishes |
| `connections` | 2 connections, 2 requests that wait for the vault, 3 faults | 365,766 | no dangling real mode; a restart keeps what was promised |
| `replay` | 2 replays, 2 deployments, both fixture routers, simulated and in a browser, 2 changes of the page, 2 rules, symmetric in deployments and replays | 1,102,759 | steps act on what they were taught on; creates save what they report |
| `ports` | 2 deployments, 3 routers, 4-bit addresses, 3 requests, any number of runs again, 1 change of the chain, 1 licence, 3 times, symmetric in deployments | 2,215,308 | ports lead where their outcome says; addresses fit; long chains are paid for |
| `journal_crash`, `deployment_link`, `connections_vm` | as small as the case needs, the last as `connections` | | section 6 |

Why the bounds are enough. Two begun mutations of one operation are the least
in which a retry meets the remains of a first attempt, and two callers the
least in which they meet each other; a second crash lets one interrupt the
recovery from another. Operations do not touch each other's rows, so one
deployment is enough for Journal; the theorems of section 5 hold for every
number of everything. Three requests are a run that fails, a retry and a
deletion or a further run. Three hops have an inner, a middle and an outer
router, the middle one without a lookup workflow. Two rotations let the second
meet the remains of an interrupted first. Two updates are the least that overlap,
and the least in which a retry meets the directory a failed one left; the three
releases differ in a numbered identifier and in having a prerelease part. Two
browsers and two requests are the least that race for the first administrator,
or in which one creates and the other logs in; one reset lets a login meet it at
every place; the safety properties of Setup are proved for all bounds. Two
connections let one be deleted while the other is enabled. Two replays are the
least that share a router; two changes of the page take one element away and
put a stranger in its place. Two deployments are the least
whose rules can be taken for each other, and four chains have one, two and three
routers and one router at two places; of the three profiles one gives addresses
out, one derives them (the span of its subnet is six, so VM ids wrap around it)
and one names an address that is no host; the three times are within, at the
end of and after a licence, with and without a grace.

Properties with a condition, and why:

- `SucceededIsTrue` says of a deletion that the node has carried it out, except
  where a restart looked the VM up and it was gone (rightly a success) or the node
  did not answer (wrongly one, section 6); the events `gone` and `unanswered` of that
  operation, not the faults of the run, make the exception. It assumes distinct VM
  ids: deployments of one template share theirs
  (`deployment-orchestrator.ts:53-58`), and the second then adopts the first one's VM.
- `UnresolvedIsOwned` excepts an `in_flight` row whose own poll threw in this life of
  the process (`left`, emptied by a crash and by the next call for it): an entry the
  reconciliation passed over, or one left by a refusal or a timeout, violates it.
- `BegunAgainAfterFailure` has the same exception, and says of an operation the node
  may have carried out that it is begun again only after one of the events of `past`.
- `RequestsEnd` excepts a request that waits for ever for a command on a guest.
- `VaultIsWhole` and `RecordsRecoverable` except what follows once two calls named
  their temporary files in the same millisecond (`shared`): one then renames what the
  other is still writing. Calls that overlap with names of their own are covered.
- `StateFollowsJournal`, `ReadyIsServed` and `FollowsLifecycle` hold when
  requests for one deployment do not overlap (`Overlap = FALSE`). Nothing in the
  server enforces that; the panel sends one at a time. With overlap they are
  false. `FollowsJournal` does not need it and is proved without it, and so is what
  is left of `StateFollowsJournal`: `PastStepsHappened` (section 5).
- `SettledIsDurable` speaks of calls of the vault that did not overlap and did
  not throw. Overlapping writes may be renamed in the other order. For the same
  reason `RestartKeepsPromises` excepts what is `lossy`: a write of the vault
  file that failed, was cut off, or was under way together with another (so also
  any that shared a temporary file).
- `RecordsRecoverable` excludes a rotation begun after an interrupted one: it
  overwrites the staged key, perhaps the only one that decrypts the file.
- `RotateAlone`: the vault run lets a rotation overlap nothing. No route calls
  `rotateKey` at this commit.
- `InnermostFirst` and the rollback part of `OutcomeIsTrue` speak of exposures
  that began with nothing mapped, and except mappings whose removal threw.
- `CurrentIsBuilt` and `ReleasesImmutable` except updates to the same release
  that overlapped (both find no directory and extract into it), `AnswerIsTrue`
  and `LeftHealthy` any that overlapped (the rollback of one undoes the other's
  success); nothing in the code keeps updates apart. `LeftHealthy` also excepts a
  killed update and a restart command that failed.
- Exposure requests do not overlap in the run (`Overlap = FALSE`); what does not
  depend on it, `NoRouterSkipped`, is proved (section 5).
- `AdminHasItsCode` excepts two create-admin requests that hash at once: both
  make an administrator, and the code of the first opens nothing.
- `SetupFinishes` excepts a session that ends and a wizard that is `Stuck`
  (section 6); it does not except reloads, steps back or lost saves.
- `ActsOnTaught` speaks of a taught element that is on the page, and excepts a
  browser that takes the text near an element for the element, and a page that
  changes between the look and the act. `CreatesAreTrue` supposes that no step
  went astray.
- `PortsMatchOutcome` speaks of deployments whose public port nobody else has
  (nothing forbids two to share one) and that kept their address while they had
  rules (`readdressed`: a run after the deletion of the VM may read that of another);
  the absence of rules excepts deployments whose chain changed while they had some
  (`moved`).

Deadlock is checked in `connections` only: elsewhere requests, slips and crashes
are bounded, a VM may never boot and a torn vault would be refused, so the
systems really stop. Termination is checked as liveness instead.

## 4. Fairness

Journal: weak fairness of `Proceed`, what a caller does without any fault (an HTTP
request is answered; the poll loop ends with the task or at its timeout, which is
the fault `slow_task` and must be possible for `CallsReturn` to hold of tasks that
never finish; no other fault is relied on), and of the server's restart and
reconciliation (the service manager restarts it; `describeVm` catches errors; a
poll that throws is caught). Neither the node's tasks nor the clients are obliged
to do anything. Deployment: the same, per request, but for the commands of a
recipe and the check of the page (`Commands`): `Ssh2Transport.exec` waits for the
end of a command without a timeout (`ssh2-transport.ts:76-92`), so none is obliged
to end, and `RequestsEnd` excepts the request that waits for it. What else a
request waits for is bounded: an HTTPS request to the node by a timeout of 30 s,
an SSH connection by one of 20 s. Exposure: a replay ends, for a driver step that
finds no element times out. Vault has no liveness property. Updater: every step of
an update, which may always fail instead: downloads, builds and child processes
end, and the health check has a timeout; crashes and restarts are not obliged to
happen. Setup: the end of every hash (`EndAdmin`, `EndLogin`), the second
statement of a reset that began, and of each browser `Forward`, the buttons that
lead on: the fairness of a user who does not walk away, without which nobody
finishes a wizard. Weak fairness is enough, for a button stays until something
else is shown. Opening the panel, logging in, the arrival of saves and every slip
are not obliged to happen. Connections, Replay and Ports have no liveness
property: their requests are one or two steps with nothing to wait for but the
vault's file.

## 5. The proofs

TLAPS checks these for every value of the constants: any number of deployments,
callers, VMs, releases, routers, replays and crashes, and any faults. Requests may
overlap unless a theorem has the hypothesis that they do not; all hypotheses are
listed at the end of this section.

DeploymentProofs, of Journal. The inductive invariant `IInv` is
`TypeOK /\ RecordedTaskIsOwn /\ CallsOwn /\ ReconcileOwns /\ UnresolvedIsOwned /\
ClonesAreTrue /\ LookupsNoted /\ SucceededIsTrue`. `SucceededIsTrue` alone is not inductive: a
caller that polls a foreign task could record a success that is not its own, so
`CallsOwn` says a caller's task is one of its operation, and
`RecordedTaskIsOwn` the same of rows; reconciliation records a clone as
succeeded because the VM exists, so `ClonesAreTrue` says a VM with a
deployment's id came from a clone of it (this needs `DistinctTargets`);
`LookupsNoted` says that a lookup without a VM is noted in `past`, the one exception
of `SucceededIsTrue`;
`UnresolvedIsOwned` needs `ReconcileOwns`: before the server listens, every
unresolved row is still on its list. From it follow `TypeCorrect`,
`RecordedTaskCorrect`, `SucceededCorrect`, `UnresolvedCorrect`, and the action
properties `SettledCorrect` and `BegunAgainCorrect` (the latter with a second
invariant, `NoRowNoTrace`: an operation without a row was never begun, and a third,
`OutcomesKnown`: of an operation none of the events of `past` happened to, a task that
ended well is known to the row, to the caller that waits for it or to the
reconciliation that is to visit it).

DeploymentProofs, of Deployment. `JournalImplemented`: every step of Deployment is a step of
Journal or leaves its variables alone, because `Mutate` is the synchronous part
of `runMutation`; `RequestsOwn` says that a request has a deployment and a key
when it calls it. `DeploymentsSucceededCorrect` and `DeploymentsSettledCorrect`
carry the journal's theorems over. `DeployTypeCorrect`: the types of what
Deployment adds (`DeploymentsTyped`) are inductive next to `RequestsOwn`, and the
journal's come from `JournalImplemented`.

Where requests for one deployment do not overlap, `Serial` is inductive next to
`Sound` (the journal's `IInv`, `RequestsOwn`, the types): there is one request per
deployment (`OneRequestEach`); what a caller works on is not yet recorded as
succeeded, the mutations its run has passed are, and the row has the state of its
step (`Recorded`); the persisted state agrees with the journal. `StateCorrect` is
its last conjunct, which alone is not inductive: that the state advances only after
the journal says so depends on where the run is. `LifecycleImplemented` is the
refinement of Lifecycle from the same invariant, a lemma for the steps of a run.
`ReadyCorrect` adds `Serving`: the VM of a run that is connected runs with the key of
the vault, the shared SSH client goes to it, the page is there before the exposure,
and a deletion without a machine found no row of a clone; a crash loses the
connection, not the page.

Where requests for one deployment overlap, a late failure of one can turn a row that
says succeeded into one that says failed, so the state may be ahead of the journal.
It is never ahead of the node: `PastStepsCorrect` proves `PastStepsHappened`, that a
deployment is past a step only when the node has executed that step's operation for
it, a configure or a start without an error. Its invariant `AllTold` is `Serial`
without the journal's rows: what a caller has been told has succeeded, and what its
run has passed, has happened (`Told`), and the log only grows.

At the end, `StepsAre` and `NextStateIs` compute the functions of the state
machine; from them `AdvanceIsAllowed` (the next state after a confirmed step is a
transition of the table), `RetryResumes` (a retry after the first n steps enters
the state the normal advance enters after step n) and `TerminalStatesRest`.

VaultProofs. `VaultInv` has the types and what the handlers rely on at each await
(an open vault, a snapshot on its way to the file, the new key of a rotation).
`NeverTorn` needs `WholeInv`: until two calls share a temporary file, every call
writes to its own, and what it renames is its whole snapshot. With it,
`AlwaysRecoverable` needs `RecoverInv == ~replaced => Recoverable`: every record of
the file, of memory and of a snapshot has a key of the keychain, and a rotation has
the staged key alone in memory from the moment it re-encrypts, then in its snapshot,
then in the file (`RotationOK`); only so may it promote the key and drop the old
one. `AcknowledgedIsDurable` needs `Settled`: at most one call is under way, and its
snapshot says what memory says.

ExposureProofs. `ExpInv`: the mappings a request has made, or has still to remove,
are those of the routers 1 to n, its hop being the outermost. Where requests do not
overlap, `AloneInv` adds that an exposure that began with none knows every mapping
there is but those it failed to remove, that every router inside the one it is at is
verified, and that a deletion knows all mappings (`KnowsMappings`). From them follow
`InnermostFirstCorrect`, `OutcomeCorrect` and `DeletedAfterUnmapping`. With overlap
`EveryRouterVisited` remains: no public address and no deletion without the row of
every router having been saved; `PastInv` says which routers a request is past.

UpdaterProofs. `BuiltInv`: unless two updates ever installed the same release at once,
what the link points to, what runs and what an update would go back to is built, an
update finds no directory of its release until it makes it, and builds it before it
swaps: `LinkedIsBuilt`, `BuiltOnce`. `SequentialInv`: unless updates ever overlapped,
one is under way and the link and the process are where its step says:
`AnswerCorrect`. `GoodInv` adds that it would go back to a healthy release:
`HealthCorrect`. `ComparisonIsPrecedence`: for all versions `CompareVersions` is
positive only for the later one and negative for the earlier one, as semantic
versioning orders them; the first identifier that differs, which the code's loop
stops at, exists because the order of the numbers is well-founded (`MinIs`). From it,
`OfferCorrect`: what the panel offers is newer than what runs.

ReplayProofs. `ActsCorrect` needs `LookInv`: a locator that a browser has picked and
not used yet is one of those its step was taught with, and it finds one element as
long as the pages are those it was picked on. `CreatesCorrect` needs `CreateInv`: a
simulated router replays one workflow at a time; while no step went astray, a create
replay has filled the form of its page as far as it has come (`FormFilled`), a rule
with its values is there once it is past the step that saves, and every rule that a
create replay saved has the values of one deployment (`Whole`).

SetupProofs. `FirstRunImplemented` is a step simulation: all actions but four leave
FirstRun's variables alone (`QuietSteps`), `EndAdmin` creates or does nothing,
`Finish` completes under an account, the two statements of the reset wipe and
reopen. `LoginIsPossible` follows in FirstRun and is carried over: a panel that
asks for a login has an account, except inside a reset. `SetupTypeCorrect` needs
`NamesBegun` (a begun create-admin has a name, which its account takes over).
`AdminCodeCorrect` needs `CodeInv == TypeInv /\ Past /\ OneAtATime`: the ids of
accounts and of shown codes are those of requests that ended, so that no later
request makes another account of that id (`Past`), and, unless two overlapped,
at most one create-admin hashes, only while there is no account (`OneAtATime`).

ConnectionsProofs. `ConnTypeCorrect`; `NoDanglingCorrect`, inductive next to the
types; `RestartCorrect` from `VaultInv == ~lossy => InStep`: unless a write was
lossy, at most one is under way, it carries what the memory has, and the file has
it when none is; the memory has the token of the enabled connection and none
without a row.

PortsProofs. The solver knows nothing of recursive functions, powers or remainders,
so the module first proves what it needs of them. Induction and recursion over
numbers are stated with sets in place of predicates (`Induction`, `Recursion`), both
from the well-foundedness of the order. From them, `TwoToIs` computes the powers of
two, and `DivisionIsUnique` and `Remainders` give `DerivedFits`: a derived address is
a host of its subnet, and ids closer than its size get different ones. With
`MachinesInv` (the address of a VM that is there is what the profile makes of its id) that is
`AddressesCorrect`; `NewVmid`, that the counter finds an id which is free, gives
`IdsCorrect`. `FilteredIs` says what `list.filter` leaves: the members of the set, in
their order. Hence a router's first match for one port does not change when
rules of another are added or removed (`FirstIsKept`, `Applying`, `Removing`), and
what is applied and removed again leaves nothing of its own (`Undoing`).
`PortsMatchOutcome` is not inductive: that a deletion removes all rules of a deployment
needs `RulesFit`, which says that they are rules of its plan with the chain as it is,
and that a probe found this VM and not another needs that they lead to routers or
to its VM alone. `RequestKeeps` is the step every request has in common;
`PortsCorrect` follows. `LongChainsCorrect`: only exposures lengthen a router's list
(`Removing` for deletions), and what lets them pass is paid for (`MayOpenIsPaid`).

`RecordedTaskCorrect`, `DeploymentsSucceededCorrect`, `DeploymentsSettledCorrect`,
`DeployTypeCorrect`, `AdvanceIsAllowed`, `RetryResumes`, `TerminalStatesRest`,
`LoginIsPossible`, `ComparisonIsPrecedence`, `IdsCorrect`, `PastStepsCorrect` and
`EveryRouterVisited` state nothing a run checks; they are part of the argument, hold
for every input where a run would enumerate a few, or for overlap, which the runs
exclude.

Assumptions: the named ASSUMEs of the modules, which TLC evaluates in the runs. They
say that bounds are naturals, that a value for "none" is none of the others
(`ContentAssumption`, `NoKeyAssumption`), that a release's tag is a version
(`TagsAreVersions`), and for Ports that a profile is one `resolveNetwork` accepts, a
licence with nothing wrong has the fields its check looks at, and the VM the probe
expects is no router (`PortsAssumption`, `ProfilesAssumption`,
`LicencesAssumption`), and the keys of one source have ids of their own
(`KeysAssumption`). What is more than that is a hypothesis of the theorem:

- `~Overlap` in `StateCorrect`, `LifecycleImplemented`, `ReadyCorrect`,
  `InnermostFirstCorrect`, `OutcomeCorrect`, `DeletedAfterUnmapping`: nothing in
  the code prevents overlap but the panel, which disables its buttons meanwhile.
- `OneAtATime` in `ReadyCorrect`: one caller, or one deployment, for the server
  has one SSH client; `deployment_link` shows what happens otherwise.
- `DistinctTargets` in `ReadyCorrect`, `PastStepsCorrect` and the journal's theorems
  about VMs: two deployments never have the same VM id. The code leaves that to the node's next
  free id; `connections_vm` shows a case where it is not so.
- `RotateAlone` in `AlwaysRecoverable`: no call overlaps a rotation. No route
  calls `rotateKey`, so this is what a caller of it has to ensure.
- `Base \in Good` in `HealthCorrect`: the release installed at first is healthy.

Only model-checked is all liveness (`CallsReturn`, `RequestsEnd`, `ExposureEnds`,
`UpdatesEnd`, `SetupFinishes`): it is out of reach of this prover, as is ENABLED. Every
invariant and every other action property of the passing runs is proved.

## 6. Where code and documents disagree

Three runs end in a violation of what a document, a comment or an answer of the
program says; `PROJECT.json` quotes each line.

- `journal_crash`: a crash can duplicate a mutation when the operation failed
  before, for its row stays `failed` while the retry is issued.
- `deployment_link`: two overlapping runs share one SSH client, so one is installed
  and checked on the VM of the other.
- `connections_vm`: a deployment keeps the VM id its failed clone was given, or one
  made in the other mode, and its deletion, announced as "then delete the VM"
  (`apps/ui/src/screens/DeploymentDetails.tsx:152-153`), deletes the VM that has it.

Further disagreements that the models have as facts and no run singles out:

- A restart that cannot reach the node records an interrupted deletion as succeeded
  while the VM is there: `describeVm` answers null for any HTTP error
  (`providers-proxmox/src/real.ts:186-204`), and null is taken for the absence a
  deletion is to bring about (`journal-service.ts:156`). Requirements 19.4 and 19.5
  (`.kiro/specs/frolo/requirements.md:444-451`) ask for the true outcome, and for
  `needs_attention` where it cannot be determined. In module Journal these are the
  deletions with the event `unanswered`. The same null makes a clone, configure or
  start that may have happened fail, so that it is issued again.
- `writeAtomic` promises to be atomic (`vault/src/file-store.ts:8-11`), but names its
  temporary file by process and millisecond (`:17`): two calls in one millisecond
  write to one file, one renames it while the other still writes, and the vault file
  may be torn, or the second rename finds nothing and throws (`shared` in Vault).
- A command on a guest has no timeout, and one whose channel closes without a code
  counts as successful (`code ?? 0`, `ssh2-transport.ts:76-92`).
- A step whose taught element is gone acts on another element if that one alone
  matches, where requirement 9.2 (`requirements.md:248`, `design.md:423-426`) asks to
  stop when the element is missing ("taught element gone" in Replay).
- A run after the deletion of its VM skips the clone, which the journal has as
  succeeded, and stores the address of the VM that has the id now
  (`deployment-orchestrator.ts:124-133`; `PlaceAgain` in Ports).
- A second run replaces the guest key in the vault but, its configure being
  skipped, not on the VM (`deployment-orchestrator.ts:81-107`).
- The key of a deletion is fixed per deployment, so a second deletion, after
  another run, is skipped for ever with the answer of the first
  (`journal-service.ts:42`).
- A rotation interrupted between the file and the promotion leaves a vault that
  unlocks with the wrong key (`vault.ts:183`, `57-65`).
- A failed second exposure rolls back the mappings of the first, although it
  promises to roll back only its own (`exposure-orchestrator.ts:81`); and a router
  without a provider makes `apply` throw without any rollback (module Ports).
- An update applied from the panel restarts the process that would check its
  health and roll it back (`updater.ts:263`).
- The fixture workflows' deletions delete nothing: A's presses the button that adds
  a rule, B's only verifies. `removeHop` looks at no result
  (`exposure-orchestrator.ts:137`), so the rule stays.
- The wizard stops at the administrator's page when the account exists and the page
  is reached again (a step back, or a reload with the progress saved there): it
  says "Continue to your recovery code" and has no such button (`Stuck` in module
  Setup; `AdminStep.tsx:47`, `Oobe.tsx:199`). Reloading at the recovery step loses
  the code, and the step then lets everyone pass.
- Saving the progress replaces the flags that other routes add to it, so a save
  that is late forgets a confirmed code.
- When the key file cannot be written, the account is there without a code and a
  retry is refused (409). A session that ended during the wizard makes Finish fail
  with no way to the login, for the gate shows the wizard while setup is open.
- A login that overlaps `frolo-reset-setup` leaves a session of an account that
  is gone; it resolves to nobody.
- The removal of a simulated mapping does not compare the protocol and takes all
  equal rules, also those of another deployment with the same port (`nat-chain.ts:37`).
  A probe accepts one fixed address for the VM, so in mock mode only the
  deployment with the first address of DHCP can be exposed.
- Saving a router chain leaves the rules of the old one; a deletion plans with the
  new one, and fails when it is empty.
- Derived addresses of VM ids that differ by the span of their subnet are equal, and
  one may be the gateway's. A profile is looked at after the clone
  (`deployment-orchestrator.ts:87-89`).
- A licence is stored before it is verified (`controller.ts:256`), so a bad one
  replaces a good one.
- A real mode whose token or connection is missing at the start is mock without a
  word (`context.ts:131-154`); what is deployed then is in the simulation.
- A token whose removal failed stays in the vault file without a connection.

## 7. What is not modelled

- Sanitizer, events, audit rows and logs: nothing reads them to decide anything.
- Recipes: allow-lists of text, and the rendering of a page.
- The UI beyond the wizard and the gate: it only sends requests, which the models
  choose freely.
- The login limiter (counters over a window of time), the restore of the vault by
  a recovery code, and the wizard's Proxmox, network and node steps.
- Discovery and test routes: they read.
- The live recording of Teach Mode: no code at this commit feeds it; the login
  workflow of a router.
- The installer and release scripts, the issuing of licences: one-shot programs.
- The HTTPS transport's certificate pinning, the ciphers and signatures: external.
- Database backups and migrations run once, before anything else.
- Of the updater: the text of releases and checksum files, version identifiers
  that mix digits and letters, and versions with two hyphens (`parseVersion` drops
  what follows the second).
- The text of addresses and the parser's complaints about it.

## 8. Plan

Done, in this order: Proxmox, Journal and its proofs (what every other promise
rests on); Lifecycle, Deployment, DeploymentProofs; Vault; Exposure; Updater and
Versions; access (FirstRun, Setup, Connections and their proofs); plans
(Addresses, Licence, Ports, Replay); the proofs about Deployment, Vault, Exposure,
Updater and Versions, Replay, Ports.

Left:

1. Overlap: a run of Deployment and one of Exposure with overlapping requests, for
   `PastStepsHappened` and `NoRouterSkipped`; of `ReadyIsServed`, what holds with
   it is not known.
2. The login limiter, with a clock, in Setup.
3. Exposure over Replay: its nondeterministic replay as the replays of that module.

Theorems worth proving next: of `ReadyIsServed` under overlap whatever the first
point finds; that Exposure with the replays of Replay refines Exposure.
