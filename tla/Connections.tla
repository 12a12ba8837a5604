----------------------------- MODULE Connections -----------------------------
(***************************************************************************)
(* Proxmox connections and the runtime mode: server/routes/                *)
(* connection-routes.ts, the choice of providers in server/context.ts, and *)
(* what a deployment of one mode does to the node of the other.            *)
(*                                                                         *)
(* A connection's metadata is a row of SQLite, written at once; its token  *)
(* is a record of the vault, in memory at once and on disk when the write  *)
(* of the whole vault file ends.  A handler up to its first write of the   *)
(* vault is one step (vault.has is answered from memory before any other   *)
(* handler runs), and the end of the write is another: r is a request that *)
(* waits for it.  Writes under way may land in any order or fail.          *)
(***************************************************************************)
EXTENDS Naturals, FiniteSets

CONSTANTS
  Conns,      \* ids of connections; each stands for the node it connects to
  Requests,   \* requests that can wait for a write of the vault at one time
  Nobody,     \* no connection
  MaxFaults   \* bound: failed writes and stops of the process

ASSUME ConnectionsAssumption == Nobody \notin Conns /\ MaxFaults \in Nat

VARIABLES
  row,        \* rows of table connection
  config,     \* runtime_config: the desired mode and the active connection
  token,      \* connections with a token in the vault's memory
  disk,       \* connections with a token in the vault file
  writing,    \* requests: the tokens of the vault file being written
  up, ready,  \* the process runs; its environment opens the readiness gate
  effective,  \* effectiveMode with the node the providers are bound to
  target, cloned, deleted,  \* one deployment: a VM id is allocated; its clone
                            \* and its deletion are recorded as succeeded
  vm,         \* who owns the VM with that id on the simulated and on each node
  faults,     \* used up of the bound
  lossy       \* a write of the vault file failed, was cut off by a stop, or
              \* was under way together with another

deployment == <<target, cloned, deleted, vm>>
process == <<up, ready, effective>>
bounds == <<faults, lossy>>
vars == <<row, config, token, disk, writing, process, deployment, bounds>>

Free == [on |-> FALSE, tokens |-> {}]
Mock == [mode |-> "mock", at |-> Nobody]
Real(c) == [mode |-> "real", at |-> c]
Modes == {Mock} \cup {Real(c) : c \in Conns}
Places == Conns \cup {Nobody}      \* Nobody is the simulation

-----------------------------------------------------------------------------
(* The vault *)

Pending == {r \in Requests : writing[r].on}

\* Vault.persist by request r: a snapshot of the memory starts on its way.
Persist(r, tokens) ==
  /\ ~writing[r].on
  /\ writing' = [writing EXCEPT ![r] = [on |-> TRUE, tokens |-> tokens]]
  /\ lossy' = (lossy \/ Pending # {})

\* The write of a request ends, and the request is answered.
WriteLands(r) ==
  /\ up /\ writing[r].on
  /\ disk' = writing[r].tokens
  /\ writing' = [writing EXCEPT ![r] = Free]
  /\ UNCHANGED <<row, config, token, process, deployment, bounds>>

\* The write fails, the handler throws; the memory stays as it was changed.
WriteFails(r) ==
  /\ up /\ writing[r].on /\ faults < MaxFaults
  /\ faults' = faults + 1 /\ lossy' = TRUE
  /\ writing' = [writing EXCEPT ![r] = Free]
  /\ UNCHANGED <<row, config, token, disk, process, deployment>>

-----------------------------------------------------------------------------
(* The routes of the connections *)

GetConnection(c) == c \in row
SaveConnection(c) == row' = row \cup {c}
DeleteConnection(c) == row' = row \ {c}

\* POST /api/connections with a token: the row first, then the token.
Save(r, c) ==
  /\ up
  /\ SaveConnection(c)
  /\ token' = token \cup {c}
  /\ Persist(r, token')
  /\ UNCHANGED <<config, disk, process, deployment, faults>>

\* POST without a token, and select-node, change metadata only (what they
\* change of an existing row is not modelled).
SaveMetadata(c) ==
  /\ up /\ SaveConnection(c)
  /\ UNCHANGED <<config, token, disk, writing, process, deployment, bounds>>

\* Mutant of Delete: the active connection is not refused.
DeleteUnguarded(r, c) ==
  /\ up /\ GetConnection(c)
  /\ DeleteConnection(c)
  /\ IF c \in token
     THEN token' = token \ {c} /\ Persist(r, token')
     ELSE UNCHANGED <<token, writing, lossy>>
  /\ UNCHANGED <<config, disk, process, deployment, faults>>

\* DELETE /api/connections/:id: the row, then the token if there is one; 404
\* without a row and 409 for the active connection change nothing.
Delete(r, c) ==
  /\ up /\ GetConnection(c)
  /\ config # Real(c)
  /\ DeleteConnection(c)
  /\ IF c \in token
     THEN token' = token \ {c} /\ Persist(r, token')
     ELSE UNCHANGED <<token, writing, lossy>>
  /\ UNCHANGED <<config, disk, process, deployment, faults>>

-----------------------------------------------------------------------------
(* The runtime mode *)

\* Mutant of EnableReal: the route does not ask for the token.
EnableRealUnchecked(c) ==
  /\ up /\ ready /\ GetConnection(c)
  /\ config' = Real(c)
  /\ UNCHANGED <<row, token, disk, writing, process, deployment, bounds>>

\* POST /api/runtime/enable-real: only the desired configuration changes.
EnableReal(c) ==
  /\ up /\ ready /\ GetConnection(c) /\ c \in token
  /\ config' = Real(c)
  /\ UNCHANGED <<row, token, disk, writing, process, deployment, bounds>>

\* Mutant of DisableReal: the active connection stays.
DisableRealOnly ==
  /\ up /\ config' = [config EXCEPT !.mode = "mock"]
  /\ UNCHANGED <<row, token, disk, writing, process, deployment, bounds>>

\* POST /api/runtime/disable-real
DisableReal ==
  /\ up /\ config' = Mock
  /\ UNCHANGED <<row, token, disk, writing, process, deployment, bounds>>

\* The process ends: restarted by the operator, or dead in the middle of
\* writes, whose requests are lost.
Stop ==
  /\ up /\ up' = FALSE
  /\ faults < MaxFaults /\ faults' = faults + 1
  /\ lossy' = (lossy \/ Pending # {})
  /\ writing' = [r \in Requests |-> Free]
  /\ UNCHANGED <<row, config, token, disk, ready, effective, deployment>>

\* buildContext: the vault is read, and the mode is real only when the gate is
\* open and the active connection has a row and a token; else it is mock
\* without a word.  The simulated node starts empty.
Bound(isReady) ==
  IF /\ isReady /\ config.mode = "real"
     /\ GetConnection(config.at) /\ config.at \in disk
  THEN config ELSE Mock

Boot(isReady) ==
  /\ ~up /\ up' = TRUE
  /\ ready' = isReady
  /\ token' = disk
  /\ effective' = Bound(isReady)
  /\ vm' = [vm EXCEPT ![Nobody] = "none"]
  /\ UNCHANGED <<row, config, disk, writing, target, cloned, deleted, bounds>>

-----------------------------------------------------------------------------
(* One deployment in whatever mode the process is in *)

\* DeploymentOrchestrator.run: the VM id is allocated before the clone, which
\* is skipped when the journal has it as succeeded and fails when a VM has the
\* id: a real node gives out no ids, the id is the template's plus 1000.
Run ==
  /\ up /\ target' = TRUE
  /\ IF ~cloned /\ vm[effective.at] = "none"
     THEN cloned' = TRUE /\ vm' = [vm EXCEPT ![effective.at] = "own"]
     ELSE UNCHANGED <<cloned, vm>>
  /\ UNCHANGED <<row, config, token, disk, writing, process, deleted, bounds>>

\* Controller.confirmAndDelete: nothing says which node the VM was cloned on.
ConfirmAndDelete ==
  /\ up /\ target /\ ~deleted /\ vm[effective.at] # "none"
  /\ deleted' = TRUE
  /\ vm' = [vm EXCEPT ![effective.at] = "none"]
  /\ UNCHANGED <<row, config, token, disk, writing, process, target, cloned, bounds>>

-----------------------------------------------------------------------------
Init ==
  /\ row = {} /\ config = Mock
  /\ token = {} /\ disk = {} /\ writing = [r \in Requests |-> Free]
  /\ up = TRUE /\ ready \in BOOLEAN /\ effective = Mock
  /\ target = FALSE /\ cloned = FALSE /\ deleted = FALSE
  /\ vm \in {v \in [Places -> {"none", "other"}] : v[Nobody] = "none"}
  /\ faults = 0 /\ lossy = FALSE

Next ==
  \/ \E r \in Requests :
       \/ WriteLands(r) \/ WriteFails(r)
       \/ \E c \in Conns : Save(r, c) \/ Delete(r, c)
  \/ \E c \in Conns : SaveMetadata(c) \/ EnableReal(c)
  \/ DisableReal \/ Stop
  \/ \E isReady \in BOOLEAN : Boot(isReady)
  \/ Run \/ ConfirmAndDelete

Spec == Init /\ [][Next]_vars

-----------------------------------------------------------------------------
(* Properties *)

ConnTypeOK ==
  /\ row \in SUBSET Conns /\ token \in SUBSET Conns /\ disk \in SUBSET Conns
  /\ config \in Modes /\ effective \in Modes
  /\ writing \in [Requests -> [on : BOOLEAN, tokens : SUBSET Conns]]
  /\ up \in BOOLEAN /\ ready \in BOOLEAN
  /\ target \in BOOLEAN /\ cloned \in BOOLEAN /\ deleted \in BOOLEAN
  /\ vm \in [Places -> {"none", "own", "other"}]
  /\ faults \in 0..MaxFaults /\ lossy \in BOOLEAN

\* connection-routes.ts:107 "prevents a dangling real config": whatever the
\* order of deletions, mode switches and crashes, the desired real mode points
\* to a connection that is there.
NoDanglingReal == config.mode = "real" => config.at \in row

\* When no write of the vault is under way and none was lossy, a restart finds
\* what the panel promised: the enabled connection comes up as real, for its
\* token is on disk, and no token outlives its connection (requirements 20.5).
RestartKeepsPromises ==
  Pending = {} /\ ~lossy =>
    /\ config.mode = "real" => config.at \in disk
    /\ disk \subseteq row

\* A deletion deletes "the VM" of its deployment (DeploymentDetails.tsx:152): one
\* that Frolo did not clone is removed by none.
OthersStay ==
  [][\A p \in Places : vm[p] = "other" => vm'[p] = "other"]_vars
=============================================================================
