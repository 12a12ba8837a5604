------------------------------- MODULE Proxmox -------------------------------
(***************************************************************************)
(* The virtual machines and the task log of one Proxmox node, as the       *)
(* controller sees them through ProxmoxProvider: a mutation takes effect   *)
(* when its request arrives and answers with a task id, and the outcome of *)
(* the task is only told to whoever polls it later.  The behaviour is that *)
(* of FakeProxmoxProvider (packages/providers-proxmox/src/fake.ts); what   *)
(* the HTTP provider (real.ts) adds, a request that is refused or whose    *)
(* answer is lost, is an action of the caller in module Journal.           *)
(***************************************************************************)
EXTENDS Naturals, Sequences

CONSTANTS
  Deps,       \* deployment ids
  Vms,        \* VM ids of the node
  GuestKeys,  \* key pairs the controller may inject through cloud-init
  NoKey       \* a VM on which no key was injected

ASSUME NoKeyAssumption == NoKey \notin GuestKeys

VARIABLES
  vm,    \* vm[v]: the VM with id v, "absent" when there is none
  task   \* the task log: task[u] is the task whose id (UPID) is u

pveVars == <<vm, task>>

Actions  == {"clone", "configure", "start", "delete"}
Ops      == Deps \X Actions          \* an operation: `${dep.id}:${action}`
Outcomes == {"ok", "error"}

Vm   == [status : {"absent", "stopped", "running"},
         key    : GuestKeys \cup {NoKey}]
Task == [op : Ops, outcome : Outcomes, state : {"running", "done", "aged"}]

NoVm == [status |-> "absent", key |-> NoKey]

Exists(v) == vm[v].status # "absent"

PveTypeOK == /\ vm \in [Vms -> Vm]
             /\ task \in Seq(Task)

PveInit == /\ vm = [v \in Vms |-> NoVm]
           /\ task = <<>>

-----------------------------------------------------------------------------
(* makeTask: the outcome is fixed when the task is made, and hidden while  *)
(* the task runs.                                                          *)
MakeTask(k, r) ==
  task' = Append(task, [op |-> k, outcome |-> r, state |-> "running"])

(* Cloning onto an id that exists changes nothing and still answers with a *)
(* task; a template that is gone makes a task that ends in error.          *)
CloneTemplate(d, v) ==
  \/ /\ MakeTask(<<d, "clone">>, "error")
     /\ UNCHANGED vm
  \/ /\ vm' = [vm EXCEPT ![v] =
                 IF Exists(v) THEN @
                 ELSE [status |-> "stopped", key |-> NoKey]]
     /\ \E r \in Outcomes : MakeTask(<<d, "clone">>, r)

(* configure, start and delete of a VM that does not exist make a task     *)
(* that ends in error and change nothing.                                  *)
Missing(d, a, v) ==
  /\ ~Exists(v)
  /\ MakeTask(<<d, a>>, "error")
  /\ UNCHANGED vm

ConfigureVm(d, v, g) ==
  \/ Missing(d, "configure", v)
  \/ /\ Exists(v)
     /\ vm' = [vm EXCEPT ![v].key = g]
     /\ \E r \in Outcomes : MakeTask(<<d, "configure">>, r)

StartVm(d, v) ==
  \/ Missing(d, "start", v)
  \/ /\ Exists(v)
     /\ vm' = [vm EXCEPT ![v].status = "running"]
     /\ \E r \in Outcomes : MakeTask(<<d, "start">>, r)

DeleteVm(d, v) ==
  \/ Missing(d, "delete", v)
  \/ /\ Exists(v)
     /\ vm' = [vm EXCEPT ![v] = NoVm]
     /\ \E r \in Outcomes : MakeTask(<<d, "delete">>, r)

(* The request of operation k = <<d, action>> on VM v reaches the node;    *)
(* g is the public key a configure carries.                                *)
Execute(k, v, g) ==
  \/ k[2] = "clone"     /\ CloneTemplate(k[1], v)
  \/ k[2] = "configure" /\ ConfigureVm(k[1], v, g)
  \/ k[2] = "start"     /\ StartVm(k[1], v)
  \/ k[2] = "delete"    /\ DeleteVm(k[1], v)

(* pollsRemaining reaches zero: from here pollTask tells the outcome.      *)
FinishTask(u) ==
  /\ task[u].state = "running"
  /\ task' = [task EXCEPT ![u].state = "done"]
  /\ UNCHANGED vm

(* A finished task drops out of the node's task list; pollTask answers     *)
(* "unknown task" for it from then on.                                     *)
AgeTask(u) ==
  /\ task[u].state = "done"
  /\ task' = [task EXCEPT ![u].state = "aged"]
  /\ UNCHANGED vm

(* What pollTask answers for task u.                                       *)
PollTask(u) ==
  CASE task[u].state = "running" -> "running"
    [] task[u].state = "done"    -> task[u].outcome
    [] task[u].state = "aged"    -> "unknown"
=============================================================================
