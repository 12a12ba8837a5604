--------------------------- MODULE DeploymentProofs --------------------------
(***************************************************************************)
(* Proofs about modules Journal and Deployment, for any number of          *)
(* deployments, callers and crashes and for every set of faults.  First,   *)
(* what the journal says about the node's task log.  Then, that deployment *)
(* requests use the journal as module Journal specifies it, also when      *)
(* requests for one deployment overlap: module Deployment implements       *)
(* module Journal, so what is proved of the journal holds of every         *)
(* deployment.  When they do not overlap, the persisted state goes along   *)
(* the lifecycle of module Lifecycle, agrees with the journal, and says    *)
(* Ready only of a deployment that is served; when they do, it is still    *)
(* never ahead of what the node has done.  At the end, what the pure       *)
(* functions of the state machine have to do with its table.               *)
(***************************************************************************)
EXTENDS Deployment, SequenceTheorems, TLAPS

-----------------------------------------------------------------------------
(* The journal, as module Journal specifies it.                            *)

(* The fields of a call and of a row, as the type invariant gives them.    *)
LEMMA CallFields ==
  ASSUME TypeOK, NEW c \in Callers
  PROVE  /\ call[c].pc \in {"idle", "issuing", "sent", "polling"}
         /\ call[c].pc = "idle" <=> call[c].op = NoOp
         /\ call[c].pc # "idle" => call[c].op \in Ops
         /\ call[c].key \in GuestKeys \cup {NoKey}
         /\ call[c].upid \in Nat
BY DEF TypeOK, JrnTypeOK, Call, Returned, Ops, NoOp

(* A call that moves on keeps its type.                                    *)
LEMMA CallAdvances ==
  ASSUME TypeOK, NEW c \in Callers, call[c].pc # "idle",
         NEW p \in {"sent", "polling"}, NEW u \in Nat
  PROVE  /\ [call EXCEPT ![c].pc = p, ![c].upid = u] \in [Callers -> Call]
         /\ [call EXCEPT ![c].pc = p] \in [Callers -> Call]
<1>1. /\ call \in [Callers -> Call]
      /\ call[c] \in [pc : {"issuing", "sent", "polling"}, op : Ops,
                      key : GuestKeys \cup {NoKey}, upid : Nat, res : {"none"}]
  BY DEF TypeOK, JrnTypeOK, Call, Returned
<1>2. /\ [call[c] EXCEPT !.pc = p, !.upid = u] \in Call
      /\ [call[c] EXCEPT !.pc = p] \in Call
  BY <1>1 DEF Call
<1>3. QED
  BY <1>1, <1>2

(* A call that returns, and a row whose status is set, keep their types.   *)
LEMMA ReturnSetStatus ==
  ASSUME TypeOK
  PROVE  /\ \A c \in Callers, r \in {"ok", "failed", "threw"} :
              Return(c, r) => call' \in [Callers -> Call]
         /\ \A k \in Ops, s \in Statuses :
              SetStatus(k, s) => entry' \in [Ops -> Entry]
BY DEF TypeOK, JrnTypeOK, Return, SetStatus, Call, Entry

(* An operation is the pair of its parts.                                  *)
LEMMA OpParts ==
  ASSUME NEW k \in Ops
  PROVE  /\ k = <<k[1], k[2]>>
         /\ k[1] \in Deps
         /\ k[2] \in Actions
         /\ Target[k[1]] \in Vms
         /\ k # NoOp
BY TargetAssumption DEF Ops, NoOp, Actions

(* Executing an operation appends one task of that operation to the log,   *)
(* and only a clone brings a VM into existence.                            *)
LEMMA ExecuteAppends ==
  ASSUME PveTypeOK, NEW k \in Ops, NEW v \in Vms,
         NEW g \in GuestKeys \cup {NoKey}, Execute(k, v, g)
  PROVE  /\ vm' \in [Vms -> Vm]
         /\ \E t \in Task : task' = Append(task, t) /\ t.op = k
         /\ \A w \in Vms : vm'[w].status # "absent" =>
              Exists(w) \/ (w = v /\ k[2] = "clone")
<1>1. \E r \in Outcomes : MakeTask(k, r)
  BY OpParts DEF Execute, CloneTemplate, ConfigureVm, StartVm, DeleteVm,
                 Missing, Outcomes
<1>2. \E t \in Task : task' = Append(task, t) /\ t.op = k
  BY <1>1 DEF MakeTask, Task
<1>3. /\ vm' \in [Vms -> Vm]
      /\ \A w \in Vms : vm'[w].status # "absent" =>
           Exists(w) \/ (w = v /\ k[2] = "clone")
  <2> USE DEF PveTypeOK, Exists, Vm
  <2>1. CASE UNCHANGED vm
    BY <2>1
  <2>2. CASE k[2] = "clone" /\ CloneTemplate(k[1], v)
    BY <2>1, <2>2 DEF CloneTemplate
  <2>3. CASE ConfigureVm(k[1], v, g)
    BY <2>1, <2>3 DEF ConfigureVm, Missing
  <2>4. CASE StartVm(k[1], v)
    BY <2>1, <2>4 DEF StartVm, Missing
  <2>5. CASE DeleteVm(k[1], v)
    BY <2>1, <2>5 DEF DeleteVm, Missing, NoVm
  <2>6. QED
    BY <2>2, <2>3, <2>4, <2>5 DEF Execute
<1>4. QED
  BY <1>2, <1>3

(* Appending keeps the tasks that are there.                               *)
LEMMA AppendKeeps ==
  ASSUME task \in Seq(Task), NEW t \in Task, task' = Append(task, t)
  PROVE  /\ task' \in Seq(Task)
         /\ Len(task') = Len(task) + 1
         /\ DOMAIN task = 1..Len(task)
         /\ DOMAIN task' = 1..Len(task')
         /\ Len(task) \in Nat
         /\ \A u \in DOMAIN task : task'[u] = task[u]
         /\ task'[Len(task')] = t
OBVIOUS

(* The node on its own changes neither the VMs nor what a task is about.   *)
LEMMA NodeStepKeeps ==
  ASSUME TypeOK, NodeStep
  PROVE  /\ PveTypeOK'
         /\ vm' = vm
         /\ DOMAIN task' = DOMAIN task
         /\ \A u \in DOMAIN task : /\ task'[u].op = task[u].op
                                   /\ task'[u].outcome = task[u].outcome
         /\ UNCHANGED jrnVars
<1>1. /\ vm' = vm
      /\ UNCHANGED jrnVars
      /\ vm \in [Vms -> Vm]
      /\ task \in Seq(Task)
  BY DEF NodeStep, FinishTask, AgeTask, TypeOK, PveTypeOK
<1>2. PICK u \in DOMAIN task, s \in {"done", "aged"} :
        task' = [task EXCEPT ![u].state = s]
  BY DEF NodeStep, FinishTask, AgeTask
<1>3. task[u] \in Task /\ [task[u] EXCEPT !.state = s] \in Task
  <2>1. task[u] \in Task
    BY <1>1, ElementOfSeq
  <2>2. QED
    BY <2>1 DEF Task
<1>4. /\ DOMAIN task' = DOMAIN task
      /\ task' \in Seq(Task)
  BY <1>1, <1>2, <1>3, ExceptSeq
<1>5. ASSUME NEW w \in DOMAIN task
      PROVE  task'[w].op = task[w].op /\ task'[w].outcome = task[w].outcome
  BY <1>1, <1>2, <1>3 DEF Task
<1>6. QED
  BY <1>1, <1>4, <1>5 DEF PveTypeOK

-----------------------------------------------------------------------------
(* Every state is well typed.                                              *)

LEMMA TypeInit == Init => TypeOK
BY BoundsAssumption
DEF Init, PveInit, NoVm, TypeOK, PveTypeOK, JrnTypeOK, Vm, Entry, Call, Returned,
    Statuses

(* What is remembered of an operation is of its type.                      *)
LEMMA HistoryTyped ==
  ASSUME TypeOK, [Next]_vars
  PROVE  past' \subseteq Ops \X Events /\ left' \subseteq Ops
<1>1. past \subseteq Ops \X Events /\ left \subseteq Ops
  BY DEF TypeOK, JrnTypeOK
<1>2. CASE UNCHANGED <<past, left>>
  BY <1>1, <1>2
<1>3. ASSUME NEW k \in Ops, NEW e \in Events, Note(k, e) \/ UNCHANGED past,
             left' \subseteq left \cup {k}
      PROVE  past' \subseteq Ops \X Events /\ left' \subseteq Ops
  BY <1>1, <1>3 DEF Note
<1>4. ASSUME NEW c \in Callers, NEW k \in Ops, NEW g \in PublicKeys(k), Begin(c, k, g)
      PROVE  past' \subseteq Ops \X Events /\ left' \subseteq Ops
  BY <1>3, <1>4 DEF Begin, Events
<1>5. ASSUME NEW c \in Callers, IssueThrows(c) \/ PollEnds(c) \/ PollThrows(c)
      PROVE  past' \subseteq Ops \X Events /\ left' \subseteq Ops
  <2>1. call[c].op \in Ops
    BY <1>5, CallFields DEF IssueThrows, PollEnds, PollThrows
  <2>2. Note(call[c].op, "untold") \/ UNCHANGED past
    BY <1>5 DEF IssueThrows, PollEnds, PollThrows
  <2>3. left' \subseteq left \cup {call[c].op}
    BY <1>5 DEF IssueThrows, PollEnds, PollThrows
  <2>4. QED
    BY <1>3, <2>1, <2>2, <2>3 DEF Events
<1>6. ASSUME NEW k \in Ops, Inspect(k)
      PROVE  past' \subseteq Ops \X Events /\ left' \subseteq Ops
  <2>1. Note(k, "gone") \/ Note(k, "unanswered") \/ UNCHANGED past
    <3>1. PICK e \in BOOLEAN : CASE e                   -> UNCHANGED past
                                 [] ~Exists(Target[k[1]]) -> Note(k, "gone")
                                 [] OTHER                 -> Note(k, "unanswered")
      BY <1>6 DEF Inspect, Exists
    <3>2. QED
      BY <3>1
  <2>2. UNCHANGED left
    BY <1>6 DEF Inspect
  <2>3. QED
    BY <1>3, <2>1, <2>2 DEF Events
<1>7. CASE Crash
  BY <1>1, <1>7 DEF Crash, Events
<1>8. QED
  BY <1>2, <1>4, <1>5, <1>6, <1>7
  DEF Next, SkipSucceeded, SkipNeedsAttention, CallStep, Arrive, RecordUpid, ServerStep,
      Restart, Conclude, Listen, NodeStep, jrnVars, vars

LEMMA TypeStep == TypeOK /\ [Next]_vars => TypeOK'
<1> SUFFICES ASSUME TypeOK, [Next]_vars PROVE TypeOK'
  OBVIOUS
<1> USE DEF TypeOK, JrnTypeOK
<1>1. CASE UNCHANGED vars
  BY <1>1 DEF vars, PveTypeOK
<1>2. ASSUME NEW c \in Callers, NEW k \in Ops,
             SkipSucceeded(c, k) \/ SkipNeedsAttention(c, k)
      PROVE  TypeOK'
  BY <1>2 DEF SkipSucceeded, SkipNeedsAttention, Return, Returned, serverVars,
              Call, PveTypeOK
<1>3. ASSUME NEW c \in Callers, NEW k \in Ops, NEW g \in PublicKeys(k),
             Begin(c, k, g)
      PROVE  TypeOK'
  <2>1. g \in GuestKeys \cup {NoKey}
    BY DEF PublicKeys
  <2>2. entry' \in [Ops -> Entry]
    BY <1>3 DEF Begin, Entry, Statuses
  <2>3. call' \in [Callers -> Call]
    BY <1>3, <2>1 DEF Begin, Call
  <2>4. begun' \in 0..MaxBegun
    BY <1>3, BoundsAssumption DEF Begin
  <2>5. QED
    BY <1>3, <2>2, <2>3, <2>4, HistoryTyped DEF Begin, serverVars, PveTypeOK
<1>4. ASSUME NEW c \in Callers, Arrive(c)
      PROVE  TypeOK'
  <2> DEFINE k == call[c].op
  <2>1. k \in Ops /\ Target[k[1]] \in Vms
    BY <1>4, CallFields, OpParts DEF Arrive
  <2>2. /\ vm' \in [Vms -> Vm]
        /\ \E t \in Task : task' = Append(task, t)
    BY <1>4, <2>1, CallFields, ExecuteAppends DEF Arrive
  <2>3. task' \in Seq(Task) /\ Len(task') \in Nat
    BY <2>2 DEF PveTypeOK
  <2>4. call' \in [Callers -> Call]
    BY <1>4, <2>3, CallAdvances DEF Arrive
  <2>5. QED
    BY <1>4, <2>2, <2>3, <2>4 DEF Arrive, serverVars, PveTypeOK
<1>5. ASSUME NEW c \in Callers, IssueThrows(c) \/ PollThrows(c)
      PROVE  TypeOK'
  <2>1. call[c].op \in Ops
    BY <1>5, CallFields DEF IssueThrows, PollThrows
  <2>2. call' \in [Callers -> Call] /\ entry' \in [Ops -> Entry]
    BY <1>5, <2>1, ReturnSetStatus DEF IssueThrows, PollThrows, Statuses
  <2>3. QED
    BY <1>5, <2>2, HistoryTyped DEF IssueThrows, PollThrows, serverVars, PveTypeOK
<1>6. ASSUME NEW c \in Callers, RecordUpid(c)
      PROVE  TypeOK'
  <2>1. call' \in [Callers -> Call]
    BY <1>6, CallFields, CallAdvances DEF RecordUpid
  <2>2. entry' \in [Ops -> Entry]
    BY <1>6, CallFields DEF RecordUpid, Entry, Statuses
  <2>3. QED
    BY <1>6, <2>1, <2>2 DEF RecordUpid, serverVars, PveTypeOK
<1>7. ASSUME NEW c \in Callers, PollEnds(c)
      PROVE  TypeOK'
  <2>1. call[c].op \in Ops
    BY <1>7, CallFields DEF PollEnds
  <2>2. call' \in [Callers -> Call] /\ entry' \in [Ops -> Entry]
    BY <1>7, <2>1, ReturnSetStatus DEF PollEnds, Statuses
  <2>3. QED
    BY <1>7, <2>2, HistoryTyped DEF PollEnds, serverVars, PveTypeOK
<1>8. CASE Restart \/ Listen
  BY <1>8 DEF Restart, Listen, serverVars, PveTypeOK
<1>9. ASSUME NEW k \in Ops, Inspect(k)
      PROVE  TypeOK'
  <2>1. PICK e \in BOOLEAN : seen' = {[op |-> k, exists |-> e]}
    BY <1>9 DEF Inspect, Exists
  <2>2. seen' \subseteq Seen
    BY <2>1 DEF Seen
  <2>3. QED
    BY <1>9, <2>2, HistoryTyped DEF Inspect, PveTypeOK
<1>10. ASSUME NEW k \in Ops, Conclude(k)
       PROVE  TypeOK'
  <2>1. entry' \in [Ops -> Entry]
    BY <1>10 DEF Conclude, SetStatus, Verdict, Entry, Statuses
  <2>2. QED
    BY <1>10, <2>1 DEF Conclude, PveTypeOK
<1>11. CASE NodeStep
  BY <1>11, NodeStepKeeps DEF jrnVars
<1>12. CASE Crash
  BY <1>12, BoundsAssumption, HistoryTyped DEF Crash, Call, PveTypeOK
<1>13. QED
  BY <1>1, <1>2, <1>3, <1>4, <1>5, <1>6, <1>7, <1>8, <1>9, <1>10, <1>11, <1>12
  DEF Next, CallStep, ServerStep

(* Rows, calls, VMs and tasks only ever hold values of their types.        *)
THEOREM TypeCorrect == Spec => []TypeOK
BY TypeInit, TypeStep, PTL DEF Spec

-----------------------------------------------------------------------------
(* The task log only grows, and a caller's task and a row's task are tasks *)
(* of their own operation.                                                 *)

LogGrows == \A k \in Ops : \A u \in Issued(k) :
              u \in Issued(k)' /\ task'[u].outcome = task[u].outcome

(* What Arrive does to the log and the VMs.                                *)
LEMMA ArriveAppends ==
  ASSUME TypeOK, NEW c \in Callers, Arrive(c), NEW k, k = call[c].op
  PROVE  /\ k \in Ops
         /\ LogGrows
         /\ Len(task') \in Issued(k)'
         /\ \A w \in Vms : vm'[w].status # "absent" =>
              Exists(w) \/ (w = Target[k[1]] /\ k[2] = "clone")
<1>1. k \in Ops /\ Target[k[1]] \in Vms
  BY CallFields, OpParts DEF Arrive
<1>2. /\ task \in Seq(Task)
      /\ \A w \in Vms : vm'[w].status # "absent" =>
           Exists(w) \/ (w = Target[k[1]] /\ k[2] = "clone")
  BY <1>1, CallFields, ExecuteAppends DEF Arrive, TypeOK, PveTypeOK
<1>3. PICK t \in Task : task' = Append(task, t) /\ t.op = k
  BY <1>1, CallFields, ExecuteAppends DEF Arrive, TypeOK
<1>4. /\ Len(task') \in DOMAIN task'
      /\ task'[Len(task')].op = k
      /\ \A u \in DOMAIN task : u \in DOMAIN task' /\ task'[u] = task[u]
  BY <1>2, <1>3, AppendKeeps
<1>5. LogGrows
  BY <1>4 DEF LogGrows, Issued
<1>6. Len(task') \in Issued(k)'
  BY <1>4 DEF Issued
<1>7. QED
  BY <1>1, <1>2, <1>5, <1>6

LEMMA StepGrowsLog == TypeOK /\ [Next]_vars => LogGrows
<1> SUFFICES ASSUME TypeOK, [Next]_vars PROVE LogGrows
  OBVIOUS
<1>1. CASE UNCHANGED task
  BY <1>1 DEF LogGrows, Issued
<1>2. CASE NodeStep
  BY <1>2, NodeStepKeeps DEF LogGrows, Issued
<1>3. ASSUME NEW c \in Callers, Arrive(c)
      PROVE  LogGrows
  BY <1>3, ArriveAppends
<1>4. QED
  BY <1>1, <1>2, <1>3
  DEF Next, SkipSucceeded, SkipNeedsAttention, Begin, CallStep, IssueThrows,
      RecordUpid, PollEnds, PollThrows, ServerStep, Restart, Inspect, Conclude,
      Listen, Crash, vars

(* A request changes no VM but the one it is about.                        *)
LEMMA ExecuteKeeps ==
  ASSUME PveTypeOK, NEW k \in Ops, NEW v \in Vms, NEW g, Execute(k, v, g), NEW w \in Vms, w # v
  PROVE  vm'[w] = vm[w]
  BY DEF PveTypeOK, Execute, CloneTemplate, ConfigureVm, StartVm, DeleteVm, Missing

(* A VM nobody has an operation under way for stays as it is.              *)
LEMMA VmStays ==
  ASSUME TypeOK, DistinctTargets, [Next]_vars, NEW d \in Deps,
         \A c \in Callers : \A a \in Actions : call[c].op # <<d, a>>
  PROVE  vm'[Target[d]] = vm[Target[d]]
<1>1. CASE UNCHANGED vm
  BY <1>1
<1>2. ASSUME NEW c \in Callers, Arrive(c) PROVE vm'[Target[d]] = vm[Target[d]]
  <2>1. PICK k \in Ops : k = call[c].op
    BY <1>2, CallFields DEF Arrive
  <2>2. k[1] # d
    BY <2>1, OpParts
  <2>3. Target[k[1]] \in Vms /\ Target[d] \in Vms /\ Target[d] # Target[k[1]]
    BY <2>2, OpParts, TargetAssumption DEF DistinctTargets
  <2>4. QED
    BY <1>2, <2>1, <2>3, ExecuteKeeps DEF Arrive, TypeOK
<1>3. QED
  BY <1>1, <1>2, NodeStepKeeps
  DEF Next, SkipSucceeded, SkipNeedsAttention, Begin, CallStep, IssueThrows, RecordUpid,
      PollEnds, PollThrows, ServerStep, Restart, Inspect, Conclude, Listen, Crash, vars

-----------------------------------------------------------------------------
(* The inductive invariant: RecordedTaskIsOwn, SucceededIsTrue and         *)
(* UnresolvedIsOwned, with what makes each of them inductive.              *)

CallsOwn ==
  \A c \in Callers, k \in Ops : call[c].op = k =>
    /\ call[c].pc \in {"sent", "polling"} => call[c].upid \in Issued(k)
    /\ call[c].pc = "polling" => entry[k].status \notin {"none", "pending"}

Cloned(d) == Issued(<<d, "clone">>) # {}

ClonesAreTrue ==
  DistinctTargets =>
    /\ \A d \in Deps : Exists(Target[d]) => Cloned(d)
    /\ \A s \in seen : s.exists => Cloned(s.op[1])

ReconcileOwns ==
  /\ mode # "serving" => \A c \in Callers : call[c].pc = "idle"
  /\ mode = "reconciling" => todo = {k \in Ops : entry[k].status \in Unresolved}
  /\ mode # "reconciling" => todo = {} /\ seen = {}
  /\ \A s \in seen : s.op \in todo

LookupsNoted ==
  \A s \in seen : ~s.exists => Had(s.op, "gone") \/ Had(s.op, "unanswered")

IInv == /\ TypeOK
        /\ RecordedTaskIsOwn /\ CallsOwn
        /\ ReconcileOwns /\ UnresolvedIsOwned
        /\ ClonesAreTrue /\ LookupsNoted /\ SucceededIsTrue

LEMMA IInvInit == Init => IInv
<1> SUFFICES ASSUME Init PROVE IInv
  OBVIOUS
<1>1. TypeOK
  BY TypeInit
<1>2. \A k \in Ops : entry[k] = [status |-> "none", upid |-> 0]
  BY DEF Init
<1>3. \A c \in Callers : call[c].pc = "idle"
  BY DEF Init, Returned
<1>4. \A d \in Deps : ~Exists(Target[d])
  BY TargetAssumption DEF Init, PveInit, NoVm, Exists
<1>5. mode = "down" /\ todo = {} /\ seen = {}
  BY DEF Init
<1>6. QED
  BY <1>1, <1>2, <1>3, <1>4, <1>5
  DEF IInv, RecordedTaskIsOwn, CallsOwn, ReconcileOwns, UnresolvedIsOwned,
      ClonesAreTrue, LookupsNoted, SucceededIsTrue

(* Rows and calls name tasks of their own.                                 *)
LEMMA RecordedStep ==
  TypeOK /\ RecordedTaskIsOwn /\ CallsOwn /\ ReconcileOwns /\ [Next]_vars
    => RecordedTaskIsOwn' /\ CallsOwn'
<1> SUFFICES ASSUME TypeOK, RecordedTaskIsOwn, CallsOwn, ReconcileOwns,
                    [Next]_vars
             PROVE  RecordedTaskIsOwn' /\ CallsOwn'
  OBVIOUS
<1>1. LogGrows
  BY StepGrowsLog
<1> USE DEF RecordedTaskIsOwn, CallsOwn
<1>2. CASE UNCHANGED <<entry, call>>
  BY <1>1, <1>2, CallFields DEF LogGrows
<1>3. ASSUME NEW c \in Callers, NEW k \in Ops,
             SkipSucceeded(c, k) \/ SkipNeedsAttention(c, k)
      PROVE  RecordedTaskIsOwn' /\ CallsOwn'
  BY <1>1, <1>3, CallFields
  DEF SkipSucceeded, SkipNeedsAttention, Return, Returned, LogGrows, TypeOK, JrnTypeOK
<1>4. ASSUME NEW c \in Callers, NEW k \in Ops, NEW g \in PublicKeys(k),
             Begin(c, k, g)
      PROVE  RecordedTaskIsOwn' /\ CallsOwn'
  BY <1>1, <1>4, CallFields DEF Begin, LogGrows, TypeOK, JrnTypeOK, Entry
<1>5. ASSUME NEW c \in Callers, Arrive(c)
      PROVE  RecordedTaskIsOwn' /\ CallsOwn'
  <2>1. PICK k \in Ops : k = call[c].op
    BY <1>5, CallFields DEF Arrive
  <2>2. Len(task') \in Issued(k)'
    BY <1>5, <2>1, ArriveAppends
  <2>3. /\ call'[c].op = k /\ call'[c].upid = Len(task') /\ call'[c].pc = "sent"
        /\ \A b \in Callers \ {c} : call'[b] = call[b]
        /\ UNCHANGED entry
    BY <1>5, <2>1 DEF Arrive, TypeOK, JrnTypeOK, Call, Returned
  <2>4. QED
    BY <1>1, <2>2, <2>3 DEF LogGrows
<1>6. ASSUME NEW c \in Callers, IssueThrows(c) \/ PollThrows(c) \/ PollEnds(c)
      PROVE  RecordedTaskIsOwn' /\ CallsOwn'
  <2>1. PICK k \in Ops : k = call[c].op
    BY <1>6, CallFields DEF IssueThrows, PollThrows, PollEnds
  <2>2. /\ call'[c].pc = "idle" /\ call'[c].op = NoOp
        /\ \A b \in Callers \ {c} : call'[b] = call[b]
    BY <1>6 DEF IssueThrows, PollThrows, PollEnds, Return, Returned, TypeOK, JrnTypeOK
  <2>3. \/ UNCHANGED entry
        \/ \E s \in {"succeeded", "failed"} : SetStatus(k, s)
    BY <1>6, <2>1 DEF IssueThrows, PollThrows, PollEnds
  <2>4. \A j \in Ops : /\ entry'[j].upid = entry[j].upid
                       /\ \/ entry'[j].status = entry[j].status
                          \/ entry'[j].status \in {"succeeded", "failed"}
    BY <2>3 DEF SetStatus, TypeOK, JrnTypeOK, Entry
  <2>5. QED
    BY <1>1, <2>2, <2>4 DEF LogGrows
<1>7. ASSUME NEW c \in Callers, RecordUpid(c)
      PROVE  RecordedTaskIsOwn' /\ CallsOwn'
  <2>1. PICK k \in Ops : k = call[c].op
    BY <1>7, CallFields DEF RecordUpid
  <2>2. call[c].upid \in Issued(k) /\ call[c].upid \in Nat \ {0}
    BY <1>7, <2>1, CallFields DEF RecordUpid, Issued, TypeOK, PveTypeOK
  <2>3. /\ call'[c].op = k /\ call'[c].upid = call[c].upid
        /\ \A b \in Callers \ {c} : call'[b] = call[b]
    BY <1>7, <2>1 DEF RecordUpid, TypeOK, JrnTypeOK, Call, Returned
  <2>4. /\ entry'[k] = [status |-> "in_flight", upid |-> call[c].upid]
        /\ \A j \in Ops \ {k} : entry'[j] = entry[j]
    BY <1>7, <2>1 DEF RecordUpid, TypeOK, JrnTypeOK
  <2>5. QED
    BY <1>1, <2>2, <2>3, <2>4 DEF LogGrows
<1>8. ASSUME NEW k \in Ops, Conclude(k)
      PROVE  RecordedTaskIsOwn' /\ CallsOwn'
  <2>1. /\ \A c \in Callers : call[c].pc = "idle"
        /\ UNCHANGED call
    BY <1>8 DEF Conclude, ReconcileOwns
  <2>2. PICK s \in {"succeeded", "failed", "needs_attention"} : SetStatus(k, s)
    BY <1>8 DEF Conclude, Verdict
  <2>3. QED
    BY <1>1, <2>1, <2>2 DEF SetStatus, LogGrows, TypeOK, JrnTypeOK, Entry
<1>9. CASE Crash
  BY <1>1, <1>9 DEF Crash, Returned, LogGrows
<1>10. QED
  BY <1>2, <1>3, <1>4, <1>5, <1>6, <1>7, <1>8, <1>9
  DEF Next, CallStep, ServerStep, Restart, Inspect, Listen, NodeStep, jrnVars, vars

(* What reconcile has to visit, and who owns an unresolved row.            *)
LEMMA OwnedStep ==
  TypeOK /\ CallsOwn /\ ReconcileOwns /\ UnresolvedIsOwned /\ [Next]_vars
    => ReconcileOwns' /\ UnresolvedIsOwned'
<1> SUFFICES ASSUME TypeOK, CallsOwn, ReconcileOwns, UnresolvedIsOwned, [Next]_vars
             PROVE  ReconcileOwns' /\ UnresolvedIsOwned'
  OBVIOUS
<1> USE DEF ReconcileOwns, UnresolvedIsOwned, Busy
<1>1. CASE UNCHANGED <<entry, call, mode, todo, seen, left>>
  BY <1>1
<1>2. ASSUME NEW c \in Callers, NEW k \in Ops,
             SkipSucceeded(c, k) \/ SkipNeedsAttention(c, k)
      PROVE  ReconcileOwns' /\ UnresolvedIsOwned'
  <2>1. /\ call[c].op = NoOp /\ mode = "serving"
        /\ \A b \in Callers \ {c} : call'[b] = call[b]
        /\ UNCHANGED <<entry, serverVars, left>>
    BY <1>2, CallFields
    DEF SkipSucceeded, SkipNeedsAttention, Idle, Return, TypeOK, JrnTypeOK
  <2>2. \A j \in Ops : j # NoOp
    BY OpParts
  <2>3. QED
    BY <2>1, <2>2 DEF serverVars
<1>3. ASSUME NEW c \in Callers, NEW k \in Ops, NEW g \in PublicKeys(k),
             Begin(c, k, g)
      PROVE  ReconcileOwns' /\ UnresolvedIsOwned'
  <2>1. /\ call[c].op = NoOp /\ mode = "serving" /\ call'[c].op = k
        /\ \A b \in Callers \ {c} : call'[b] = call[b]
        /\ \A j \in Ops \ {k} : entry'[j] = entry[j]
        /\ left' = left \ {k}
        /\ UNCHANGED serverVars
    BY <1>3, CallFields DEF Begin, Idle, TypeOK, JrnTypeOK
  <2>2. \A j \in Ops : j # NoOp
    BY OpParts
  <2>3. QED
    BY <2>1, <2>2 DEF serverVars
<1>4. ASSUME NEW c \in Callers, Arrive(c) \/ RecordUpid(c)
      PROVE  ReconcileOwns' /\ UnresolvedIsOwned'
  <2>1. PICK k \in Ops : k = call[c].op /\ call[c].pc # "idle"
    BY <1>4, CallFields DEF Arrive, RecordUpid
  <2>2. /\ mode = "serving"
        /\ call'[c].op = k
        /\ \A b \in Callers \ {c} : call'[b] = call[b]
        /\ \A j \in Ops \ {k} : entry'[j] = entry[j]
        /\ UNCHANGED <<serverVars, left>>
    BY <1>4, <2>1 DEF Arrive, RecordUpid, TypeOK, JrnTypeOK, Call, Returned
  <2>3. QED
    BY <2>1, <2>2 DEF serverVars
<1>5. ASSUME NEW c \in Callers, IssueThrows(c) \/ PollEnds(c) \/ PollThrows(c)
      PROVE  ReconcileOwns' /\ UnresolvedIsOwned'
  <2>1. PICK k \in Ops : k = call[c].op /\ call[c].pc # "idle"
    BY <1>5, CallFields DEF IssueThrows, PollEnds, PollThrows
  <2>2. /\ mode = "serving"
        /\ \A b \in Callers \ {c} : call'[b] = call[b]
        /\ \A j \in Ops \ {k} : entry'[j] = entry[j]
        /\ left \subseteq left'
        /\ UNCHANGED serverVars
    BY <1>5, <2>1
    DEF IssueThrows, PollEnds, PollThrows, SetStatus, Return, TypeOK, JrnTypeOK
  <2>3. \/ entry'[k].status \in {"succeeded", "failed"}
        \/ k \in left' /\ entry'[k].status \notin {"none", "pending"}
    BY <1>5, <2>1
    DEF IssueThrows, PollEnds, PollThrows, SetStatus, CallsOwn, TypeOK, JrnTypeOK, Entry
  <2>4. QED
    BY <2>1, <2>2, <2>3 DEF serverVars, Unresolved
<1>6. CASE Restart
  BY <1>6 DEF Restart
<1>7. CASE Listen
  BY <1>7 DEF Listen, serverVars
<1>8. ASSUME NEW k \in Ops, Inspect(k)
      PROVE  ReconcileOwns' /\ UnresolvedIsOwned'
  BY <1>8 DEF Inspect
<1>9. ASSUME NEW k \in Ops, Conclude(k)
      PROVE  ReconcileOwns' /\ UnresolvedIsOwned'
  <2>1. PICK s \in {"succeeded", "failed", "needs_attention"} : SetStatus(k, s)
    BY <1>9 DEF Conclude, Verdict
  <2>2. /\ entry'[k].status \notin Unresolved
        /\ \A j \in Ops \ {k} : entry'[j] = entry[j]
    BY <2>1 DEF SetStatus, Unresolved, TypeOK, JrnTypeOK, Entry
  <2>3. QED
    BY <1>9, <2>2 DEF Conclude
<1>10. CASE Crash
  BY <1>10 DEF Crash, Returned
<1>11. QED
  BY <1>1, <1>2, <1>3, <1>4, <1>5, <1>6, <1>7, <1>8, <1>9, <1>10
  DEF Next, CallStep, ServerStep, NodeStep, jrnVars, vars

(* What has happened to an operation is not forgotten.                     *)
LEMMA PastGrows ==
  ASSUME [Next]_vars
  PROVE  past \subseteq past'
BY DEF Next, SkipSucceeded, SkipNeedsAttention, Begin, Note, CallStep, Arrive, IssueThrows,
       RecordUpid, PollEnds, PollThrows, ServerStep, Restart, Inspect, Conclude, Listen,
       NodeStep, jrnVars, Crash, vars

(* A lookup that does not find the VM is noted.                            *)
LEMMA LookupsStep == LookupsNoted /\ [Next]_vars => LookupsNoted'
<1> SUFFICES ASSUME LookupsNoted, [Next]_vars PROVE LookupsNoted'
  OBVIOUS
<1>1. past \subseteq past'
  BY PastGrows
<1>2. CASE seen' \subseteq seen
  BY <1>1, <1>2 DEF LookupsNoted, Had
<1>3. ASSUME NEW k \in Ops, Inspect(k)
      PROVE  LookupsNoted'
  <2>1. PICK e \in BOOLEAN :
          /\ seen' = {[op |-> k, exists |-> e]}
          /\ CASE e                   -> UNCHANGED past
               [] ~Exists(Target[k[1]]) -> Note(k, "gone")
               [] OTHER                 -> Note(k, "unanswered")
    BY <1>3 DEF Inspect, Exists
  <2>2. ~e => <<k, "gone">> \in past' \/ <<k, "unanswered">> \in past'
    BY <2>1 DEF Note
  <2>3. QED
    BY <2>1, <2>2 DEF LookupsNoted, Had
<1>4. QED
  BY <1>2, <1>3
  DEF Next, SkipSucceeded, SkipNeedsAttention, Begin, CallStep, Arrive, IssueThrows,
      RecordUpid, PollEnds, PollThrows, ServerStep, Restart, Conclude, Listen, NodeStep,
      jrnVars, serverVars, Crash, vars

(* What the journal claims and what the node did.                          *)
LEMMA TruthStep ==
  /\ TypeOK /\ RecordedTaskIsOwn /\ CallsOwn /\ ReconcileOwns
  /\ ClonesAreTrue /\ LookupsNoted /\ SucceededIsTrue /\ [Next]_vars
  => ClonesAreTrue' /\ SucceededIsTrue'
<1> SUFFICES ASSUME TypeOK, RecordedTaskIsOwn, CallsOwn, ReconcileOwns,
                    ClonesAreTrue, LookupsNoted, SucceededIsTrue, [Next]_vars,
                    DistinctTargets
             PROVE  ClonesAreTrue' /\ SucceededIsTrue'
  BY DEF ClonesAreTrue, SucceededIsTrue, DistinctTargets
<1> DEFINE Claimed(k) == \/ k[2] = "clone" /\ Issued(k) # {}
                         \/ \E u \in Issued(k) : task[u].outcome = "ok"
                         \/ k[2] = "delete" /\ (Had(k, "gone") \/ Had(k, "unanswered"))
<1>1. LogGrows /\ past \subseteq past'
  BY StepGrowsLog, PastGrows
<1>2. \A k \in Ops : Claimed(k) => Claimed(k)'
  BY <1>1 DEF LogGrows, Had
<1>3. \A d \in Deps : Cloned(d) => Cloned(d)'
  <2>1. \A d \in Deps : <<d, "clone">> \in Ops
    BY DEF Ops, Actions
  <2>2. QED
    BY <1>1, <2>1 DEF LogGrows, Cloned
<1>4. \A k \in Ops : \A u \in Issued(k) : PollTask(u) = "ok" => Claimed(k)
  <2> SUFFICES ASSUME NEW k \in Ops, NEW u \in Issued(k), PollTask(u) = "ok"
               PROVE  Claimed(k)
    OBVIOUS
  <2>1. task[u] \in Task
    BY ElementOfSeq DEF Issued, TypeOK, PveTypeOK
  <2>2. task[u].outcome = "ok"
    BY <2>1 DEF PollTask, Task, Outcomes
  <2>3. QED
    BY <2>2
<1>5. \A k \in Ops : entry'[k].status = "succeeded" =>
        entry[k].status = "succeeded" \/ Claimed(k)
  <2>1. CASE UNCHANGED entry
    BY <2>1
  <2>2. ASSUME NEW c \in Callers, NEW k \in Ops, NEW g \in PublicKeys(k),
               Begin(c, k, g), NEW j \in Ops
        PROVE  entry'[j].status = "succeeded" => entry[j].status = "succeeded"
    BY <2>2 DEF Begin, TypeOK, JrnTypeOK, Entry
  <2>3. ASSUME NEW c \in Callers, IssueThrows(c) \/ RecordUpid(c), NEW j \in Ops
        PROVE  entry'[j].status = "succeeded" => entry[j].status = "succeeded"
    <3>1. call[c].op \in Ops
      BY <2>3, CallFields DEF IssueThrows, RecordUpid
    <3>2. QED
      BY <2>3, <3>1 DEF IssueThrows, RecordUpid, SetStatus, TypeOK, JrnTypeOK, Entry
  <2>4. ASSUME NEW c \in Callers, PollEnds(c), NEW j \in Ops
        PROVE  entry'[j].status = "succeeded" =>
                 entry[j].status = "succeeded" \/ Claimed(j)
    <3>1. PICK k \in Ops : k = call[c].op
      BY <2>4, CallFields DEF PollEnds
    <3>2. call[c].upid \in Issued(k)
      BY <2>4, <3>1 DEF PollEnds, CallsOwn
    <3>3. CASE PollTask(call[c].upid) = "ok"
      BY <1>4, <2>4, <3>1, <3>2, <3>3
      DEF PollEnds, SetStatus, TypeOK, JrnTypeOK, Entry
    <3>4. CASE SetStatus(k, "failed")
      BY <3>4 DEF SetStatus, TypeOK, JrnTypeOK, Entry
    <3>5. QED
      BY <2>4, <3>1, <3>3, <3>4 DEF PollEnds
  <2>5. ASSUME NEW k \in Ops, Conclude(k), NEW j \in Ops
        PROVE  entry'[j].status = "succeeded" =>
                 entry[j].status = "succeeded" \/ Claimed(j)
    <3>1. PICK s \in seen, p \in PollAnswers(entry[k].upid) :
            s.op = k /\ SetStatus(k, Verdict(ByTarget(k[2], s.exists), p))
      BY <2>5 DEF Conclude
    <3>2. CASE j # k
      BY <3>1, <3>2 DEF SetStatus, TypeOK, JrnTypeOK, Entry
    <3>3. CASE j = k /\ p = "ok"
      <4>1. entry[k].upid \in Issued(k) /\ PollTask(entry[k].upid) = "ok"
        BY <3>1, <3>3 DEF PollAnswers, RecordedTaskIsOwn
      <4>2. QED
        BY <1>4, <3>3, <4>1
    <3>4. CASE j = k /\ ByTarget(k[2], s.exists) = "succeeded"
      <4>1. \/ k[2] = "delete" /\ ~s.exists
            \/ k[2] = "clone" /\ s.exists
        BY <3>4, OpParts DEF ByTarget, Actions
      <4>2. k[2] = "clone" => Issued(k) # {}
        BY <3>1, <4>1, OpParts DEF ClonesAreTrue, Cloned
      <4>3. k[2] = "delete" => Had(k, "gone") \/ Had(k, "unanswered")
        BY <3>1, <4>1 DEF LookupsNoted
      <4>4. QED
        BY <3>4, <4>1, <4>2, <4>3
    <3>5. CASE j = k /\ p # "ok" /\ ByTarget(k[2], s.exists) # "succeeded"
      BY <3>1, <3>5 DEF Verdict, SetStatus, TypeOK, JrnTypeOK, Entry
    <3>6. QED
      BY <3>2, <3>3, <3>4, <3>5
  <2>6. QED
    BY <2>1, <2>2, <2>3, <2>4, <2>5
    DEF Next, SkipSucceeded, SkipNeedsAttention, CallStep, Arrive, PollThrows,
        ServerStep, Restart, Inspect, Listen, NodeStep, jrnVars, Crash, vars
<1>6. SucceededIsTrue'
  BY <1>2, <1>5 DEF SucceededIsTrue
<1>7. ASSUME NEW d \in Deps, vm'[Target[d]].status # "absent"
      PROVE  Cloned(d)'
  <2>1. CASE Exists(Target[d])
    BY <1>3, <2>1 DEF ClonesAreTrue
  <2>2. ASSUME NEW c \in Callers, Arrive(c), ~Exists(Target[d])
        PROVE  Cloned(d)'
    <3>1. PICK k \in Ops : k = call[c].op
      BY <2>2, CallFields DEF Arrive
    <3>2. /\ Len(task') \in Issued(k)'
          /\ Target[d] = Target[k[1]] /\ k[2] = "clone"
      BY <1>7, <2>2, <3>1, ArriveAppends, TargetAssumption
    <3>3. k = <<d, "clone">>
      BY <3>2, OpParts DEF DistinctTargets
    <3>4. QED
      BY <3>2, <3>3 DEF Cloned
  <2>3. CASE UNCHANGED vm
    BY <1>7, <2>1, <2>3 DEF Exists
  <2>4. QED
    BY <2>1, <2>2, <2>3, NodeStepKeeps
    DEF Next, SkipSucceeded, SkipNeedsAttention, Begin, CallStep, IssueThrows,
        RecordUpid, PollEnds, PollThrows, ServerStep, Restart, Inspect, Conclude,
        Listen, Crash, vars
<1>8. ASSUME NEW s \in seen', s.exists
      PROVE  Cloned(s.op[1])'
  <2>1. CASE s \in seen
    <3>1. s.op[1] \in Deps
      BY <2>1, OpParts DEF TypeOK, JrnTypeOK, Seen
    <3>2. QED
      BY <1>3, <1>8, <2>1, <3>1 DEF ClonesAreTrue
  <2>2. ASSUME NEW k \in Ops, Inspect(k)
        PROVE  Cloned(s.op[1])'
    <3>1. PICK e \in {Exists(Target[k[1]]), FALSE} : s = [op |-> k, exists |-> e]
      BY <2>2 DEF Inspect
    <3>2. s.op = k /\ e
      BY <1>8, <3>1
    <3>3. Exists(Target[k[1]])
      BY <3>1, <3>2, Zenon
    <3>4. QED
      BY <1>3, <3>2, <3>3, OpParts DEF ClonesAreTrue
  <2>3. QED
    BY <1>8, <2>1, <2>2, NodeStepKeeps
    DEF Next, SkipSucceeded, SkipNeedsAttention, Begin, CallStep, Arrive, IssueThrows,
        RecordUpid, PollEnds, PollThrows, ServerStep, Restart, Conclude, Listen,
        Crash, jrnVars, serverVars, vars
<1>9. ClonesAreTrue'
  BY <1>7, <1>8 DEF ClonesAreTrue, Exists
<1>10. QED
  BY <1>6, <1>9

LEMMA IInvStep == IInv /\ [Next]_vars => IInv'
BY TypeStep, RecordedStep, OwnedStep, LookupsStep, TruthStep DEF IInv

LEMMA Invariance == Spec => []IInv
BY IInvInit, IInvStep, PTL DEF Spec

-----------------------------------------------------------------------------
(* A task id in the journal is that of a task of the very operation,       *)
(* however many callers run the operation at once and wherever the server  *)
(* crashes: reconcile never polls somebody else's task.                    *)
THEOREM RecordedTaskCorrect == Spec => []RecordedTaskIsOwn
BY Invariance, PTL DEF IInv

(* The journal never claims what did not happen, if every deployment has a *)
(* VM id of its own: a clone was executed, a configure or a start ended    *)
(* well, and so did a deletion, unless a restart did not find its VM,      *)
(* because it was gone or because the node did not answer.                 *)
THEOREM SucceededCorrect == Spec => []SucceededIsTrue
BY Invariance, PTL DEF IInv

(* Once the server serves again, every unresolved row is being worked on,  *)
(* but for one whose poll threw since the server came up.                  *)
THEOREM UnresolvedCorrect == Spec => []UnresolvedIsOwned
BY Invariance, PTL DEF IInv
-----------------------------------------------------------------------------
(* What a step may do to one operation: the action properties.             *)

(* Only Begin makes somebody work on an operation.                         *)
LEMMA BusyBegins ==
  ASSUME IInv, [Next]_vars, NEW k \in Ops, ~Busy(k), Busy(k)'
  PROVE  \E c \in Callers : \E g \in PublicKeys(k) : Begin(c, k, g)
<1> USE DEF IInv, Busy
<1>1. CASE UNCHANGED call
  BY <1>1
<1>2. ASSUME NEW c \in Callers, NEW j \in Ops,
             SkipSucceeded(c, j) \/ SkipNeedsAttention(c, j)
      PROVE  FALSE
  BY <1>2, OpParts
  DEF SkipSucceeded, SkipNeedsAttention, Return, Returned, TypeOK, JrnTypeOK
<1>3. ASSUME NEW c \in Callers, NEW j \in Ops, NEW g \in PublicKeys(j),
             Begin(c, j, g)
      PROVE  j = k
  BY <1>3 DEF Begin, TypeOK, JrnTypeOK
<1>4. ASSUME NEW c \in Callers, CallStep(c)
      PROVE  FALSE
  <2>1. /\ call'[c].op \in {call[c].op, NoOp}
        /\ \A b \in Callers \ {c} : call'[b] = call[b]
    BY <1>4
    DEF CallStep, Arrive, IssueThrows, RecordUpid, PollEnds, PollThrows, Return,
        Returned, TypeOK, JrnTypeOK, Call
  <2>2. QED
    BY <2>1, OpParts
<1>5. CASE Crash
  BY <1>5, OpParts DEF Crash, Returned
<1>6. QED
  BY <1>1, <1>2, <1>3, <1>4, <1>5
  DEF Next, ServerStep, Restart, Inspect, Conclude, Listen, NodeStep, jrnVars, vars

(* A row that is not unresolved and that nobody works on stays as it is.   *)
LEMMA IdleStays ==
  ASSUME IInv, [Next]_vars, NEW k \in Ops,
         entry[k].status \notin Unresolved, ~Busy(k), ~Busy(k)'
  PROVE  entry'[k] = entry[k] /\ Issued(k)' = Issued(k)
<1> USE DEF IInv, Busy
<1>1. CASE UNCHANGED <<entry, call, task>>
  BY <1>1 DEF Issued
<1>2. ASSUME NEW c \in Callers, NEW j \in Ops,
             SkipSucceeded(c, j) \/ SkipNeedsAttention(c, j)
      PROVE  entry'[k] = entry[k] /\ Issued(k)' = Issued(k)
  BY <1>2, OpParts
  DEF SkipSucceeded, SkipNeedsAttention, Return, Returned, Issued, TypeOK, JrnTypeOK
<1>3. ASSUME NEW c \in Callers, NEW j \in Ops, NEW g \in PublicKeys(j),
             Begin(c, j, g)
      PROVE  entry'[k] = entry[k] /\ Issued(k)' = Issued(k)
  BY <1>3 DEF Begin, Issued, TypeOK, JrnTypeOK
<1>4. ASSUME NEW c \in Callers, Arrive(c)
      PROVE  entry'[k] = entry[k] /\ Issued(k)' = Issued(k)
  <2>1. PICK j \in Ops : j = call[c].op /\ j # k
    BY <1>4, CallFields DEF Arrive
  <2>2. PICK t \in Task : task' = Append(task, t) /\ t.op = j
    BY <1>4, <2>1, CallFields, OpParts, ExecuteAppends DEF Arrive, TypeOK
  <2>3. Issued(k)' = Issued(k)
    BY <2>1, <2>2, AppendKeeps DEF Issued, TypeOK, PveTypeOK
  <2>4. QED
    BY <1>4, <2>3 DEF Arrive
<1>5. ASSUME NEW c \in Callers,
             IssueThrows(c) \/ RecordUpid(c) \/ PollEnds(c) \/ PollThrows(c)
      PROVE  entry'[k] = entry[k] /\ Issued(k)' = Issued(k)
  <2>1. PICK j \in Ops : j = call[c].op /\ j # k
    BY <1>5, CallFields DEF IssueThrows, RecordUpid, PollEnds, PollThrows
  <2>2. entry'[k] = entry[k] /\ UNCHANGED task
    BY <1>5, <2>1
    DEF IssueThrows, RecordUpid, PollEnds, PollThrows, SetStatus, TypeOK, JrnTypeOK
  <2>3. QED
    BY <2>2 DEF Issued
<1>6. ASSUME NEW j \in Ops, Conclude(j)
      PROVE  entry'[k] = entry[k] /\ Issued(k)' = Issued(k)
  <2>1. j \in todo /\ entry[j].status \in Unresolved
    BY <1>6 DEF Conclude, ReconcileOwns
  <2>2. QED
    BY <1>6, <2>1 DEF Conclude, SetStatus, Unresolved, Issued, TypeOK, JrnTypeOK
<1>7. CASE NodeStep
  BY <1>7, NodeStepKeeps DEF Issued, jrnVars
<1>8. CASE Crash
  BY <1>8, OpParts DEF Crash, Returned, Issued
<1>9. QED
  BY <1>1, <1>2, <1>3, <1>4, <1>5, <1>6, <1>7, <1>8
  DEF Next, CallStep, ServerStep, Restart, Inspect, Listen, vars

LEMMA SettledStep ==
  IInv /\ [Next]_vars => \A k \in Ops : SettledStays(k)
<1> SUFFICES ASSUME IInv, [Next]_vars, NEW k \in Ops,
                    entry[k].status \in Settled, ~Busy(k)
             PROVE  entry'[k] = entry[k] /\ Issued(k)' = Issued(k) /\ ~Busy(k)'
  BY DEF SettledStays
<1>1. ~Busy(k)'
  BY BusyBegins DEF Begin, Settled
<1>2. QED
  BY <1>1, IdleStays DEF Settled, Unresolved

(* A row that settled is final: no later call, crash or restart touches it *)
(* or reaches the node for it again.                                       *)
THEOREM SettledCorrect == Spec => SettledIsFinal
<1>1. IInv /\ [Next]_vars => [\A k \in Ops : SettledStays(k)]_vars
  BY SettledStep
<1>2. QED
  BY <1>1, Invariance, PTL DEF Spec, SettledIsFinal

(* A row is never removed.                                                 *)
LEMMA RowStays ==
  ASSUME IInv, [Next]_vars, NEW k \in Ops, entry'[k].status = "none"
  PROVE  entry[k].status = "none"
<1> USE DEF IInv
<1>1. CASE UNCHANGED entry
  BY <1>1
<1>2. ASSUME NEW c \in Callers, NEW j \in Ops, NEW g \in PublicKeys(j),
             Begin(c, j, g)
      PROVE  entry[k].status = "none"
  BY <1>2 DEF Begin, TypeOK, JrnTypeOK, Entry
<1>3. ASSUME NEW c \in Callers, CallStep(c)
      PROVE  entry[k].status = "none"
  <2>1. \/ UNCHANGED entry
        \/ \E s \in {"succeeded", "failed"} : SetStatus(call[c].op, s)
        \/ entry' = [entry EXCEPT ![call[c].op] =
                       [status |-> "in_flight", upid |-> call[c].upid]]
    BY <1>3 DEF CallStep, Arrive, IssueThrows, RecordUpid, PollEnds, PollThrows
  <2>2. entry \in [Ops -> Entry]
    BY DEF TypeOK, JrnTypeOK
  <2>3. QED
    BY <2>1, <2>2 DEF SetStatus, Entry
<1>4. ASSUME NEW j \in Ops, Conclude(j)
      PROVE  entry[k].status = "none"
  BY <1>4 DEF Conclude, SetStatus, Verdict, TypeOK, JrnTypeOK, Entry
<1>5. QED
  BY <1>1, <1>2, <1>3, <1>4
  DEF Next, SkipSucceeded, SkipNeedsAttention, ServerStep, Restart, Inspect,
      Listen, NodeStep, jrnVars, Crash, vars

(* An operation that has no row was never begun.                           *)
NoRowNoTrace ==
  \A k \in Ops : entry[k].status = "none" => Issued(k) = {} /\ ~Busy(k)

LEMMA NoRowStep == IInv /\ NoRowNoTrace /\ [Next]_vars => NoRowNoTrace'
<1> SUFFICES ASSUME IInv, NoRowNoTrace, [Next]_vars, NEW k \in Ops,
                    entry'[k].status = "none"
             PROVE  Issued(k)' = {} /\ ~Busy(k)'
  BY DEF NoRowNoTrace
<1> USE DEF IInv
<1>1. entry[k].status = "none"
  BY RowStays
<1>2. Issued(k) = {} /\ ~Busy(k)
  BY <1>1 DEF NoRowNoTrace
<1>3. ~Busy(k)'
  <2>1. ASSUME NEW c \in Callers, NEW g \in PublicKeys(k), Begin(c, k, g)
        PROVE  FALSE
    BY <1>1, <2>1 DEF Begin, TypeOK, JrnTypeOK, Entry
  <2>2. QED
    BY <1>2, <2>1, BusyBegins
<1>4. QED
  BY <1>1, <1>2, <1>3, IdleStays DEF Unresolved

LEMMA NoRowInvariance == Spec => []NoRowNoTrace
<1>1. Init => NoRowNoTrace
  BY OpParts DEF Init, PveInit, Returned, NoRowNoTrace, Issued, Busy
<1>2. QED
  BY <1>1, NoRowStep, Invariance, PTL DEF Spec

(* An operation to which none of the events has happened, and what is then *)
(* known of it: one caller at a time works on it, its row says how far     *)
(* that caller is, and a task of it that ended well is one the caller will *)
(* hear of, one the reconciliation will poll, or one that is recorded.     *)
Untroubled(k) == \A e \in Events : ~Had(k, e)

KnownWhileBusy(k) ==
  /\ \A b, c \in Callers : call[b].op = k /\ call[c].op = k => b = c
  /\ \A c \in Callers : call[c].op = k =>
       /\ entry[k].status \notin Settled
       /\ call[c].pc \in {"issuing", "sent"} => entry[k].status # "in_flight"
       /\ call[c].pc = "polling" =>
            entry[k].status = "in_flight" /\ entry[k].upid = call[c].upid

TaskKnown(k, u) ==
  \/ entry[k].status \in Settled
  \/ \E c \in Callers : /\ call[c].op = k /\ call[c].pc \in {"sent", "polling"}
                         /\ call[c].upid = u
  \/ /\ mode # "serving"
     /\ entry[k].status \in Unresolved /\ entry[k].upid \in {0, u}

Known(k) ==
  /\ KnownWhileBusy(k)
  /\ \A u \in Issued(k) : task[u].outcome = "ok" => TaskKnown(k, u)

OutcomesKnown ==
  /\ \A k \in left : Had(k, "untold")
  /\ \A k \in Ops : entry[k].status \in {"none", "pending"} => entry[k].upid = 0
  /\ \A k \in Ops : Untroubled(k) => Known(k)

(* A step that leaves an operation, its row, its callers and its tasks as  *)
(* they are leaves known what was known.                                   *)
LEMMA KnownStays ==
  ASSUME TypeOK, NEW k \in Ops, Known(k), entry'[k] = entry[k], mode' = mode,
         \A c \in Callers : call[c].op = k \/ call'[c].op = k => call'[c] = call[c],
         Issued(k)' = Issued(k),
         \A u \in Issued(k) : task'[u].outcome = task[u].outcome
  PROVE  Known(k)'
<1>1. KnownWhileBusy(k)'
  BY DEF Known, KnownWhileBusy
<1>2. ASSUME NEW u \in Issued(k)', task'[u].outcome = "ok"
      PROVE  TaskKnown(k, u)'
  BY <1>2 DEF Known, TaskKnown
<1>3. QED
  BY <1>1, <1>2 DEF Known

(* A begun operation nobody else works on has no task that ended well.     *)
LEMMA NothingDoneAtBegin ==
  ASSUME IInv, OutcomesKnown, NEW c \in Callers, NEW k \in Ops, NEW g \in PublicKeys(k),
         Begin(c, k, g), ~Busy(k), Untroubled(k)
  PROVE  /\ entry[k].status \in {"none", "failed"}
         /\ \A u \in Issued(k) : task[u].outcome # "ok"
<1>1. mode = "serving" /\ entry[k].status \notin Settled /\ entry[k].status \in Statuses
  BY DEF Begin, Idle, Settled, IInv, TypeOK, JrnTypeOK, Entry
<1>2. k \notin left
  BY DEF OutcomesKnown, Untroubled, Events
<1>3. entry[k].status \in {"none", "failed"}
  BY <1>1, <1>2 DEF IInv, UnresolvedIsOwned, Unresolved, Settled, Statuses
<1>4. ASSUME NEW u \in Issued(k), task[u].outcome = "ok" PROVE FALSE
  <2>1. TaskKnown(k, u)
    BY <1>4 DEF OutcomesKnown, Known
  <2>2. QED
    BY <1>1, <2>1 DEF TaskKnown, Busy
<1>5. QED
  BY <1>3, <1>4

(* A step of the call that works on an operation.                          *)
LEMMA KnownCallStep ==
  ASSUME IInv, OutcomesKnown, NEW c \in Callers, CallStep(c), NEW k \in Ops,
         k = call[c].op, Known(k), Untroubled(k)'
  PROVE  Known(k)'
<1> USE DEF IInv
<1>1. /\ entry \in [Ops -> Entry] /\ call \in [Callers -> Call]
      /\ \A b \in Callers : b # c => call[b].op # k
      /\ entry[k].status \notin Settled
  BY DEF Known, KnownWhileBusy, TypeOK, JrnTypeOK
<1>2. \A u \in Issued(k) : task[u].outcome = "ok" /\ mode = "serving" =>
        call[c].pc \in {"sent", "polling"} /\ call[c].upid = u
  BY <1>1 DEF Known, TaskKnown
<1>3. mode = "serving"
  <2>1. call[c].pc # "idle"
    BY DEF CallStep, Arrive, IssueThrows, RecordUpid, PollEnds, PollThrows
  <2>2. QED
    BY <2>1 DEF ReconcileOwns
<1>4. CASE Arrive(c)
  <2>1. PICK t \in Task : task' = Append(task, t) /\ t.op = k
    BY <1>4, CallFields, OpParts, ExecuteAppends DEF Arrive, TypeOK
  <2>2. /\ call' = [call EXCEPT ![c].pc = "sent", ![c].upid = Len(task')]
        /\ entry' = entry /\ call[c].pc = "issuing"
    BY <1>4 DEF Arrive
  <2>3. /\ call'[c].pc = "sent" /\ call'[c].upid = Len(task') /\ call'[c].op = k
        /\ \A b \in Callers \ {c} : call'[b] = call[b]
    BY <1>1, <2>2 DEF Call, Returned
  <2>4. KnownWhileBusy(k)'
    BY <1>1, <2>2, <2>3 DEF Known, KnownWhileBusy
  <2>5. ASSUME NEW u \in Issued(k)', task'[u].outcome = "ok" PROVE u = Len(task')
    <3>1. ASSUME u \in DOMAIN task PROVE FALSE
      <4>1. u \in Issued(k) /\ task[u].outcome = "ok"
        BY <2>1, <2>5, <3>1, AppendKeeps DEF Issued, TypeOK, PveTypeOK
      <4>2. QED
        BY <1>2, <1>3, <2>2, <4>1
    <3>2. QED
      BY <2>1, <2>5, <3>1, AppendKeeps DEF Issued, TypeOK, PveTypeOK
  <2>6. QED
    BY <2>3, <2>4, <2>5 DEF Known, TaskKnown
<1>5. CASE IssueThrows(c) /\ call[c].pc = "issuing"
  <2>1. /\ entry'[k].status = "failed" /\ task' = task
        /\ call'[c].op = NoOp /\ \A b \in Callers \ {c} : call'[b] = call[b]
    BY <1>1, <1>5 DEF IssueThrows, SetStatus, Return, Returned, Entry
  <2>2. KnownWhileBusy(k)'
    BY <1>1, <2>1, OpParts DEF KnownWhileBusy
  <2>3. ASSUME NEW u \in Issued(k)', task'[u].outcome = "ok" PROVE FALSE
    BY <1>2, <1>3, <1>5, <2>1, <2>3 DEF Issued
  <2>4. QED
    BY <2>2, <2>3 DEF Known
<1>6. CASE RecordUpid(c)
  <2>1. /\ entry'[k] = [status |-> "in_flight", upid |-> call[c].upid] /\ task' = task
        /\ call'[c].pc = "polling" /\ call'[c].upid = call[c].upid /\ call'[c].op = k
        /\ \A b \in Callers \ {c} : call'[b] = call[b]
    BY <1>1, <1>6 DEF RecordUpid, Call, Returned
  <2>2. KnownWhileBusy(k)'
    BY <1>1, <2>1 DEF KnownWhileBusy, Settled
  <2>3. QED
    BY <1>2, <1>3, <2>1, <2>2 DEF Known, TaskKnown, Issued
<1>7. CASE PollEnds(c) /\ UNCHANGED past
  <2>1. call[c].pc = "polling" /\ call[c].upid \in Issued(k)
    BY <1>7 DEF PollEnds, CallsOwn
  <2>2. /\ task' = task
        /\ call'[c].op = NoOp /\ \A b \in Callers \ {c} : call'[b] = call[b]
    BY <1>1, <1>7 DEF PollEnds, Return, Returned
  <2>3. CASE entry'[k].status = "succeeded"
    <3>1. KnownWhileBusy(k)'
      BY <1>1, <2>2, OpParts DEF KnownWhileBusy
    <3>2. QED
      BY <2>3, <3>1 DEF Known, TaskKnown, Settled
  <2>4. CASE PollTask(call[c].upid) = "error" /\ entry'[k].status = "failed"
    <3>1. task[call[c].upid] \in Task
      BY <2>1, ElementOfSeq DEF Issued, TypeOK, PveTypeOK
    <3>2. task[call[c].upid].outcome # "ok"
      BY <2>4, <3>1 DEF PollTask, Task, Outcomes
    <3>3. KnownWhileBusy(k)'
      BY <1>1, <2>2, OpParts DEF KnownWhileBusy
    <3>4. ASSUME NEW u \in Issued(k)', task'[u].outcome = "ok" PROVE FALSE
      BY <1>2, <1>3, <2>2, <3>2, <3>4 DEF Issued
    <3>5. QED
      BY <3>3, <3>4 DEF Known
  <2>5. \/ entry'[k].status = "succeeded"
        \/ PollTask(call[c].upid) = "error" /\ entry'[k].status = "failed"
        \/ Note(k, "untold")
    BY <1>1, <1>7 DEF PollEnds, SetStatus, Entry
  <2>6. ~Note(k, "untold")
    BY DEF Note, Untroubled, Had, Events
  <2>7. QED
    BY <2>3, <2>4, <2>5, <2>6
<1>8. ASSUME Note(k, "untold") PROVE FALSE
  BY <1>8 DEF Note, Untroubled, Had, Events
<1>9. QED
  BY <1>4, <1>5, <1>6, <1>7, <1>8 DEF CallStep, IssueThrows, PollEnds, PollThrows

(* The reconciliation of an operation.                                     *)
LEMMA KnownConclude ==
  ASSUME IInv, OutcomesKnown, NEW k \in Ops, Conclude(k), Known(k), Untroubled(k)
  PROVE  Known(k)'
<1> USE DEF IInv
<1>1. PICK s \in seen, p \in PollAnswers(entry[k].upid) :
        s.op = k /\ SetStatus(k, Verdict(ByTarget(k[2], s.exists), p))
  BY DEF Conclude
<1>2. s.exists
  BY <1>1 DEF LookupsNoted, Untroubled, Events
<1>3. /\ task' = task /\ call' = call /\ mode' = mode
      /\ \A c \in Callers : call[c].op = NoOp
      /\ entry'[k].status = Verdict(ByTarget(k[2], s.exists), p)
  <2>1. entry \in [Ops -> Entry] /\ \A c \in Callers : call[c].pc = "idle"
    BY DEF Conclude, TypeOK, JrnTypeOK, ReconcileOwns
  <2>2. QED
    BY <1>1, <2>1, CallFields DEF Conclude, SetStatus, Entry
<1>4. KnownWhileBusy(k)'
  BY <1>3, OpParts DEF KnownWhileBusy
<1>5. CASE entry'[k].status \in Settled
  BY <1>4, <1>5 DEF Known, TaskKnown
<1>6. CASE entry'[k].status \notin Settled
  <2>1. ByTarget(k[2], s.exists) # "failed"
    BY <1>2, OpParts DEF ByTarget, Actions
  <2>2. p = "error"
    BY <1>3, <1>6, <2>1 DEF Verdict, Settled
  <2>3. entry[k].upid # 0 /\ PollTask(entry[k].upid) = "error"
    BY <2>2 DEF PollAnswers
  <2>4. task[entry[k].upid] \in Task
    BY <2>3, ElementOfSeq DEF RecordedTaskIsOwn, Issued, TypeOK, PveTypeOK
  <2>5. task[entry[k].upid].outcome # "ok"
    BY <2>3, <2>4 DEF PollTask, Task, Outcomes
  <2>6. k \in todo /\ entry[k].status \notin Settled
    BY DEF Conclude, ReconcileOwns, Unresolved, Settled
  <2>7. ASSUME NEW u \in Issued(k)', task'[u].outcome = "ok" PROVE FALSE
    <3>1. u \in Issued(k) /\ task[u].outcome = "ok"
      BY <1>3, <2>7 DEF Issued
    <3>2. entry[k].upid \in {0, u}
      BY <1>3, <2>6, <3>1, OpParts DEF Known, TaskKnown
    <3>3. QED
      BY <2>3, <2>5, <3>1, <3>2
  <2>8. QED
    BY <1>4, <2>7 DEF Known
<1>7. QED
  BY <1>5, <1>6

LEMMA OutcomesStep == IInv /\ NoRowNoTrace /\ OutcomesKnown /\ [Next]_vars => OutcomesKnown'
<1> SUFFICES ASSUME IInv, NoRowNoTrace, OutcomesKnown, [Next]_vars PROVE OutcomesKnown'
  OBVIOUS
<1> USE DEF IInv
<1>1. past \subseteq past' /\ entry \in [Ops -> Entry] /\ call \in [Callers -> Call]
  BY PastGrows DEF TypeOK, JrnTypeOK
<1>2. ASSUME NEW k \in left'
      PROVE  Had(k, "untold")'
  <2>1. ASSUME NEW c \in Callers, PollThrows(c)
        PROVE  Had(k, "untold")'
    BY <1>2, <2>1 DEF PollThrows, Note, Had, OutcomesKnown
  <2>2. CASE left' \subseteq left
    BY <1>1, <1>2, <2>2 DEF OutcomesKnown, Had
  <2>3. QED
    BY <2>1, <2>2
    DEF Next, SkipSucceeded, SkipNeedsAttention, Begin, CallStep, Arrive, IssueThrows,
        RecordUpid, PollEnds, ServerStep, Restart, Inspect, Conclude, Listen, NodeStep,
        jrnVars, Crash, vars
<1>3. ASSUME NEW k \in Ops, entry'[k].status \in {"none", "pending"}
      PROVE  entry'[k].upid = 0
  <2>1. CASE entry'[k] = entry[k]
    BY <1>3, <2>1 DEF OutcomesKnown
  <2>2. ASSUME NEW c \in Callers, NEW j \in Ops, NEW g \in PublicKeys(j), Begin(c, j, g)
        PROVE  entry'[k].upid = 0
    BY <1>1, <1>3, <2>2 DEF Begin, Entry, OutcomesKnown
  <2>3. ASSUME NEW c \in Callers, RecordUpid(c) PROVE entry'[k] = entry[k]
    BY <1>1, <1>3, <2>3 DEF RecordUpid, Entry
  <2>4. ASSUME NEW j \in Ops, NEW t \in {"succeeded", "failed", "needs_attention"},
               SetStatus(j, t)
        PROVE  entry'[k] = entry[k]
    BY <1>1, <1>3, <2>4 DEF SetStatus, Entry
  <2>5. ASSUME NEW c \in Callers, IssueThrows(c) \/ PollEnds(c)
        PROVE  \E j \in Ops : SetStatus(j, "failed") \/ SetStatus(j, "succeeded")
    BY <2>5, CallFields DEF IssueThrows, PollEnds
  <2>6. ASSUME NEW j \in Ops, Conclude(j)
        PROVE  \E t \in {"succeeded", "failed", "needs_attention"} : SetStatus(j, t)
    BY <2>6 DEF Conclude, Verdict
  <2>7. QED
    BY <2>1, <2>2, <2>3, <2>4, <2>5, <2>6
    DEF Next, SkipSucceeded, SkipNeedsAttention, CallStep, Arrive, PollThrows, ServerStep,
        Restart, Inspect, Listen, NodeStep, jrnVars, Crash, vars
<1>4. ASSUME NEW k \in Ops, Untroubled(k)'
      PROVE  Known(k)'
  <2>1. Untroubled(k) /\ Known(k)
    BY <1>1, <1>4 DEF Untroubled, Had, OutcomesKnown
  <2>2. CASE UNCHANGED <<entry, call, task, mode>>
    BY <2>1, <2>2, KnownStays DEF Issued
  <2>3. ASSUME NEW c \in Callers, NEW j \in Ops,
               SkipSucceeded(c, j) \/ SkipNeedsAttention(c, j)
        PROVE  Known(k)'
    <3>1. /\ call[c].op = NoOp /\ call'[c].op = NoOp
          /\ \A b \in Callers \ {c} : call'[b] = call[b]
          /\ UNCHANGED <<entry, task, mode>>
      BY <1>1, <2>3, CallFields
      DEF SkipSucceeded, SkipNeedsAttention, Idle, Return, Returned, serverVars
    <3>2. QED
      BY <2>1, <3>1, KnownStays, OpParts DEF Issued
  <2>4. ASSUME NEW c \in Callers, NEW j \in Ops, NEW g \in PublicKeys(j), Begin(c, j, g)
        PROVE  Known(k)'
    <3>1. /\ call[c].op = NoOp /\ mode = "serving" /\ call'[c].op = j
          /\ call'[c].pc = "issuing" /\ \A b \in Callers \ {c} : call'[b] = call[b]
          /\ UNCHANGED <<task, mode>>
      BY <1>1, <2>4, CallFields DEF Begin, Idle, serverVars
    <3>2. CASE j # k
      <4>1. entry'[k] = entry[k]
        BY <1>1, <2>4, <3>2 DEF Begin
      <4>2. QED
        BY <2>1, <3>1, <3>2, <4>1, KnownStays, OpParts DEF Issued
    <3>3. CASE j = k
      <4>1. ~Busy(k)
        BY <1>4, <2>4, <3>3 DEF Begin, Note, Untroubled, Had, Events
      <4>2. /\ entry[k].status \in {"none", "failed"}
            /\ \A u \in Issued(k) : task[u].outcome # "ok"
        BY <2>1, <2>4, <3>3, <4>1, NothingDoneAtBegin
      <4>3. entry'[k].status \in {"pending", "failed"}
        BY <1>1, <2>4, <3>3, <4>2 DEF Begin, Entry
      <4>4. KnownWhileBusy(k)'
        BY <3>1, <3>3, <4>1, <4>3 DEF KnownWhileBusy, Busy, Settled
      <4>5. QED
        BY <3>1, <4>2, <4>4 DEF Known, Issued
    <3>4. QED
      BY <3>2, <3>3
  <2>5. ASSUME NEW c \in Callers, CallStep(c)
        PROVE  Known(k)'
    <3>1. CASE call[c].op = k
      BY <1>4, <2>1, <2>5, <3>1, KnownCallStep
    <3>2. CASE call[c].op # k
      <4>1. PICK j \in Ops : j = call[c].op /\ j # k
        BY <2>5, <3>2, CallFields
        DEF CallStep, Arrive, IssueThrows, RecordUpid, PollEnds, PollThrows
      <4>2. /\ call'[c].op # k /\ \A b \in Callers \ {c} : call'[b] = call[b]
            /\ mode' = mode
        BY <1>1, <2>5, <4>1, OpParts
        DEF CallStep, Arrive, IssueThrows, RecordUpid, PollEnds, PollThrows, Return,
            Returned, Call, serverVars
      <4>3. entry'[k] = entry[k]
        BY <1>1, <2>5, <4>1
        DEF CallStep, Arrive, IssueThrows, RecordUpid, PollEnds, PollThrows, SetStatus
      <4>4. /\ Issued(k)' = Issued(k)
            /\ \A u \in Issued(k) : task'[u].outcome = task[u].outcome
        <5>1. CASE UNCHANGED task
          BY <5>1 DEF Issued
        <5>2. CASE Arrive(c)
          <6>1. PICK t \in Task : task' = Append(task, t) /\ t.op = j
            BY <4>1, <5>2, CallFields, OpParts, ExecuteAppends DEF Arrive, TypeOK
          <6>2. QED
            BY <4>1, <6>1, AppendKeeps DEF Issued, TypeOK, PveTypeOK
        <5>3. QED
          BY <2>5, <5>1, <5>2
          DEF CallStep, IssueThrows, RecordUpid, PollEnds, PollThrows
      <4>5. QED
        BY <2>1, <4>1, <4>2, <4>3, <4>4, KnownStays
    <3>3. QED
      BY <3>1, <3>2
  <2>6. ASSUME NEW j \in Ops, Conclude(j)
        PROVE  Known(k)'
    <3>1. CASE j = k
      BY <2>1, <2>6, <3>1, KnownConclude
    <3>2. CASE j # k
      <4>1. entry'[k] = entry[k] /\ UNCHANGED <<call, task, mode>>
        BY <1>1, <2>6, <3>2 DEF Conclude, SetStatus
      <4>2. QED
        BY <2>1, <4>1, KnownStays DEF Issued
    <3>3. QED
      BY <3>1, <3>2
  <2>7. CASE Restart
    BY <2>1, <2>7 DEF Restart, Known, KnownWhileBusy, TaskKnown, Issued
  <2>8. CASE Listen
    <3>1. entry[k].status \notin Unresolved /\ UNCHANGED <<entry, call, task>>
      BY <2>8 DEF Listen, ReconcileOwns
    <3>2. QED
      BY <2>1, <3>1 DEF Known, KnownWhileBusy, TaskKnown, Issued
  <2>9. CASE NodeStep
    <3>1. /\ Issued(k)' = Issued(k) /\ UNCHANGED <<entry, call, mode>>
          /\ \A u \in Issued(k) : task'[u].outcome = task[u].outcome
      BY <2>9, NodeStepKeeps DEF Issued, jrnVars
    <3>2. QED
      BY <2>1, <3>1, KnownStays
  <2>10. CASE Crash
    <3>1. /\ \A c \in Callers : call'[c].op = NoOp
          /\ mode' = "down" /\ UNCHANGED <<entry, task>>
      BY <2>10 DEF Crash, Returned
    <3>2. ~(Busy(k) /\ entry[k].status = "failed")
      BY <1>4, <2>10 DEF Crash, Untroubled, Had, Events
    <3>3. ASSUME NEW u \in Issued(k), task[u].outcome = "ok", entry[k].status \notin Settled
          PROVE  entry[k].status \in Unresolved /\ entry[k].upid \in {0, u}
      <4>1. CASE mode # "serving" /\ entry[k].status \in Unresolved /\ entry[k].upid \in {0, u}
        BY <4>1
      <4>2. ASSUME NEW c \in Callers, call[c].op = k, call[c].pc \in {"sent", "polling"},
                   call[c].upid = u
            PROVE  entry[k].status \in Unresolved /\ entry[k].upid \in {0, u}
        <5>1. Busy(k) /\ entry[k].status \in Statuses
          BY <1>1, <4>2 DEF Busy, Entry
        <5>2. entry[k].status # "none"
          BY <5>1 DEF NoRowNoTrace
        <5>3. entry[k].status \in Unresolved
          BY <3>2, <3>3, <5>1, <5>2 DEF Statuses, Settled, Unresolved
        <5>4. CASE call[c].pc = "polling"
          BY <2>1, <4>2, <5>3, <5>4 DEF Known, KnownWhileBusy
        <5>5. CASE call[c].pc = "sent"
          <6>1. entry[k].status = "pending"
            BY <2>1, <4>2, <5>3, <5>5 DEF Known, KnownWhileBusy, Unresolved
          <6>2. QED
            BY <5>3, <6>1 DEF OutcomesKnown
        <5>6. QED
          BY <4>2, <5>4, <5>5
      <4>3. QED
        BY <2>1, <3>3, <4>1, <4>2 DEF Known, TaskKnown
    <3>4. QED
      BY <3>1, <3>3, OpParts DEF Known, KnownWhileBusy, TaskKnown, Issued
  <2>11. QED
    BY <2>2, <2>3, <2>4, <2>5, <2>6, <2>7, <2>8, <2>9, <2>10
    DEF Next, ServerStep, Inspect, vars
<1>5. QED
  BY <1>2, <1>3, <1>4 DEF OutcomesKnown

LEMMA OutcomesInvariance == Spec => []OutcomesKnown
<1>1. Init => OutcomesKnown
  BY OpParts
  DEF Init, PveInit, Returned, OutcomesKnown, Known, KnownWhileBusy, Issued, Untroubled
<1>2. QED
  BY <1>1, OutcomesStep, Invariance, NoRowInvariance, PTL DEF Spec

(* What a crash interrupts is not just begun again: reconcile has settled  *)
(* the row or found that the operation failed, unless an answer was lost,  *)
(* calls overlapped, a retry was cut off or the VM was not found.          *)
THEOREM BegunAgainCorrect == Spec => BegunAgainAfterFailure
<1> DEFINE Justified(k) == BegunAgain(k) =>
             /\ \/ entry[k].status = "failed"
                \/ entry[k].status = "in_flight" /\ k \in left
             /\ \/ \A u \in Issued(k) : task[u].outcome = "error"
                \/ \E e \in Events : Had(k, e)
<1>1. ASSUME IInv, NoRowNoTrace, OutcomesKnown, [Next]_vars, NEW k \in Ops, BegunAgain(k)
      PROVE  Justified(k)
  <2>1. ~Busy(k) /\ Busy(k)' /\ Issued(k) # {}
    BY <1>1 DEF BegunAgain
  <2>2. PICK c \in Callers, g \in PublicKeys(k) : Begin(c, k, g)
    BY <1>1, <2>1, BusyBegins
  <2>3. mode = "serving" /\ entry[k].status \in Unresolved \cup {"none", "failed"}
    BY <1>1, <2>2
    DEF Begin, Idle, IInv, TypeOK, JrnTypeOK, Entry, Statuses, Unresolved
  <2>4. entry[k].status # "none"
    BY <1>1, <2>1 DEF NoRowNoTrace
  <2>5. entry[k].status = "failed" \/ (entry[k].status = "in_flight" /\ k \in left)
    BY <1>1, <2>1, <2>3, <2>4 DEF IInv, UnresolvedIsOwned
  <2>6. ASSUME Untroubled(k), NEW u \in Issued(k) PROVE task[u].outcome = "error"
    <3>1. task[u] \in Task
      BY <1>1, ElementOfSeq DEF Issued, IInv, TypeOK, PveTypeOK
    <3>2. task[u].outcome # "ok"
      BY <1>1, <2>1, <2>2, <2>6, NothingDoneAtBegin
    <3>3. QED
      BY <3>1, <3>2 DEF Task, Outcomes
  <2>7. QED
    BY <2>5, <2>6 DEF Untroubled
<1>2. IInv /\ NoRowNoTrace /\ OutcomesKnown /\ [Next]_vars
      => [\A k \in Ops : Justified(k)]_vars
  BY <1>1
<1>3. QED
  BY <1>2, Invariance, NoRowInvariance, OutcomesInvariance, PTL
  DEF Spec, BegunAgainAfterFailure

-----------------------------------------------------------------------------
(* Deployments use the journal.                                            *)

(* A request knows its deployment, and it has its key when it comes to     *)
(* store and to inject it.                                                 *)
RequestsOwn ==
  /\ run \in [Callers -> Run]
  /\ \A c \in Callers :
       /\ run[c].pc # "none" => run[c].dep \in Deps
       /\ run[c].pc \in {"put", "stored"} => run[c].key \in GuestKeys

(* The synchronous part of runMutation is a step of the journal.           *)
LEMMA MutateIsJournalStep ==
  ASSUME NEW c \in Callers, NEW d \in Deps, NEW a \in Actions,
         NEW g \in PublicKeys(<<d, a>>), Mutate(c, d, a, g)
  PROVE  Next
<1>1. <<d, a>> \in Ops
  BY DEF Ops
<1>2. QED
  BY <1>1 DEF Mutate, Next

LEMMA RequestsStep ==
  RequestsOwn /\ [DeployNext]_deployVars => RequestsOwn'
<1> SUFFICES ASSUME RequestsOwn, [DeployNext]_deployVars
             PROVE  RequestsOwn'
  OBVIOUS
<1> USE DEF RequestsOwn, Run, Pcs
<1>1. CASE UNCHANGED run
  BY <1>1
<1>2. ASSUME NEW c \in Callers, NEW d \in Deps,
             StartRun(c, d) \/ StartDelete(c, d)
      PROVE  RequestsOwn'
  <2>1. PICK p \in {"clone", "teardown", "teardown_only"} :
          run' = [run EXCEPT ![c] = [pc |-> p, dep |-> d, key |-> NoKey]]
    BY <1>2 DEF StartRun, StartDelete
  <2>2. QED
    BY <2>1
<1>3. ASSUME NEW c \in Callers, GenerateKey(c)
      PROVE  RequestsOwn'
  <2>1. (CHOOSE g \in GuestKeys : g \notin KeysInUse) \in GuestKeys
    BY <1>3 DEF GenerateKey
  <2>2. QED
    BY <1>3, <2>1 DEF GenerateKey, At
<1>4. ASSUME NEW c \in Callers, Done(c)
      PROVE  RequestsOwn'
  BY <1>4 DEF Done, NoRun
<1>5. ASSUME NEW c \in Callers, NEW p \in Pcs \ {"none", "put"}, Goto(c, p),
             run[c].pc # "none", p = "stored" => run[c].pc = "put"
      PROVE  RequestsOwn'
  BY <1>5 DEF Goto
<1>6. CASE CrashServer
  BY <1>6 DEF CrashServer, NoRun
<1>7. ASSUME NEW c \in Callers, RequestStep(c)
      PROVE  RequestsOwn'
  <2>1. CASE Configure(c) \/ Boot(c) \/ Booted(c) \/ ReadAddress(c) \/ Reach(c)
               \/ Install(c) \/ CheckThenExpose(c) \/ DeleteMachine(c) \/ StoreKey(c)
    BY <1>5, <2>1 DEF Configure, Boot, Booted, ReadAddress, Reach, Install,
       CheckThenExpose, DeleteMachine, StoreKey, At
  <2>2. CASE Finish(c) \/ StepFails(c) \/ StepThrows(c) \/ ConfigureThrows(c)
               \/ StoreKeyThrows(c) \/ TeardownThrows(c) \/ Forget(c) \/ ForgetThrows(c)
            \/ DeleteFails(c)
    BY <1>4, <2>2 DEF Finish, StepFails, StepThrows, ConfigureThrows,
       StoreKeyThrows, TeardownThrows, Forget, ForgetThrows, DeleteFails, Fail, Throw, EndRun
  <2>3. CASE MutationStep(c)
    BY <1>1, <2>3 DEF MutationStep
  <2>4. QED
    BY <1>3, <1>7, <2>1, <2>2, <2>3 DEF RequestStep
<1>8. QED
  BY <1>1, <1>2, <1>6, <1>7 DEF DeployNext, EnvironmentStep, depVars, deployVars

(* Every step of a request is a step of the journal or leaves it alone.    *)
LEMMA DeployStepIsJournalStep ==
  RequestsOwn /\ [DeployNext]_deployVars => [Next]_vars
<1> SUFFICES ASSUME RequestsOwn, [DeployNext]_deployVars
             PROVE  [Next]_vars
  OBVIOUS
<1>1. CASE UNCHANGED deployVars
  BY <1>1 DEF deployVars, vars
<1>2. ASSUME NEW c \in Callers, NEW d \in Deps, StartRun(c, d)
      PROVE  Next
  BY <1>2, MutateIsJournalStep DEF StartRun, PublicKeys, Actions
<1>3. ASSUME NEW c \in Callers, Configure(c)
      PROVE  Next
  BY <1>3, MutateIsJournalStep DEF Configure, At, RequestsOwn, PublicKeys, Actions
<1>4. ASSUME NEW c \in Callers, Boot(c)
      PROVE  Next
  BY <1>4, MutateIsJournalStep DEF Boot, At, RequestsOwn, PublicKeys, Actions
<1>5. ASSUME NEW c \in Callers, DeleteMachine(c)
      PROVE  Next
  BY <1>5, MutateIsJournalStep DEF DeleteMachine, At, RequestsOwn, PublicKeys, Actions
<1>6. ASSUME NEW c \in Callers, MutationStep(c)
      PROVE  Next
  BY <1>6 DEF MutationStep, Next
<1>7. CASE EnvironmentStep \/ CrashServer
  BY <1>7 DEF EnvironmentStep, CrashServer, Next
<1>8. ASSUME NEW c \in Callers, RequestStep(c)
      PROVE  [Next]_vars
  BY <1>3, <1>4, <1>5, <1>6, <1>8
  DEF RequestStep, GenerateKey, StoreKey, Booted, ReadAddress, Reach, Install,
      CheckThenExpose, Finish, StepFails, StepThrows, ConfigureThrows, Fail, Throw,
      StoreKeyThrows, TeardownThrows, Forget, ForgetThrows, DeleteFails
<1>9. QED
  BY <1>1, <1>2, <1>7, <1>8 DEF DeployNext, StartDelete

(* Whatever requests, crashes and overlaps there are, the journal behaves  *)
(* as module Journal specifies.                                            *)
THEOREM JournalImplemented == DeploySpec => FollowsJournal
<1>1. DeployInit => Init /\ RequestsOwn
  BY DEF DeployInit, RequestsOwn, Run, Pcs, NoRun
<1>2. QED
  BY <1>1, RequestsStep, DeployStepIsJournalStep, PTL
  DEF DeploySpec, FollowsJournal, Spec

(* So the journal never claims what did not happen, under any mix of runs, *)
(* retries and deletions, with the same exception for a deletion whose VM  *)
(* a restart did not find.                                                 *)
THEOREM DeploymentsSucceededCorrect == DeploySpec => []SucceededIsTrue
BY JournalImplemented, SucceededCorrect DEF FollowsJournal

(* No run, retry or deletion ever issues again what has settled.           *)
THEOREM DeploymentsSettledCorrect == DeploySpec => SettledIsFinal
BY JournalImplemented, SettledCorrect DEF FollowsJournal
-----------------------------------------------------------------------------
(* What the deployments add to the journal's state has its type.           *)
DeploymentsTyped ==
  /\ state \in [Deps -> L!States]
  /\ vault \in [Deps -> GuestKeys \cup {NoKey}]
  /\ link \subseteq Vms
  /\ page \in [Vms -> Deps \cup {NoDep}]
  /\ requests \in 0..MaxRequests

LEMMA DeploymentsStep ==
  RequestsOwn /\ DeploymentsTyped /\ [DeployNext]_deployVars => DeploymentsTyped'
<1> SUFFICES ASSUME RequestsOwn, DeploymentsTyped, [DeployNext]_deployVars
             PROVE  DeploymentsTyped'
  OBVIOUS
<1> USE DEF DeploymentsTyped
<1>1. CASE UNCHANGED depVars
  BY <1>1 DEF depVars
<1>2. ASSUME NEW c \in Callers, NEW d \in Deps,
             StartRun(c, d) \/ StartDelete(c, d)
      PROVE  DeploymentsTyped'
  <2>1. requests' \in 0..MaxRequests
    BY <1>2, RequestsAssumption DEF StartRun, StartDelete, MayStart
  <2>2. state' \in [Deps -> L!States]
    BY <1>2 DEF StartRun, StartDelete, Enter, L!States
  <2>3. QED
    BY <1>2, <2>1, <2>2 DEF StartRun, StartDelete
<1>3. ASSUME NEW c \in Callers, RequestStep(c)
      PROVE  DeploymentsTyped'
  <2>1. state' \in [Deps -> L!States]
    BY <1>3 DEF RequestStep, GenerateKey, StoreKey, Configure, Boot, Booted,
       ReadAddress, Reach, Install, CheckThenExpose, Finish, StepFails, StepThrows,
       ConfigureThrows, StoreKeyThrows, TeardownThrows, DeleteMachine, Forget, ForgetThrows,
       DeleteFails,
       MutationStep, Fail, Throw, Enter, L!States
  <2>2. vault' \in [Deps -> GuestKeys \cup {NoKey}]
    <3>1. CASE StoreKey(c) \/ StoreKeyThrows(c)
      <4>1. run[c].key \in GuestKeys /\ run[c].dep \in Deps
        BY <3>1 DEF StoreKey, StoreKeyThrows, At, RequestsOwn
      <4>2. QED
        BY <3>1, <4>1 DEF StoreKey, StoreKeyThrows
    <3>2. CASE Forget(c) \/ ForgetThrows(c)
      <4>1. run[c].dep \in Deps
        BY <3>2 DEF Forget, ForgetThrows, At, RequestsOwn
      <4>2. QED
        BY <3>2, <4>1 DEF Forget, ForgetThrows
    <3>3. QED
      BY <1>3, <3>1, <3>2 DEF RequestStep, GenerateKey, Configure, Boot, Booted,
         ReadAddress, Reach, Install, CheckThenExpose, Finish, StepFails, StepThrows,
         ConfigureThrows, TeardownThrows, DeleteMachine, DeleteFails,
         MutationStep, Fail, Throw
  <2>3. link' \subseteq Vms
    <3>1. CASE Reach(c)
      BY <3>1, TargetAssumption DEF Reach, At, Connect, Machine, RequestsOwn
    <3>2. QED
      BY <1>3, <3>1 DEF RequestStep, GenerateKey, StoreKey, Configure, Boot, Booted,
         ReadAddress, Install, CheckThenExpose, Finish, StepFails, StepThrows,
         ConfigureThrows, StoreKeyThrows, TeardownThrows, DeleteMachine, Forget, ForgetThrows,
         DeleteFails,
         MutationStep, GuestsFollow, Fail, Throw, EndRun, Close
  <2>4. page' \in [Vms -> Deps \cup {NoDep}]
    <3>1. CASE Install(c)
      BY <3>1 DEF Install, At, RunCommands, RequestsOwn
    <3>2. CASE MutationStep(c)
      BY <3>2 DEF MutationStep, GuestsFollow
    <3>3. QED
      BY <1>3, <3>1, <3>2 DEF RequestStep, GenerateKey, StoreKey, Configure, Boot,
         Booted, ReadAddress, Reach, CheckThenExpose, Finish, StepFails, StepThrows,
         ConfigureThrows, StoreKeyThrows, TeardownThrows, DeleteMachine, Forget, ForgetThrows,
         DeleteFails,
         Fail, Throw
  <2>5. UNCHANGED requests
    BY <1>3 DEF RequestStep, GenerateKey, StoreKey, Configure, Boot, Booted,
       ReadAddress, Reach, Install, CheckThenExpose, Finish, StepFails, StepThrows,
       ConfigureThrows, StoreKeyThrows, TeardownThrows, DeleteMachine, Forget, ForgetThrows,
       DeleteFails,
       MutationStep, Fail, Throw
  <2>6. QED
    BY <2>1, <2>2, <2>3, <2>4, <2>5
<1>4. CASE CrashServer
  BY <1>4 DEF CrashServer, Close
<1>5. QED
  BY <1>1, <1>2, <1>3, <1>4 DEF DeployNext, EnvironmentStep, depVars, deployVars

(* The types of a deployment's row, of its requests and of the guests hold *)
(* under any mix of requests.                                              *)
THEOREM DeployTypeCorrect == DeploySpec => []DeployTypeOK
<1>1. DeployInit => RequestsOwn /\ DeploymentsTyped
  BY RequestsAssumption
  DEF DeployInit, RequestsOwn, Run, Pcs, NoRun, DeploymentsTyped, L!Init, L!States
<1>2. DeploySpec => [](RequestsOwn /\ DeploymentsTyped)
  BY <1>1, RequestsStep, DeploymentsStep, PTL DEF DeploySpec
<1>3. DeploySpec => []TypeOK
  BY JournalImplemented, TypeCorrect DEF FollowsJournal
<1>4. TypeOK /\ RequestsOwn /\ DeploymentsTyped => DeployTypeOK
  BY DEF RequestsOwn, DeploymentsTyped, DeployTypeOK
<1>5. QED
  BY <1>2, <1>3, <1>4, PTL

-----------------------------------------------------------------------------
(* Requests for one deployment that do not overlap.                        *)

RunPcs == {"clone", "put", "stored", "configure", "start", "address", "reach",
           "install", "check", "expose"}

(* The state a run has persisted when it is at p.                          *)
StateAt(p) ==
  CASE p \in {"clone", "put", "stored"}    -> "Cloning"
    [] p = "configure"                     -> "Configuring"
    [] p \in {"start", "address", "reach"} -> "Booting"
    [] p = "install"                       -> "Installing"
    [] p = "check"                         -> "Checking"
    [] p = "expose"                        -> "Exposing"

(* The mutations a run that is at p has seen succeed.                      *)
Passed(p) ==
  CASE p \in {"put", "stored", "configure"} -> {"clone"}
    [] p = "start"                          -> {"clone", "configure"}
    [] p \in {"address", "reach", "install", "check", "expose"} ->
         {"clone", "configure", "start"}
    [] OTHER                                -> {}

(* What caller c works on is not recorded as succeeded yet; what it has    *)
(* been told has succeeded is, and the row has the state of its step.      *)
Recorded(c) ==
  /\ \A k \in Ops : call[c].op = k =>
       /\ run[c].pc \in Actions /\ k = <<run[c].dep, run[c].pc>>
       /\ entry[k].status # "succeeded"
  /\ run[c].pc \in Actions /\ call[c].pc = "idle" /\ call[c].res = "ok" =>
       Succeeded(run[c].dep, run[c].pc)
  /\ \A a \in Passed(run[c].pc) : Succeeded(run[c].dep, a)
  /\ run[c].pc \in RunPcs => state[run[c].dep] = StateAt(run[c].pc)

OneRequestEach ==
  \A b, c \in Callers :
    run[b].pc # "none" /\ run[c].pc # "none" /\ run[b].dep = run[c].dep => b = c

Serial == /\ OneRequestEach
          /\ \A c \in Callers : Recorded(c)
          /\ StateFollowsJournal

(* What holds whether requests overlap or not.                             *)
Sound == IInv /\ RequestsOwn /\ DeploymentsTyped

(* The persisted state is never ahead of what the run has seen succeed.    *)
LEMMA NotAhead ==
  ASSUME NEW p \in RunPcs, NEW a \in {"clone", "configure", "start"}, StateAt(p) \in After(a)
  PROVE  a \in Passed(p)
  BY DEF RunPcs, StateAt, After, Passed

(* No call for an operation that has succeeded, so it stays succeeded.     *)
LEMMA SucceededStays ==
  ASSUME Sound, Serial, [DeployNext]_deployVars, NEW k \in Ops, entry[k].status = "succeeded"
  PROVE  entry'[k] = entry[k]
<1>1. ~Busy(k)
  BY DEF Busy, Serial, Recorded
<1>2. [Next]_vars
  BY DeployStepIsJournalStep DEF Sound
<1>3. SettledStays(k)
  BY <1>2, SettledStep DEF Sound
<1>4. QED
  BY <1>1, <1>3 DEF SettledStays, Settled

(* A step of caller c, which handles a request for d or has just begun to, *)
(* leaves the other callers as they are.                                   *)
LEMMA StepOfOne ==
  ASSUME Sound, Serial, [DeployNext]_deployVars, NEW c \in Callers, NEW d \in Deps,
         \A b \in Callers \ {c} : run'[b] = run[b] /\ call'[b] = call[b],
         \A b \in Callers \ {c} : run[b].pc # "none" => run[b].dep # d,
         run'[c].pc # "none" => run'[c].dep = d,
         \A e \in Deps \ {d} : state'[e] = state[e],
         \A k \in Ops : k[1] # d => entry'[k] = entry[k],
         Recorded(c)',
         \A a \in {"clone", "configure", "start"} : state'[d] \in After(a) => Succeeded(d, a)'
  PROVE  Serial'
<1>1. OneRequestEach'
  BY DEF Serial, OneRequestEach
<1>2. \A e \in Deps, a \in {"clone", "configure", "start"} :
        Succeeded(e, a) => Succeeded(e, a)'
  BY SucceededStays DEF Succeeded, Ops, Actions
<1>3. StateFollowsJournal'
  BY <1>2 DEF Serial, StateFollowsJournal
<1>4. ASSUME NEW b \in Callers \ {c} PROVE Recorded(b)'
  <2>1. Recorded(b) /\ run'[b] = run[b] /\ call'[b] = call[b]
    BY DEF Serial
  <2>2. run[b].pc # "none" => run[b].dep \in Deps \ {d}
    BY DEF Sound, RequestsOwn
  <2>3. run[b].pc \in Actions \cup RunPcs => run[b].pc # "none"
    BY DEF Actions, RunPcs
  <2>4. \A k \in Ops : call'[b].op = k =>
          /\ run'[b].pc \in Actions /\ k = <<run'[b].dep, run'[b].pc>>
          /\ entry'[k].status # "succeeded"
    BY <2>1, <2>2, <2>3, OpParts DEF Recorded
  <2>5. run'[b].pc \in Actions /\ call'[b].pc = "idle" /\ call'[b].res = "ok" =>
          entry'[<<run'[b].dep, run'[b].pc>>].status = "succeeded"
    <3>1. run[b].pc \in Actions => <<run[b].dep, run[b].pc>> \in Ops
      BY <2>2, <2>3 DEF Ops
    <3>2. QED
      BY <2>1, <3>1, SucceededStays DEF Recorded, Succeeded
  <2>6. \A a \in Passed(run[b].pc) : entry'[<<run'[b].dep, a>>].status = "succeeded"
    <3> SUFFICES ASSUME NEW a \in Passed(run[b].pc)
                 PROVE  entry'[<<run'[b].dep, a>>].status = "succeeded"
      OBVIOUS
    <3>1. run[b].pc # "none" /\ a \in {"clone", "configure", "start"}
      BY DEF Passed
    <3>2. Succeeded(run[b].dep, a)
      BY <2>1 DEF Recorded
    <3>3. Succeeded(run[b].dep, a)'
      BY <1>2, <2>2, <3>1, <3>2
    <3>4. QED
      BY <2>1, <3>3 DEF Succeeded
  <2>7. run'[b].pc \in RunPcs => state'[run'[b].dep] = StateAt(run'[b].pc)
    BY <2>1, <2>2, <2>3 DEF Recorded
  <2>8. QED
    BY <2>1, <2>4, <2>5, <2>6, <2>7 DEF Recorded, Succeeded
<1>5. QED
  BY <1>1, <1>3, <1>4 DEF Serial

(* The step of a run from p to q, without a mutation.                      *)
LEMMA QuietStep ==
  ASSUME Sound, Serial, [DeployNext]_deployVars, NEW c \in Callers,
         run[c].pc # "none", call[c].pc = "idle", UNCHANGED vars,
         \A b \in Callers \ {c} : run'[b] = run[b],
         NEW q \in RunPcs \ Actions, run'[c].pc = q, run'[c].dep = run[c].dep,
         \A e \in Deps \ {run[c].dep} : state'[e] = state[e],
         state'[run[c].dep] = StateAt(q),
         \A a \in Passed(q) : Succeeded(run[c].dep, a)
  PROVE  Serial'
<1>1. run[c].dep \in Deps /\ \A b \in Callers \ {c} : run[b].pc # "none" => run[b].dep # run[c].dep
  BY DEF Sound, RequestsOwn, Serial, OneRequestEach
<1>2. call' = call /\ entry' = entry
  BY DEF vars
<1>3. \A k \in Ops : call[c].op # k
  BY CallFields, OpParts DEF Sound, IInv
<1>4. Recorded(c)'
  BY <1>2, <1>3 DEF Recorded, Succeeded
<1>5. \A a \in {"clone", "configure", "start"} :
        state'[run[c].dep] \in After(a) => Succeeded(run[c].dep, a)'
  BY <1>2, NotAhead DEF Succeeded
<1>6. QED
  BY <1>1, <1>2, <1>4, <1>5, StepOfOne

(* A request ends.                                                         *)
LEMMA EndStep ==
  ASSUME Sound, Serial, [DeployNext]_deployVars, NEW c \in Callers,
         run[c].pc # "none", call[c].pc = "idle", UNCHANGED vars, Done(c),
         \A e \in Deps \ {run[c].dep} : state'[e] = state[e],
         \A a \in {"clone", "configure", "start"} :
           state'[run[c].dep] \in After(a) => Succeeded(run[c].dep, a)
  PROVE  Serial'
<1>1. run[c].dep \in Deps /\ \A b \in Callers \ {c} : run[b].pc # "none" => run[b].dep # run[c].dep
  BY DEF Sound, RequestsOwn, Serial, OneRequestEach
<1>2. call' = call /\ entry' = entry
  BY DEF vars
<1>3. \A k \in Ops : call[c].op # k
  BY CallFields, OpParts DEF Sound, IInv
<1>4. run'[c].pc = "none" /\ \A b \in Callers \ {c} : run'[b] = run[b]
  BY DEF Done, NoRun, Sound, RequestsOwn
<1>5. Recorded(c)'
  BY <1>2, <1>3, <1>4 DEF Recorded, Actions, Passed, RunPcs
<1>6. QED
  BY <1>1, <1>2, <1>4, <1>5, StepOfOne DEF Succeeded

(* A run or a deletion comes to its mutation a.                            *)
LEMMA MutateStep ==
  ASSUME Sound, Serial, [DeployNext]_deployVars, NEW c \in Callers, NEW d \in Deps,
         NEW a \in Actions, NEW g \in PublicKeys(<<d, a>>), Mutate(c, d, a, g),
         \A b \in Callers \ {c} : run'[b] = run[b],
         \A b \in Callers \ {c} : run[b].pc # "none" => run[b].dep # d,
         run'[c].pc = a, run'[c].dep = d,
         \A e \in Deps \ {d} : state'[e] = state[e],
         IF a = "delete" THEN state'[d] = state[d] ELSE state'[d] = StateAt(a),
         \A s \in Passed(a) : Succeeded(d, s)
  PROVE  Serial'
<1>1. <<d, a>> \in Ops /\ call[c].op = NoOp /\ TypeOK /\ \A k \in Ops : k # NoOp
  BY CallFields, OpParts DEF Ops, Mutate, SkipSucceeded, SkipNeedsAttention, Begin, Idle,
     Sound, IInv
<1>2. /\ \A b \in Callers \ {c} : call'[b] = call[b]
      /\ \A k \in Ops : k # <<d, a>> => entry'[k] = entry[k]
      /\ \/ call'[c].op = NoOp /\ call'[c].res = "ok" /\ entry'[<<d, a>>].status = "succeeded"
         \/ call'[c].op = NoOp /\ call'[c].res = "failed"
         \/ call'[c].op = <<d, a>> /\ call'[c].pc = "issuing" /\ entry'[<<d, a>>].status # "succeeded"
  BY <1>1 DEF Mutate, SkipSucceeded, SkipNeedsAttention, Begin, Return, Returned, TypeOK,
     JrnTypeOK, Entry
<1>3. \A s \in Passed(a) : Succeeded(d, s)'
  <2>1. Passed(a) \subseteq Actions
    BY DEF Passed, Actions
  <2>2. QED
    BY <2>1, SucceededStays DEF Succeeded, Ops
<1>4. a \in RunPcs => state'[d] = StateAt(a)
  BY DEF RunPcs
<1>5. Recorded(c)'
  BY <1>1, <1>2, <1>3, <1>4 DEF Recorded, Succeeded
<1>6. \A s \in {"clone", "configure", "start"} : state'[d] \in After(s) => Succeeded(d, s)'
  <2>1. CASE a = "delete"
    <3>1. \A s \in {"clone", "configure", "start"} : <<d, s>> \in Ops
      BY DEF Ops, Actions
    <3>2. QED
      BY <2>1, <3>1, SucceededStays DEF Serial, StateFollowsJournal, Succeeded
  <2>2. CASE a # "delete"
    <3>1. a \in RunPcs
      BY <2>2 DEF Actions, RunPcs
    <3>2. QED
      BY <1>3, <1>4, <3>1, NotAhead
  <2>3. QED
    BY <2>1, <2>2
<1>7. \A k \in Ops : k[1] # d => entry'[k] = entry[k]
  BY <1>2
<1>8. QED
  BY <1>2, <1>5, <1>6, <1>7, StepOfOne DEF Actions

(* A step of runMutation.                                                  *)
LEMMA SerialMutationStep ==
  ASSUME Sound, Serial, [DeployNext]_deployVars, NEW c \in Callers, MutationStep(c)
  PROVE  Serial'
<1>1. PICK k \in Ops : k = call[c].op /\ call[c].pc # "idle"
  BY CallFields
  DEF MutationStep, CallStep, Arrive, IssueThrows, RecordUpid, PollEnds, PollThrows, Sound, IInv
<1>2. run[c].pc \in Actions /\ k = <<run[c].dep, run[c].pc>> /\ entry[k].status # "succeeded"
  BY <1>1 DEF Serial, Recorded
<1>3. /\ run[c].pc # "none" /\ run[c].dep \in Deps /\ k[1] = run[c].dep
      /\ \A b \in Callers \ {c} : run[b].pc # "none" => run[b].dep # run[c].dep
  BY <1>2 DEF Sound, RequestsOwn, Serial, OneRequestEach, Actions
<1>4. run' = run /\ state' = state
  BY DEF MutationStep
<1>5. /\ \A b \in Callers \ {c} : call'[b] = call[b]
      /\ \A j \in Ops : j # k => entry'[j] = entry[j]
  BY <1>1 DEF MutationStep, CallStep, Arrive, IssueThrows, RecordUpid, PollEnds, PollThrows,
     SetStatus, Return, Sound, IInv, TypeOK, JrnTypeOK
<1>6. \/ call'[c].op = k /\ call'[c].pc # "idle" /\ entry'[k].status # "succeeded"
      \/ call'[c].op = NoOp /\ call'[c].res = "ok" /\ entry'[k].status = "succeeded"
      \/ call'[c].op = NoOp /\ call'[c].res \in {"failed", "threw"}
  <2>1. /\ call \in [Callers -> Call] /\ entry \in [Ops -> Entry] /\ call[c] \in Call
        /\ entry[k].status # "succeeded"
    BY <1>2 DEF Sound, IInv, TypeOK, JrnTypeOK
  <2>2. CASE Arrive(c)
    BY <1>1, <2>1, <2>2 DEF Arrive, Call, Returned
  <2>3. CASE RecordUpid(c)
    BY <1>1, <2>1, <2>3 DEF RecordUpid, Call, Returned
  <2>4. CASE IssueThrows(c) \/ PollThrows(c)
    BY <1>1, <2>1, <2>4 DEF IssueThrows, PollThrows, Return, Returned
  <2>5. CASE PollEnds(c)
    <3>1. \/ SetStatus(k, "succeeded") /\ Return(c, "ok")
          \/ Return(c, "failed")
      BY <1>1, <2>5 DEF PollEnds
    <3>2. QED
      BY <2>1, <3>1 DEF SetStatus, Return, Returned, Entry
  <2>6. QED
    BY <2>2, <2>3, <2>4, <2>5 DEF MutationStep, CallStep
<1>7. \A j \in Ops : j # NoOp
  BY OpParts
<1>8. \A a \in Actions : Succeeded(run[c].dep, a) => Succeeded(run[c].dep, a)'
  BY <1>3, <1>4, SucceededStays DEF Succeeded, Ops
<1>9. Recorded(c)'
  <2>1. Passed(run[c].pc) \subseteq Actions
    BY DEF Passed, Actions
  <2>2. \A a \in Passed(run[c].pc) : Succeeded(run[c].dep, a)'
    BY <1>8, <2>1 DEF Serial, Recorded
  <2>3. run[c].pc \in RunPcs => state[run[c].dep] = StateAt(run[c].pc)
    BY DEF Serial, Recorded
  <2>4. QED
    BY <1>2, <1>4, <1>6, <1>7, <2>2, <2>3 DEF Recorded, Succeeded
<1>10. \A a \in {"clone", "configure", "start"} :
         state'[run[c].dep] \in After(a) => Succeeded(run[c].dep, a)'
  BY <1>3, <1>4, <1>8 DEF Serial, StateFollowsJournal, Actions
<1>11. \A j \in Ops : j[1] # run[c].dep => entry'[j] = entry[j]
  BY <1>3, <1>5
<1>12. QED
  BY <1>3, <1>4, <1>5, <1>9, <1>10, <1>11, StepOfOne

(* The server restarts or reconciles, the node goes on, or all crashes.    *)
LEMMA SerialEnvironmentStep ==
  ASSUME Sound, Serial, [DeployNext]_deployVars,
         EnvironmentStep \/ CrashServer \/ UNCHANGED deployVars
  PROVE  Serial'
<1>1. state' = state
  BY DEF EnvironmentStep, CrashServer, deployVars, depVars
<1>2. \A d \in Deps, a \in {"clone", "configure", "start"} : Succeeded(d, a) => Succeeded(d, a)'
  BY SucceededStays DEF Succeeded, Ops, Actions
<1>3. StateFollowsJournal'
  BY <1>1, <1>2 DEF Serial, StateFollowsJournal
<1>4. CASE CrashServer
  <2>1. \A c \in Callers : run'[c] = NoRun /\ call'[c] = Returned("none")
    BY <1>4 DEF CrashServer, Crash
  <2>2. \A c \in Callers : run'[c].pc = "none" /\ \A k \in Ops : call'[c].op # k
    BY <2>1, OpParts DEF NoRun, Returned
  <2>3. \A c \in Callers : Recorded(c)'
    BY <2>2 DEF Recorded, Actions, Passed, RunPcs
  <2>4. QED
    BY <1>3, <2>2, <2>3 DEF Serial, OneRequestEach
<1>5. CASE EnvironmentStep \/ UNCHANGED deployVars
  <2>1. run' = run /\ call' = call
    BY <1>5 DEF EnvironmentStep, ServerStep, NodeStep, Restart, Inspect, Conclude, Listen, jrnVars,
       depVars, deployVars, serverVars
  <2>2. entry' = entry \/ \A c \in Callers : call[c].pc = "idle"
    BY <1>5 DEF EnvironmentStep, ServerStep, NodeStep, Restart, Inspect, Conclude, Listen, jrnVars,
       deployVars, serverVars, Sound, IInv, ReconcileOwns
  <2>3. ASSUME NEW c \in Callers PROVE Recorded(c)'
    <3>1. Recorded(c)
      BY DEF Serial
    <3>2. \A k \in Ops : call[c].op = k => entry'[k] = entry[k]
      BY <2>2, CallFields, OpParts DEF Sound, IInv
    <3>3. run[c].pc \in Actions => <<run[c].dep, run[c].pc>> \in Ops
      BY DEF Sound, RequestsOwn, Ops, Actions
    <3>4. \A a \in Passed(run[c].pc) : Succeeded(run[c].dep, a)'
      <4> SUFFICES ASSUME NEW a \in Passed(run[c].pc) PROVE Succeeded(run[c].dep, a)'
        OBVIOUS
      <4>1. run[c].pc # "none" /\ a \in {"clone", "configure", "start"}
        BY DEF Passed
      <4>2. run[c].dep \in Deps /\ Succeeded(run[c].dep, a)
        BY <3>1, <4>1 DEF Recorded, Sound, RequestsOwn
      <4>3. QED
        BY <1>2, <2>1, <4>1, <4>2
    <3>5. run[c].pc \in Actions /\ call[c].pc = "idle" /\ call[c].res = "ok" =>
            Succeeded(run[c].dep, run[c].pc)'
      BY <2>1, <3>1, <3>3, SucceededStays DEF Recorded, Succeeded
    <3>6. QED
      BY <1>1, <2>1, <3>1, <3>2, <3>4, <3>5 DEF Recorded, Succeeded
  <2>4. QED
    BY <1>3, <2>1, <2>3 DEF Serial, OneRequestEach
<1>6. QED
  BY <1>4, <1>5

(* A step of a request.                                                    *)
LEMMA SerialRequestStep ==
  ASSUME Sound, Serial, [DeployNext]_deployVars, NEW c \in Callers, RequestStep(c)
  PROVE  Serial'
<1> DEFINE d == run[c].dep
<1>1. ASSUME NEW p \in Pcs \ {"none"}, At(c, p)
      PROVE  /\ d \in Deps /\ run[c].pc = p /\ call[c].pc = "idle"
             /\ \A b \in Callers \ {c} : run[b].pc # "none" => run[b].dep # d
             /\ \A a \in Passed(p) : Succeeded(d, a)
             /\ p \in Actions /\ call[c].res = "ok" => Succeeded(d, p)
             /\ p \in RunPcs => state[d] = StateAt(p)
  BY <1>1 DEF At, Sound, RequestsOwn, Serial, OneRequestEach, Recorded
<1>2. ASSUME NEW q \in Pcs, Goto(c, q)
      PROVE  /\ run'[c].pc = q /\ run'[c].dep = d
             /\ \A b \in Callers \ {c} : run'[b] = run[b]
  BY <1>2 DEF Goto, Sound, RequestsOwn, Run
<1>3. ASSUME NEW s, Enter(d, s), d \in Deps
      PROVE  state'[d] = s /\ \A e \in Deps \ {d} : state'[e] = state[e]
  BY <1>3 DEF Enter, Sound, DeploymentsTyped
<1>4. CASE GenerateKey(c)
  <2>1. At(c, "clone") /\ call[c].res = "ok" /\ state' = state /\ UNCHANGED vars
    BY <1>4 DEF GenerateKey
  <2>2. /\ run'[c].pc = "put" /\ run'[c].dep = d
        /\ \A b \in Callers \ {c} : run'[b] = run[b]
    BY <1>4 DEF GenerateKey, Sound, RequestsOwn, Run
  <2>3. Succeeded(d, "clone") /\ state[d] = "Cloning"
    BY <1>1, <2>1 DEF Pcs, Actions, RunPcs, StateAt
  <2>4. run[c].pc = "clone" /\ call[c].pc = "idle"
    BY <2>1 DEF At
  <2>5. Passed("put") = {"clone"} /\ StateAt("put") = "Cloning" /\ "put" \in RunPcs \ Actions
    BY DEF Passed, StateAt, RunPcs, Actions
  <2>6. QED
    BY <2>1, <2>2, <2>3, <2>4, <2>5, QuietStep
<1>5. CASE StoreKey(c) \/ ReadAddress(c)
  <2>1. PICK p \in {"put", "address"} :
          /\ At(c, p) /\ Goto(c, IF p = "put" THEN "stored" ELSE "reach")
          /\ state' = state /\ UNCHANGED vars
    BY <1>5 DEF StoreKey, ReadAddress
  <2> DEFINE q == IF p = "put" THEN "stored" ELSE "reach"
  <2>2. q \in RunPcs \ Actions /\ q \in Pcs /\ Passed(q) = Passed(p) /\ StateAt(q) = StateAt(p)
    BY DEF RunPcs, Actions, Pcs, Passed, StateAt
  <2>3. p \in RunPcs /\ p \in Pcs \ {"none"}
    BY DEF RunPcs, Pcs
  <2>4. /\ run[c].pc # "none" /\ call[c].pc = "idle" /\ state[d] = StateAt(q)
        /\ \A a \in Passed(q) : Succeeded(d, a)
    BY <1>1, <2>1, <2>2, <2>3
  <2>5. run'[c].pc = q /\ run'[c].dep = d /\ \A b \in Callers \ {c} : run'[b] = run[b]
    BY <1>2, <2>1, <2>2
  <2> HIDE DEF q
  <2>6. QED
    BY <2>1, <2>2, <2>4, <2>5, QuietStep
<1>6. CASE Booted(c)
  <2>1. At(c, "start") /\ call[c].res = "ok" /\ Goto(c, "address") /\ state' = state /\ UNCHANGED vars
    BY <1>6 DEF Booted
  <2>2. Succeeded(d, "start") /\ Succeeded(d, "clone") /\ Succeeded(d, "configure")
    BY <1>1, <2>1 DEF Pcs, Actions, Passed
  <2>3. state[d] = "Booting" /\ run[c].pc # "none" /\ call[c].pc = "idle"
    BY <1>1, <2>1 DEF Pcs, RunPcs, StateAt
  <2>4. run'[c].pc = "address" /\ run'[c].dep = d /\ \A b \in Callers \ {c} : run'[b] = run[b]
    BY <1>2, <2>1 DEF Pcs
  <2>5. /\ Passed("address") = {"clone", "configure", "start"} /\ StateAt("address") = "Booting"
        /\ "address" \in RunPcs \ Actions
    BY DEF Passed, StateAt, RunPcs, Actions
  <2>6. QED
    BY <2>1, <2>2, <2>3, <2>4, <2>5, QuietStep
<1>7. CASE Reach(c) \/ Install(c) \/ CheckThenExpose(c)
  <2>1. PICK p \in {"reach", "install", "check"}, q \in {"install", "check", "expose"} :
          At(c, p) /\ Goto(c, q) /\ Enter(d, StateAt(q)) /\ UNCHANGED vars
    BY <1>7 DEF Reach, Install, CheckThenExpose, StateAt
  <2>2. q \in RunPcs \ Actions /\ q \in Pcs /\ Passed(q) = Passed(p) /\ p \in Pcs \ {"none"}
    BY DEF RunPcs, Actions, Pcs, Passed
  <2>3. /\ run[c].pc # "none" /\ call[c].pc = "idle" /\ d \in Deps
        /\ \A a \in Passed(q) : Succeeded(d, a)
    BY <1>1, <2>1, <2>2
  <2>4. run'[c].pc = q /\ run'[c].dep = d /\ \A b \in Callers \ {c} : run'[b] = run[b]
    BY <1>2, <2>1, <2>2
  <2>5. state'[d] = StateAt(q) /\ \A e \in Deps \ {d} : state'[e] = state[e]
    BY <1>3, <2>1, <2>3
  <2>6. QED
    BY <2>1, <2>2, <2>3, <2>4, <2>5, QuietStep
<1>8. CASE Configure(c) \/ Boot(c)
  <2>1. PICK p \in {"stored", "configure"}, q \in {"configure", "start"}, g \in GuestKeys \cup {NoKey} :
          /\ At(c, p) /\ Goto(c, q) /\ Enter(d, StateAt(q)) /\ Mutate(c, d, q, g)
          /\ p = "stored" => q = "configure" /\ g = run[c].key
          /\ p = "configure" => q = "start" /\ g = NoKey /\ call[c].res = "ok"
    BY <1>8 DEF Configure, Boot, StateAt, At, Sound, RequestsOwn
  <2>2. p \in Pcs \ {"none"} /\ q \in Pcs /\ q \in Actions /\ q # "delete"
    BY DEF Pcs, Actions
  <2>3. /\ run[c].pc = p /\ call[c].pc = "idle" /\ d \in Deps
        /\ \A b \in Callers \ {c} : run[b].pc # "none" => run[b].dep # d
        /\ \A a \in Passed(p) : Succeeded(d, a)
        /\ p = "configure" => Succeeded(d, "configure")
    BY <1>1, <2>1, <2>2 DEF Actions
  <2>4. run'[c].pc = q /\ run'[c].dep = d /\ \A b \in Callers \ {c} : run'[b] = run[b]
    BY <1>2, <2>1, <2>2
  <2>5. state'[d] = StateAt(q) /\ \A e \in Deps \ {d} : state'[e] = state[e]
    BY <1>3, <2>1, <2>3
  <2>6. \A s \in Passed(q) : Succeeded(d, s)
    BY <2>1, <2>3 DEF Passed
  <2>7. g \in PublicKeys(<<d, q>>)
    BY <2>1, <2>3 DEF PublicKeys, Sound, RequestsOwn
  <2>8. QED
    BY <2>1, <2>2, <2>3, <2>4, <2>5, <2>6, <2>7, MutateStep
<1>9. CASE DeleteMachine(c)
  <2>1. At(c, "teardown") /\ Goto(c, "delete") /\ Mutate(c, d, "delete", NoKey) /\ state' = state
    BY <1>9 DEF DeleteMachine
  <2>2. d \in Deps /\ \A b \in Callers \ {c} : run[b].pc # "none" => run[b].dep # d
    BY <1>1, <2>1 DEF Pcs
  <2>3. run'[c].pc = "delete" /\ run'[c].dep = d /\ \A b \in Callers \ {c} : run'[b] = run[b]
    BY <1>2, <2>1 DEF Pcs
  <2>4. /\ Passed("delete") = {} /\ NoKey \in PublicKeys(<<d, "delete">>)
        /\ "delete" \in Actions
    BY DEF Passed, PublicKeys, Actions
  <2>5. QED
    BY <2>1, <2>2, <2>3, <2>4, MutateStep
<1>10. CASE \/ Finish(c) \/ StepFails(c) \/ StepThrows(c) \/ ConfigureThrows(c)
            \/ StoreKeyThrows(c) \/ TeardownThrows(c) \/ Forget(c) \/ ForgetThrows(c)
            \/ DeleteFails(c)
  <2>1. PICK p \in Pcs \ {"none"} : At(c, p)
    BY <1>10 DEF Finish, StepFails, StepThrows, ConfigureThrows,
       StoreKeyThrows, TeardownThrows, Forget, ForgetThrows, DeleteFails, Pcs
  <2>2. d \in Deps /\ run[c].pc # "none" /\ call[c].pc = "idle"
    BY <1>1, <2>1
  <2>3. Done(c) /\ UNCHANGED vars
    BY <1>10 DEF Finish, StepFails, StepThrows, ConfigureThrows,
       StoreKeyThrows, TeardownThrows, Forget, ForgetThrows, DeleteFails, Fail, Throw, EndRun
  <2>4. \/ state' = state
        \/ Enter(d, "Failed")
        \/ Enter(d, "Ready") /\ (At(c, "check") \/ At(c, "expose"))
        \/ Enter(d, "Configuring") /\ At(c, "stored")
    BY <1>10 DEF Finish, StepFails, StepThrows, ConfigureThrows,
       StoreKeyThrows, TeardownThrows, Forget, ForgetThrows, DeleteFails, Fail, Throw
  <2>5. \A e \in Deps \ {d} : state'[e] = state[e]
    BY <1>3, <2>2, <2>4
  <2>6. ASSUME NEW a \in {"clone", "configure", "start"}, state'[d] \in After(a)
        PROVE  Succeeded(d, a)
    <3>1. CASE state' = state
      BY <2>2, <2>6, <3>1 DEF Serial, StateFollowsJournal
    <3>2. CASE Enter(d, "Failed")
      BY <1>3, <2>2, <2>6, <3>2 DEF After
    <3>3. CASE Enter(d, "Ready") /\ (At(c, "check") \/ At(c, "expose"))
      BY <1>1, <3>3 DEF Pcs, Passed
    <3>4. CASE Enter(d, "Configuring") /\ At(c, "stored")
      <4>1. a = "clone"
        BY <1>3, <2>2, <2>6, <3>4 DEF After
      <4>2. QED
        BY <1>1, <3>4, <4>1 DEF Pcs, Passed
    <3>5. QED
      BY <2>4, <3>1, <3>2, <3>3, <3>4
  <2>7. QED
    BY <2>2, <2>3, <2>5, <2>6, EndStep
<1>11. CASE MutationStep(c)
  BY <1>11, SerialMutationStep
<1>12. QED
  BY <1>4, <1>5, <1>6, <1>7, <1>8, <1>9, <1>10, <1>11 DEF RequestStep

LEMMA SerialStep ==
  ASSUME ~Overlap, Sound, Serial, [DeployNext]_deployVars
  PROVE  Serial'
<1>1. ASSUME NEW c \in Callers, NEW d \in Deps, StartRun(c, d) PROVE Serial'
  <2>1. /\ \A b \in Callers : run[b].dep # d
        /\ Mutate(c, d, "clone", NoKey) /\ Enter(d, "Cloning")
        /\ run' = [run EXCEPT ![c] = [pc |-> "clone", dep |-> d, key |-> NoKey]]
    BY <1>1 DEF StartRun, MayStart
  <2>2. run'[c].pc = "clone" /\ run'[c].dep = d /\ \A b \in Callers \ {c} : run'[b] = run[b]
    BY <2>1 DEF Sound, RequestsOwn
  <2>3. state'[d] = StateAt("clone") /\ \A e \in Deps \ {d} : state'[e] = state[e]
    BY <2>1 DEF Enter, StateAt, Sound, DeploymentsTyped
  <2>4. Passed("clone") = {} /\ NoKey \in PublicKeys(<<d, "clone">>) /\ "clone" \in Actions
    BY DEF Passed, PublicKeys, Actions
  <2>5. QED
    BY <2>1, <2>2, <2>3, <2>4, MutateStep
<1>2. ASSUME NEW c \in Callers, NEW d \in Deps, StartDelete(c, d) PROVE Serial'
  <2>1. /\ run[c].pc = "none" /\ \A b \in Callers : run[b].dep # d
        /\ \E p \in {"teardown", "teardown_only"} :
             run' = [run EXCEPT ![c] = [pc |-> p, dep |-> d, key |-> NoKey]]
        /\ call' = call /\ entry' = entry /\ state' = state
    BY <1>2 DEF StartDelete, MayStart, vars
  <2>2. /\ run'[c].pc \in {"teardown", "teardown_only"} /\ run'[c].dep = d
        /\ \A b \in Callers \ {c} : run'[b] = run[b]
    BY <2>1 DEF Sound, RequestsOwn
  <2>3. \A k \in Ops : call[c].op # k
    BY <2>1 DEF Serial, Recorded, Actions
  <2>4. Recorded(c)'
    BY <2>1, <2>2, <2>3 DEF Recorded, Actions, Passed, RunPcs
  <2>5. \A a \in {"clone", "configure", "start"} : state'[d] \in After(a) => Succeeded(d, a)'
    BY <2>1 DEF Serial, StateFollowsJournal, Succeeded
  <2>6. QED
    BY <2>1, <2>2, <2>4, <2>5, StepOfOne
<1>3. QED
  BY <1>1, <1>2, SerialRequestStep, SerialEnvironmentStep DEF DeployNext

LEMMA SerialInit == DeployInit => Serial
<1> SUFFICES ASSUME DeployInit PROVE Serial
  OBVIOUS
<1>1. \A c \in Callers : run[c].pc = "none" /\ \A k \in Ops : call[c].op # k
  BY OpParts DEF DeployInit, Init, NoRun, Returned
<1>2. \A c \in Callers : Recorded(c)
  BY <1>1 DEF Recorded, Actions, Passed, RunPcs
<1>3. \A d \in Deps : state[d] = "Queued"
  BY DEF DeployInit, L!Init
<1>4. QED
  BY <1>1, <1>2, <1>3 DEF Serial, OneRequestEach, StateFollowsJournal, After

LEMMA SoundAlways == DeploySpec => []Sound
<1>1. DeployInit => RequestsOwn /\ DeploymentsTyped
  BY RequestsAssumption
  DEF DeployInit, RequestsOwn, Run, Pcs, NoRun, DeploymentsTyped, L!Init, L!States
<1>2. DeploySpec => [](RequestsOwn /\ DeploymentsTyped)
  BY <1>1, RequestsStep, DeploymentsStep, PTL DEF DeploySpec
<1>3. DeploySpec => []IInv
  BY JournalImplemented, Invariance DEF FollowsJournal
<1>4. QED
  BY <1>2, <1>3, PTL DEF Sound

LEMMA SerialAlways == ~Overlap => (DeploySpec => [](Sound /\ Serial))
<1> SUFFICES ASSUME ~Overlap PROVE DeploySpec => [](Sound /\ Serial)
  OBVIOUS
<1>1. Sound /\ Serial /\ [DeployNext]_deployVars => Serial'
  BY SerialStep
<1>2. QED
  BY <1>1, SerialInit, SoundAlways, PTL DEF DeploySpec

(* The persisted state is past a step only when the journal has its        *)
(* operation as succeeded.                                                 *)
THEOREM StateCorrect == ~Overlap => (DeploySpec => []StateFollowsJournal)
<1>1. Serial => StateFollowsJournal
  BY DEF Serial
<1>2. QED
  BY <1>1, SerialAlways, PTL

-----------------------------------------------------------------------------
(* Requests for one deployment that may overlap.                           *)

(* The node was asked to clone, and a configure or a start ended well.     *)
Happened(d, a) ==
  IF a = "clone" THEN Issued(<<d, a>>) # {}
                 ELSE \E u \in Issued(<<d, a>>) : task[u].outcome = "ok"

RunSteps == {"clone", "configure", "start"}

(* The persisted state is never ahead of the node, however requests        *)
(* overlap: a deployment is past a step of run only when the node has      *)
(* executed that step's operation for it, and configured or started its VM *)
(* without an error.                                                       *)
PastStepsHappened ==
  \A d \in Deps, a \in RunSteps : state[d] \in After(a) => Happened(d, a)

(* Caller c works on the mutation its request is at, and what it has been  *)
(* told has succeeded has happened.                                        *)
Told(c) ==
  /\ \A k \in Ops : call[c].op = k =>
       run[c].pc \in Actions /\ k = <<run[c].dep, run[c].pc>>
  /\ run[c].pc \in RunSteps /\ call[c].pc = "idle" /\ call[c].res = "ok" =>
       Happened(run[c].dep, run[c].pc)
  /\ \A a \in Passed(run[c].pc) : Happened(run[c].dep, a)

AllTold == PastStepsHappened /\ \A c \in Callers : Told(c)

LEMMA HappenedStays ==
  ASSUME Sound, [DeployNext]_deployVars, NEW d \in Deps, NEW a \in RunSteps, Happened(d, a)
  PROVE  Happened(d, a)'
<1>1. LogGrows
  BY DeployStepIsJournalStep, StepGrowsLog DEF Sound, IInv
<1>2. <<d, a>> \in Ops
  BY DEF Ops, Actions, RunSteps
<1>3. QED
  BY <1>1, <1>2 DEF LogGrows, Happened

(* The same, of the deployment that the request of caller c is for.        *)
LEMMA OwnHappenedStays ==
  ASSUME Sound, [DeployNext]_deployVars, NEW c \in Callers, run[c].pc # "none",
         run'[c].dep = run[c].dep, NEW a \in RunSteps, Happened(run[c].dep, a)
  PROVE  Happened(run[c].dep, a)'
<1>1. PICK d \in Deps : d = run[c].dep /\ d = run'[c].dep
  BY DEF Sound, RequestsOwn
<1>2. Happened(d, a)'
  BY <1>1, HappenedStays
<1>3. QED
  BY <1>1, <1>2 DEF Happened

LEMMA SucceededHappened ==
  ASSUME Sound, DistinctTargets, NEW d \in Deps, NEW a \in RunSteps, Succeeded(d, a)
  PROVE  Happened(d, a)
<1>1. <<d, a>> \in Ops /\ <<d, a>>[2] = a
  BY DEF Ops, Actions, RunSteps
<1>2. QED
  BY <1>1 DEF Sound, IInv, SucceededIsTrue, Succeeded, Happened, RunSteps

(* A task that its poll found to have ended well.                          *)
LEMMA PolledHappened ==
  ASSUME Sound, NEW d \in Deps, NEW a \in RunSteps, NEW u \in Issued(<<d, a>>),
         PollTask(u) = "ok"
  PROVE  Happened(d, a)
<1>1. task[u] \in Task
  BY ElementOfSeq DEF Issued, Sound, IInv, TypeOK, PveTypeOK
<1>2. task[u].outcome = "ok"
  BY <1>1 DEF PollTask, Task, Outcomes
<1>3. QED
  BY <1>2 DEF Happened

LEMMA PassedAreSteps == \A p : Passed(p) \subseteq RunSteps /\ (Passed(p) # {} => p # "none")
  BY DEF Passed, RunSteps

(* What a caller that does not move has been told still holds.             *)
LEMMA ToldStays ==
  ASSUME Sound, [DeployNext]_deployVars, NEW c \in Callers, Told(c),
         run'[c] = run[c], call'[c] = call[c]
  PROVE  Told(c)'
<1>1. \A a \in RunSteps :
        run[c].pc # "none" /\ Happened(run[c].dep, a) => Happened(run[c].dep, a)'
  BY OwnHappenedStays
<1>2. run[c].pc \in RunSteps => run[c].pc # "none"
  BY DEF RunSteps
<1>3. \A a \in Passed(run[c].pc) : Happened(run[c].dep, a)'
  BY <1>1, PassedAreSteps DEF Told
<1>4. run[c].pc \in RunSteps /\ call[c].pc = "idle" /\ call[c].res = "ok" =>
        Happened(run[c].dep, run[c].pc)'
  <2> SUFFICES ASSUME run[c].pc \in RunSteps, call[c].pc = "idle", call[c].res = "ok"
               PROVE  Happened(run[c].dep, run[c].pc)'
    OBVIOUS
  <2>1. PICK a \in RunSteps : a = run[c].pc /\ a = run'[c].pc
    OBVIOUS
  <2>2. Happened(run[c].dep, a)'
    BY <1>1, <1>2, <2>1 DEF Told
  <2>3. QED
    BY <2>1, <2>2 DEF Happened
<1>5. QED
  BY <1>3, <1>4 DEF Told

(* A step of caller c: what the others have been told still holds.         *)
LEMMA ToldStepOfOne ==
  ASSUME Sound, AllTold, [DeployNext]_deployVars, NEW c \in Callers,
         \A b \in Callers \ {c} : run'[b] = run[b] /\ call'[b] = call[b],
         Told(c)',
         \A d \in Deps, a \in RunSteps :
           state'[d] \in After(a) => state[d] \in After(a) \/ Happened(d, a)
  PROVE  AllTold'
<1>1. PastStepsHappened'
  BY HappenedStays DEF AllTold, PastStepsHappened
<1>2. ASSUME NEW b \in Callers \ {c} PROVE Told(b)'
  <2>1. Told(b) /\ run'[b] = run[b] /\ call'[b] = call[b]
    BY DEF AllTold
  <2>2. QED
    BY <2>1, ToldStays
<1>3. QED
  BY <1>1, <1>2 DEF AllTold

(* A step of a request without a mutation, or its end.                     *)
LEMMA ToldQuietStep ==
  ASSUME Sound, AllTold, [DeployNext]_deployVars, NEW c \in Callers,
         run[c].pc # "none", call[c].pc = "idle", UNCHANGED vars,
         \A b \in Callers \ {c} : run'[b] = run[b],
         run'[c].pc \notin Actions, run'[c].pc # "none" => run'[c].dep = run[c].dep,
         \A e \in Deps \ {run[c].dep} : state'[e] = state[e],
         \A a \in RunSteps : state'[run[c].dep] \in After(a) =>
           state[run[c].dep] \in After(a) \/ Happened(run[c].dep, a),
         \A a \in Passed(run'[c].pc) : Happened(run[c].dep, a)
  PROVE  AllTold'
<1>1. run[c].dep \in Deps
  BY DEF Sound, RequestsOwn
<1>2. call' = call
  BY DEF vars
<1>3. \A k \in Ops : call[c].op # k
  BY CallFields, OpParts DEF Sound, IInv
<1>4. \A a \in Passed(run'[c].pc) : Happened(run[c].dep, a)'
  BY OwnHappenedStays, PassedAreSteps
<1>5. run'[c].pc \notin RunSteps
  BY DEF Actions, RunSteps
<1>6. Told(c)'
  BY <1>2, <1>3, <1>4, <1>5 DEF Told
<1>7. QED
  BY <1>1, <1>2, <1>6, ToldStepOfOne

(* A run or a deletion comes to its mutation a.                            *)
LEMMA ToldMutateStep ==
  ASSUME Sound, AllTold, DistinctTargets, [DeployNext]_deployVars, NEW c \in Callers,
         NEW d \in Deps, NEW a \in Actions, NEW g \in PublicKeys(<<d, a>>), Mutate(c, d, a, g),
         \A b \in Callers \ {c} : run'[b] = run[b],
         run'[c].pc = a, run'[c].dep = d,
         \A e \in Deps \ {d} : state'[e] = state[e],
         IF a = "delete" THEN state'[d] = state[d] ELSE state'[d] = StateAt(a),
         \A s \in Passed(a) : Happened(d, s)
  PROVE  AllTold'
<1>1. <<d, a>> \in Ops /\ call[c].op = NoOp /\ TypeOK /\ \A k \in Ops : k # NoOp
  BY CallFields, OpParts DEF Ops, Mutate, SkipSucceeded, SkipNeedsAttention, Begin, Idle,
     Sound, IInv
<1>2. /\ \A b \in Callers \ {c} : call'[b] = call[b]
      /\ \/ call'[c].op = NoOp /\ Succeeded(d, a)
         \/ call'[c].op = NoOp /\ call'[c].res = "failed"
         \/ call'[c].op = <<d, a>> /\ call'[c].pc = "issuing"
  BY <1>1 DEF Mutate, SkipSucceeded, SkipNeedsAttention, Begin, Return, Returned, TypeOK,
     JrnTypeOK, Succeeded
<1>3. \A s \in Passed(a) : Happened(d, s)'
  BY HappenedStays, PassedAreSteps
<1>4. a \in RunSteps /\ Succeeded(d, a) => Happened(d, a)'
  BY SucceededHappened, HappenedStays
<1>5. \A s \in RunSteps : Happened(d, s)' => Happened(run[c].dep, s)'
  BY DEF Happened
<1>6. Told(c)'
  <2>1. \A k \in Ops : call'[c].op = k => k = <<d, a>>
    BY <1>1, <1>2
  <2>2. \A s \in Passed(a) : Happened(run[c].dep, s)'
    BY <1>3, <1>5, PassedAreSteps
  <2>3. a \in RunSteps /\ call'[c].pc = "idle" /\ call'[c].res = "ok" =>
          Happened(run[c].dep, a)'
    BY <1>2, <1>4, <1>5
  <2>4. a \in RunSteps /\ call'[c].pc = "idle" /\ call'[c].res = "ok" =>
          Happened(run[c].dep, run[c].pc)'
    BY <2>3 DEF Happened
  <2>5. QED
    BY <2>1, <2>2, <2>4 DEF Told
<1>7. \A s \in RunSteps : state'[d] \in After(s) => state[d] \in After(s) \/ Happened(d, s)
  <2>1. a # "delete" => a \in RunPcs
    BY DEF Actions, RunPcs
  <2>2. QED
    BY <2>1, NotAhead DEF RunSteps
<1>8. QED
  BY <1>2, <1>6, <1>7, ToldStepOfOne

(* A step of runMutation.                                                  *)
LEMMA ToldMutationStep ==
  ASSUME Sound, AllTold, [DeployNext]_deployVars, NEW c \in Callers, MutationStep(c)
  PROVE  AllTold'
<1>1. PICK k \in Ops : k = call[c].op /\ call[c].pc # "idle"
  BY CallFields
  DEF MutationStep, CallStep, Arrive, IssueThrows, RecordUpid, PollEnds, PollThrows, Sound, IInv
<1>2. run[c].pc \in Actions /\ k = <<run[c].dep, run[c].pc>> /\ run[c].dep \in Deps
  BY <1>1 DEF AllTold, Told, Sound, RequestsOwn, Actions
<1>3. run' = run /\ state' = state
  BY DEF MutationStep
<1>4. \A b \in Callers \ {c} : call'[b] = call[b]
  BY <1>1 DEF MutationStep, CallStep, Arrive, IssueThrows, RecordUpid, PollEnds, PollThrows,
     Return, Sound, IInv, TypeOK, JrnTypeOK
<1>5. \/ call'[c].op = k /\ call'[c].pc # "idle"
      \/ call'[c].op = NoOp /\ call'[c].res \in {"failed", "threw"}
      \/ call'[c].op = NoOp /\ (run[c].pc \in RunSteps => Happened(run[c].dep, run[c].pc))
  <2>1. call \in [Callers -> Call] /\ call[c] \in Call
    BY DEF Sound, IInv, TypeOK, JrnTypeOK
  <2>2. CASE Arrive(c)
    BY <1>1, <2>1, <2>2 DEF Arrive, Call, Returned
  <2>3. CASE RecordUpid(c)
    BY <1>1, <2>1, <2>3 DEF RecordUpid, Call, Returned
  <2>4. CASE IssueThrows(c) \/ PollThrows(c)
    BY <1>1, <2>1, <2>4 DEF IssueThrows, PollThrows, Return, Returned
  <2>5. CASE PollEnds(c)
    <3>1. call[c].upid \in Issued(k)
      BY <1>1, <2>5 DEF PollEnds, Sound, IInv, CallsOwn
    <3>2. \/ PollTask(call[c].upid) = "ok" /\ Return(c, "ok")
          \/ Return(c, "failed")
      BY <2>5 DEF PollEnds
    <3>3. run[c].pc \in RunSteps /\ PollTask(call[c].upid) = "ok" =>
            Happened(run[c].dep, run[c].pc)
      BY <1>2, <3>1, PolledHappened
    <3>4. Return(c, "ok") => call'[c].op = NoOp
      BY <2>1 DEF Return, Returned
    <3>5. Return(c, "failed") => call'[c].op = NoOp /\ call'[c].res = "failed"
      BY <2>1 DEF Return, Returned
    <3>6. QED
      BY <3>2, <3>3, <3>4, <3>5
  <2>6. QED
    BY <2>2, <2>3, <2>4, <2>5 DEF MutationStep, CallStep
<1>6. \A a \in RunSteps : Happened(run[c].dep, a) => Happened(run[c].dep, a)'
  BY <1>2, <1>3, OwnHappenedStays DEF Actions
<1>7. \A a \in Passed(run[c].pc) : Happened(run[c].dep, a)'
  BY <1>6, PassedAreSteps DEF AllTold, Told
<1>8. \A j \in Ops : call'[c].op = j => j = k
  BY <1>5, OpParts
<1>9. run[c].pc \in RunSteps /\ call'[c].pc = "idle" /\ call'[c].res = "ok" =>
        Happened(run[c].dep, run[c].pc)'
  <2> SUFFICES ASSUME run[c].pc \in RunSteps, call'[c].pc = "idle", call'[c].res = "ok"
               PROVE  Happened(run[c].dep, run[c].pc)'
    OBVIOUS
  <2>1. PICK a \in RunSteps : a = run[c].pc /\ a = run'[c].pc
    BY <1>3
  <2>2. Happened(run[c].dep, a)'
    BY <1>5, <1>6, <2>1
  <2>3. QED
    BY <2>1, <2>2 DEF Happened
<1>10. Told(c)'
  BY <1>2, <1>3, <1>7, <1>8, <1>9 DEF Told
<1>11. QED
  BY <1>3, <1>4, <1>10, ToldStepOfOne

(* The server restarts or reconciles, the node goes on, or all crashes.    *)
LEMMA ToldEnvironmentStep ==
  ASSUME Sound, AllTold, [DeployNext]_deployVars,
         EnvironmentStep \/ CrashServer \/ UNCHANGED deployVars
  PROVE  AllTold'
<1>1. PastStepsHappened'
  BY HappenedStays
  DEF AllTold, PastStepsHappened, EnvironmentStep, CrashServer, deployVars, depVars
<1>2. CASE CrashServer
  <2>1. \A c \in Callers : run'[c] = NoRun /\ call'[c] = Returned("none")
    BY <1>2 DEF CrashServer, Crash
  <2>2. \A c \in Callers : run'[c].pc = "none" /\ \A k \in Ops : call'[c].op # k
    BY <2>1, OpParts DEF NoRun, Returned
  <2>3. \A c \in Callers : Told(c)'
    BY <2>2, PassedAreSteps DEF Told, RunSteps
  <2>4. QED
    BY <1>1, <2>3 DEF AllTold
<1>3. CASE EnvironmentStep \/ UNCHANGED deployVars
  <2>1. run' = run /\ call' = call
    BY <1>3 DEF EnvironmentStep, ServerStep, NodeStep, Restart, Inspect, Conclude, Listen, jrnVars,
       depVars, deployVars, serverVars
  <2>2. ASSUME NEW c \in Callers PROVE Told(c)'
    BY <2>1, ToldStays DEF AllTold
  <2>3. QED
    BY <1>1, <2>2 DEF AllTold
<1>4. QED
  BY <1>2, <1>3

(* A step of a request.                                                    *)
LEMMA ToldRequestStep ==
  ASSUME Sound, AllTold, DistinctTargets, [DeployNext]_deployVars, NEW c \in Callers,
         RequestStep(c)
  PROVE  AllTold'
<1> DEFINE d == run[c].dep
<1>1. ASSUME NEW p \in Pcs \ {"none"}, At(c, p)
      PROVE  /\ d \in Deps /\ run[c].pc = p /\ call[c].pc = "idle"
             /\ \A a \in Passed(p) : Happened(d, a)
             /\ p \in RunSteps /\ call[c].res = "ok" => Happened(d, p)
  BY <1>1 DEF At, Sound, RequestsOwn, AllTold, Told
<1>2. ASSUME NEW q \in Pcs, Goto(c, q)
      PROVE  /\ run'[c].pc = q /\ run'[c].dep = d
             /\ \A b \in Callers \ {c} : run'[b] = run[b]
  BY <1>2 DEF Goto, Sound, RequestsOwn, Run
<1>3. ASSUME NEW s, Enter(d, s), d \in Deps
      PROVE  state'[d] = s /\ \A e \in Deps \ {d} : state'[e] = state[e]
  BY <1>3 DEF Enter, Sound, DeploymentsTyped
<1>4. CASE GenerateKey(c)
  <2>1. At(c, "clone") /\ call[c].res = "ok" /\ state' = state /\ UNCHANGED vars
    BY <1>4 DEF GenerateKey
  <2>2. /\ run'[c].pc = "put" /\ run'[c].dep = d
        /\ \A b \in Callers \ {c} : run'[b] = run[b]
    BY <1>4 DEF GenerateKey, Sound, RequestsOwn, Run
  <2>3. Happened(d, "clone") /\ run[c].pc = "clone" /\ call[c].pc = "idle"
    BY <1>1, <2>1 DEF Pcs, RunSteps
  <2>4. Passed("put") = {"clone"} /\ "put" \notin Actions
    BY DEF Passed, Actions
  <2>5. QED
    BY <2>1, <2>2, <2>3, <2>4, ToldQuietStep
<1>5. CASE StoreKey(c) \/ ReadAddress(c)
  <2>1. PICK p \in {"put", "address"}, q \in {"stored", "reach"} :
          /\ At(c, p) /\ Goto(c, q) /\ state' = state /\ UNCHANGED vars
          /\ p = "put" <=> q = "stored"
    BY <1>5 DEF StoreKey, ReadAddress
  <2>2. q \notin Actions /\ q \in Pcs /\ Passed(q) = Passed(p) /\ p \in Pcs \ {"none"}
    BY <2>1 DEF Actions, Pcs, Passed
  <2>3. /\ run[c].pc # "none" /\ call[c].pc = "idle"
        /\ \A a \in Passed(q) : Happened(d, a)
    BY <1>1, <2>1, <2>2
  <2>4. run'[c].pc = q /\ run'[c].dep = d /\ \A b \in Callers \ {c} : run'[b] = run[b]
    BY <1>2, <2>1, <2>2
  <2>5. QED
    BY <2>1, <2>2, <2>3, <2>4, ToldQuietStep
<1>6. CASE Booted(c)
  <2>1. At(c, "start") /\ call[c].res = "ok" /\ Goto(c, "address") /\ state' = state /\ UNCHANGED vars
    BY <1>6 DEF Booted
  <2>2. /\ Happened(d, "start") /\ Happened(d, "clone") /\ Happened(d, "configure")
        /\ run[c].pc # "none" /\ call[c].pc = "idle"
    BY <1>1, <2>1 DEF Pcs, RunSteps, Passed
  <2>3. run'[c].pc = "address" /\ run'[c].dep = d /\ \A b \in Callers \ {c} : run'[b] = run[b]
    BY <1>2, <2>1 DEF Pcs
  <2>4. Passed("address") = {"clone", "configure", "start"} /\ "address" \notin Actions
    BY DEF Passed, Actions
  <2>5. QED
    BY <2>1, <2>2, <2>3, <2>4, ToldQuietStep
<1>7. CASE Reach(c) \/ Install(c) \/ CheckThenExpose(c)
  <2>1. PICK p \in {"reach", "install", "check"}, q \in {"install", "check", "expose"} :
          At(c, p) /\ Goto(c, q) /\ Enter(d, StateAt(q)) /\ UNCHANGED vars
    BY <1>7 DEF Reach, Install, CheckThenExpose, StateAt
  <2>2. /\ q \in RunPcs /\ q \notin Actions /\ q \in Pcs /\ p \in Pcs \ {"none"}
        /\ Passed(q) = RunSteps /\ Passed(p) = RunSteps
    BY DEF RunPcs, Actions, Pcs, Passed, RunSteps
  <2>3. /\ run[c].pc # "none" /\ call[c].pc = "idle" /\ d \in Deps
        /\ \A a \in RunSteps : Happened(d, a)
    BY <1>1, <2>1, <2>2
  <2>4. run'[c].pc = q /\ run'[c].dep = d /\ \A b \in Callers \ {c} : run'[b] = run[b]
    BY <1>2, <2>1, <2>2
  <2>5. \A e \in Deps \ {d} : state'[e] = state[e]
    BY <1>3, <2>1, <2>3
  <2>6. QED
    BY <2>1, <2>2, <2>3, <2>4, <2>5, ToldQuietStep
<1>8. CASE Configure(c) \/ Boot(c)
  <2>1. PICK p \in {"stored", "configure"}, q \in {"configure", "start"}, g \in GuestKeys \cup {NoKey} :
          /\ At(c, p) /\ Goto(c, q) /\ Enter(d, StateAt(q)) /\ Mutate(c, d, q, g)
          /\ p = "stored" => q = "configure" /\ g = run[c].key
          /\ p = "configure" => q = "start" /\ g = NoKey /\ call[c].res = "ok"
    BY <1>8 DEF Configure, Boot, StateAt, At, Sound, RequestsOwn
  <2>2. p \in Pcs \ {"none"} /\ q \in Pcs /\ q \in Actions /\ q # "delete"
    BY DEF Pcs, Actions
  <2>3. /\ run[c].pc = p /\ call[c].pc = "idle" /\ d \in Deps
        /\ \A a \in Passed(p) : Happened(d, a)
        /\ p = "configure" => Happened(d, "configure")
    BY <1>1, <2>1, <2>2 DEF RunSteps
  <2>4. run'[c].pc = q /\ run'[c].dep = d /\ \A b \in Callers \ {c} : run'[b] = run[b]
    BY <1>2, <2>1, <2>2
  <2>5. state'[d] = StateAt(q) /\ \A e \in Deps \ {d} : state'[e] = state[e]
    BY <1>3, <2>1, <2>3
  <2>6. \A s \in Passed(q) : Happened(d, s)
    BY <2>1, <2>3 DEF Passed
  <2>7. g \in PublicKeys(<<d, q>>)
    BY <2>1, <2>3 DEF PublicKeys, Sound, RequestsOwn
  <2>8. QED
    BY <2>1, <2>2, <2>3, <2>4, <2>5, <2>6, <2>7, ToldMutateStep
<1>9. CASE DeleteMachine(c)
  <2>1. At(c, "teardown") /\ Goto(c, "delete") /\ Mutate(c, d, "delete", NoKey) /\ state' = state
    BY <1>9 DEF DeleteMachine
  <2>2. d \in Deps
    BY <1>1, <2>1 DEF Pcs
  <2>3. run'[c].pc = "delete" /\ run'[c].dep = d /\ \A b \in Callers \ {c} : run'[b] = run[b]
    BY <1>2, <2>1 DEF Pcs
  <2>4. Passed("delete") = {} /\ NoKey \in PublicKeys(<<d, "delete">>) /\ "delete" \in Actions
    BY DEF Passed, PublicKeys, Actions
  <2>5. QED
    BY <2>1, <2>2, <2>3, <2>4, ToldMutateStep
<1>10. CASE \/ Finish(c) \/ StepFails(c) \/ StepThrows(c) \/ ConfigureThrows(c)
            \/ StoreKeyThrows(c) \/ TeardownThrows(c) \/ Forget(c) \/ ForgetThrows(c)
            \/ DeleteFails(c)
  <2>1. PICK p \in Pcs \ {"none"} : At(c, p)
    BY <1>10 DEF Finish, StepFails, StepThrows, ConfigureThrows,
       StoreKeyThrows, TeardownThrows, Forget, ForgetThrows, DeleteFails, Pcs
  <2>2. d \in Deps /\ run[c].pc # "none" /\ call[c].pc = "idle"
    BY <1>1, <2>1
  <2>3. Done(c) /\ UNCHANGED vars
    BY <1>10 DEF Finish, StepFails, StepThrows, ConfigureThrows,
       StoreKeyThrows, TeardownThrows, Forget, ForgetThrows, DeleteFails, Fail, Throw, EndRun
  <2>4. run'[c].pc = "none" /\ \A b \in Callers \ {c} : run'[b] = run[b]
    BY <2>3 DEF Done, NoRun, Sound, RequestsOwn
  <2>5. \/ state' = state
        \/ Enter(d, "Failed")
        \/ Enter(d, "Ready") /\ (At(c, "check") \/ At(c, "expose"))
        \/ Enter(d, "Configuring") /\ At(c, "stored")
    BY <1>10 DEF Finish, StepFails, StepThrows, ConfigureThrows,
       StoreKeyThrows, TeardownThrows, Forget, ForgetThrows, DeleteFails, Fail, Throw
  <2>6. \A e \in Deps \ {d} : state'[e] = state[e]
    BY <1>3, <2>2, <2>5
  <2>7. ASSUME NEW a \in RunSteps, state'[d] \in After(a)
        PROVE  state[d] \in After(a) \/ Happened(d, a)
    <3>1. CASE state' = state
      BY <2>7, <3>1
    <3>2. CASE Enter(d, "Failed")
      BY <1>3, <2>2, <2>7, <3>2 DEF After, RunSteps
    <3>3. CASE Enter(d, "Ready") /\ (At(c, "check") \/ At(c, "expose"))
      BY <1>1, <3>3 DEF Pcs, Passed, RunSteps
    <3>4. CASE Enter(d, "Configuring") /\ At(c, "stored")
      <4>1. a = "clone"
        BY <1>3, <2>2, <2>7, <3>4 DEF After, RunSteps
      <4>2. QED
        BY <1>1, <3>4, <4>1 DEF Pcs, Passed
    <3>5. QED
      BY <2>5, <3>1, <3>2, <3>3, <3>4
  <2>8. Passed("none") = {} /\ "none" \notin Actions
    BY DEF Passed, Actions
  <2>9. QED
    BY <2>2, <2>3, <2>4, <2>6, <2>7, <2>8, ToldQuietStep
<1>11. CASE MutationStep(c)
  BY <1>11, ToldMutationStep
<1>12. QED
  BY <1>4, <1>5, <1>6, <1>7, <1>8, <1>9, <1>10, <1>11 DEF RequestStep

LEMMA ToldStep ==
  ASSUME DistinctTargets, Sound, AllTold, [DeployNext]_deployVars
  PROVE  AllTold'
<1>1. ASSUME NEW c \in Callers, NEW d \in Deps, StartRun(c, d) PROVE AllTold'
  <2>1. /\ Mutate(c, d, "clone", NoKey) /\ Enter(d, "Cloning")
        /\ run' = [run EXCEPT ![c] = [pc |-> "clone", dep |-> d, key |-> NoKey]]
    BY <1>1 DEF StartRun
  <2>2. run'[c].pc = "clone" /\ run'[c].dep = d /\ \A b \in Callers \ {c} : run'[b] = run[b]
    BY <2>1 DEF Sound, RequestsOwn
  <2>3. state'[d] = StateAt("clone") /\ \A e \in Deps \ {d} : state'[e] = state[e]
    BY <2>1 DEF Enter, StateAt, Sound, DeploymentsTyped
  <2>4. Passed("clone") = {} /\ NoKey \in PublicKeys(<<d, "clone">>) /\ "clone" \in Actions
    BY DEF Passed, PublicKeys, Actions
  <2>5. QED
    BY <2>1, <2>2, <2>3, <2>4, ToldMutateStep
<1>2. ASSUME NEW c \in Callers, NEW d \in Deps, StartDelete(c, d) PROVE AllTold'
  <2>1. /\ run[c].pc = "none" /\ call' = call /\ state' = state
        /\ \E p \in {"teardown", "teardown_only"} :
             run' = [run EXCEPT ![c] = [pc |-> p, dep |-> d, key |-> NoKey]]
    BY <1>2 DEF StartDelete, MayStart, vars
  <2>2. /\ run'[c].pc \in {"teardown", "teardown_only"}
        /\ \A b \in Callers \ {c} : run'[b] = run[b]
    BY <2>1 DEF Sound, RequestsOwn
  <2>3. \A k \in Ops : call[c].op # k
    BY <2>1 DEF AllTold, Told, Actions
  <2>4. Passed(run'[c].pc) = {} /\ run'[c].pc \notin RunSteps
    BY <2>2 DEF Passed, RunSteps
  <2>5. Told(c)'
    BY <2>1, <2>3, <2>4 DEF Told
  <2>6. QED
    BY <2>1, <2>2, <2>5, ToldStepOfOne
<1>3. QED
  BY <1>1, <1>2, ToldRequestStep, ToldEnvironmentStep DEF DeployNext

LEMMA ToldInit == DeployInit => AllTold
<1> SUFFICES ASSUME DeployInit PROVE AllTold
  OBVIOUS
<1>1. \A c \in Callers : run[c].pc = "none" /\ \A k \in Ops : call[c].op # k
  BY OpParts DEF DeployInit, Init, NoRun, Returned
<1>2. \A c \in Callers : Told(c)
  BY <1>1, PassedAreSteps DEF Told, RunSteps
<1>3. \A d \in Deps : state[d] = "Queued"
  BY DEF DeployInit, L!Init
<1>4. QED
  BY <1>2, <1>3 DEF AllTold, PastStepsHappened, After, RunSteps

(* Where every deployment has a VM id of its own, the persisted state is   *)
(* never ahead of what the node has done, whether or not requests overlap. *)
THEOREM PastStepsCorrect == DistinctTargets => (DeploySpec => []PastStepsHappened)
<1> SUFFICES ASSUME DistinctTargets PROVE DeploySpec => []PastStepsHappened
  OBVIOUS
<1>1. Sound /\ AllTold /\ [DeployNext]_deployVars => AllTold'
  BY ToldStep
<1>2. AllTold => PastStepsHappened
  BY DEF AllTold
<1>3. QED
  BY <1>1, <1>2, ToldInit, SoundAlways, PTL DEF DeploySpec

-----------------------------------------------------------------------------
(* The lifecycle.                                                          *)

LEMMA RunStepIsLifecycleStep ==
  ASSUME Sound, Serial, NEW c \in Callers, RequestStep(c)
  PROVE  [L!Next]_state
<1> DEFINE d == run[c].dep
<1>1. ASSUME NEW p \in RunPcs, At(c, p) PROVE d \in Deps /\ state[d] = StateAt(p)
  BY <1>1 DEF At, RunPcs, Sound, RequestsOwn, Serial, Recorded
<1>2. ASSUME NEW p \in RunPcs, At(c, p), NEW to, Enter(d, to), L!CanTransition(StateAt(p), to)
      PROVE  L!Next
  <2>1. d \in Deps /\ to \in L!Forward[state[d]]
    BY <1>1, <1>2 DEF L!CanTransition
  <2>2. L!Advance(d)
    BY <1>2, <2>1 DEF Enter, L!Advance
  <2>3. QED
    BY <2>1, <2>2 DEF L!Next
<1>3. CASE UNCHANGED state
  BY <1>3
<1>4. CASE Fail(c) /\ StepFails(c)
  <2>1. PICK p \in RunPcs : At(c, p)
    BY <1>4 DEF StepFails, RunPcs
  <2>2. L!CanTransition(StateAt(p), "Failed")
    BY DEF RunPcs, StateAt, L!CanTransition, L!Forward
  <2>3. QED
    BY <1>2, <1>4, <2>1, <2>2 DEF Fail
<1>5. CASE Configure(c) \/ ConfigureThrows(c)
  <2>1. L!CanTransition(StateAt("stored"), "Configuring")
    BY DEF StateAt, L!CanTransition, L!Forward
  <2>2. QED
    BY <1>2, <1>5, <2>1 DEF Configure, ConfigureThrows, RunPcs
<1>6. CASE Boot(c) \/ Reach(c) \/ Install(c) \/ CheckThenExpose(c)
  <2>1. PICK p \in {"configure", "reach", "install", "check"} :
          At(c, p) /\ Enter(d, CASE p = "configure" -> "Booting" [] p = "reach" -> "Installing"
                                 [] p = "install" -> "Checking"  [] p = "check" -> "Exposing")
    BY <1>6 DEF Boot, Reach, Install, CheckThenExpose
  <2>2. L!CanTransition(StateAt(p),
          CASE p = "configure" -> "Booting" [] p = "reach" -> "Installing"
            [] p = "install" -> "Checking"  [] p = "check" -> "Exposing")
    BY DEF StateAt, L!CanTransition, L!Forward
  <2>3. p \in RunPcs
    BY DEF RunPcs
  <2>4. QED
    BY <1>2, <2>1, <2>2, <2>3
<1>7. CASE Finish(c)
  <2>1. PICK p \in {"check", "expose"} : At(c, p) /\ Enter(d, "Ready")
    BY <1>7 DEF Finish
  <2>2. L!CanTransition(StateAt(p), "Ready") /\ p \in RunPcs
    BY DEF StateAt, L!CanTransition, L!Forward, RunPcs
  <2>3. QED
    BY <1>2, <2>1, <2>2
<1>8. QED
  BY <1>3, <1>4, <1>5, <1>6, <1>7
  DEF RequestStep, GenerateKey, StoreKey, StoreKeyThrows, Booted, ReadAddress, StepFails,
      StepThrows, Throw, TeardownThrows, DeleteMachine, Forget, ForgetThrows, DeleteFails,
      MutationStep

(* As long as requests for one deployment do not overlap, what they        *)
(* persist implements the lifecycle of the transition table: every         *)
(* advance is one the table allows, and every run starts at Cloning.       *)
THEOREM LifecycleImplemented == ~Overlap => (DeploySpec => FollowsLifecycle)
<1> SUFFICES ASSUME ~Overlap PROVE DeploySpec => L!Spec
  BY DEF FollowsLifecycle
<1>1. DeployInit => L!Init
  BY DEF DeployInit
<1>2. Sound /\ Serial /\ [DeployNext]_deployVars => [L!Next]_state
  <2> SUFFICES ASSUME Sound, Serial, [DeployNext]_deployVars PROVE [L!Next]_state
    OBVIOUS
  <2>1. ASSUME NEW c \in Callers, NEW d \in Deps, StartRun(c, d) PROVE L!Next
    BY <2>1 DEF StartRun, Enter, L!Next, L!Rerun
  <2>2. ASSUME NEW c \in Callers, NEW d \in Deps, StartDelete(c, d) PROVE UNCHANGED state
    BY <2>2 DEF StartDelete
  <2>3. CASE EnvironmentStep \/ CrashServer \/ UNCHANGED deployVars
    BY <2>3 DEF EnvironmentStep, CrashServer, deployVars, depVars
  <2>4. QED
    BY <2>1, <2>2, <2>3, RunStepIsLifecycleStep DEF DeployNext
<1>3. QED
  BY <1>1, <1>2, SerialAlways, PTL DEF DeploySpec, L!Spec

-----------------------------------------------------------------------------
(* A deployment that is Ready is served.                                   *)

(* There is one shared SSH client, so only where requests come one at a    *)
(* time do the commands of a run go to its own VM.                         *)
OneAtATime == (\A b, c \in Callers : b = c) \/ (\A d, e \in Deps : d = e)

Connected == {"install", "check", "expose"}

Opened(d) == vm[Target[d]].status = "running" /\ vm[Target[d]].key = vault[d]

OpenedNext(d) == vm'[Target[d]].status = "running" /\ vm'[Target[d]].key = vault'[d]

(* The run that is connected opened its VM with the key of the vault; a    *)
(* deletion without a machine found no row of a clone.                     *)
Serving ==
  /\ \A v \in link : \E c \in Callers : run[c].pc \in Connected /\ v = Target[run[c].dep]
  /\ \A c \in Callers :
       /\ run[c].pc \in Connected => Opened(run[c].dep)
       /\ run[c].pc = "expose" => page[Target[run[c].dep]] = run[c].dep
       /\ run[c].pc = "teardown_only" => entry[<<run[c].dep, "clone">>].status = "none"
       /\ run[c].pc = "delete" => entry[<<run[c].dep, "delete">>].status # "none"
  /\ ReadyIsServed

(* How a request comes to where Serving says something of it.              *)
LEMMA HowItGetsThere ==
  ASSUME Sound, [DeployNext]_deployVars, NEW c \in Callers
  PROVE  \/ run'[c] = run[c]
         \/ run'[c].pc \notin Connected \cup {"teardown_only", "delete"}
         \/ /\ run'[c].dep = run[c].dep
            /\ \/ Reach(c) /\ run'[c].pc = "install"
               \/ Install(c) /\ run'[c].pc = "check"
               \/ CheckThenExpose(c) /\ run'[c].pc = "expose"
               \/ DeleteMachine(c) /\ run'[c].pc = "delete"
         \/ \E d \in Deps : /\ StartDelete(c, d) /\ ~Allocated(d)
                            /\ run'[c].pc = "teardown_only" /\ run'[c].dep = d
<1>1. run \in [Callers -> Run]
  BY DEF Sound, RequestsOwn
<1>2. CASE run' = run
  BY <1>2
<1>3. CASE CrashServer
  BY <1>3 DEF CrashServer, NoRun, Connected
<1>4. ASSUME NEW b \in Callers \ {c},
             (\E d \in Deps : StartRun(b, d) \/ StartDelete(b, d)) \/ RequestStep(b)
      PROVE  run'[c] = run[c]
  BY <1>1, <1>4
  DEF StartRun, StartDelete, RequestStep, GenerateKey, StoreKey, Configure, Boot, Booted,
      ReadAddress, Reach, Install, CheckThenExpose, Finish, StepFails, StepThrows,
      ConfigureThrows, StoreKeyThrows, TeardownThrows, DeleteMachine, Forget, ForgetThrows,
      DeleteFails, MutationStep, Fail,
      Throw, EndRun, Done, Goto
<1>5. ASSUME NEW d \in Deps, StartRun(c, d) PROVE run'[c].pc = "clone"
  BY <1>1, <1>5 DEF StartRun
<1>6. ASSUME NEW d \in Deps, StartDelete(c, d)
      PROVE  \/ run'[c].pc = "teardown"
             \/ ~Allocated(d) /\ run'[c].pc = "teardown_only" /\ run'[c].dep = d
  BY <1>1, <1>6 DEF StartDelete
<1>7. ASSUME NEW q \in Pcs, Goto(c, q) PROVE run'[c].pc = q /\ run'[c].dep = run[c].dep
  BY <1>1, <1>7 DEF Goto, Run
<1>8. CASE Reach(c) \/ Install(c) \/ CheckThenExpose(c) \/ DeleteMachine(c)
  BY <1>7, <1>8 DEF Reach, Install, CheckThenExpose, DeleteMachine, Pcs
<1>9. CASE StoreKey(c) \/ Configure(c) \/ Boot(c) \/ Booted(c) \/ ReadAddress(c)
  BY <1>7, <1>9 DEF StoreKey, Configure, Boot, Booted, ReadAddress, Pcs, Connected
<1>10. CASE GenerateKey(c)
  BY <1>1, <1>10 DEF GenerateKey, Connected, Run
<1>11. CASE \/ Finish(c) \/ StepFails(c) \/ StepThrows(c) \/ ConfigureThrows(c)
            \/ StoreKeyThrows(c) \/ TeardownThrows(c) \/ Forget(c) \/ ForgetThrows(c)
            \/ DeleteFails(c)
  <2>1. Done(c)
    BY <1>11 DEF Finish, StepFails, StepThrows, ConfigureThrows,
       StoreKeyThrows, TeardownThrows, Forget, ForgetThrows, DeleteFails, Fail, Throw, EndRun
  <2>2. QED
    BY <1>1, <2>1 DEF Done, NoRun, Connected
<1>12. CASE MutationStep(c) \/ EnvironmentStep \/ UNCHANGED deployVars
  BY <1>2, <1>12 DEF MutationStep, EnvironmentStep, depVars, deployVars
<1>13. QED
  BY <1>3, <1>4, <1>5, <1>6, <1>8, <1>9, <1>10, <1>11, <1>12
  DEF DeployNext, RequestStep, Connected

(* What a run that is not at a mutation, or not storing a key, leaves.     *)
LEMMA MachineStays ==
  ASSUME Sound, Serial, DistinctTargets, [DeployNext]_deployVars, NEW d \in Deps,
         \A c \in Callers : run[c].dep = d => run[c].pc \notin Actions
  PROVE  vm'[Target[d]] = vm[Target[d]]
<1>1. ASSUME NEW c \in Callers, NEW a \in Actions PROVE call[c].op # <<d, a>>
  <2>1. <<d, a>> \in Ops
    BY DEF Ops
  <2>2. call[c].op = <<d, a>> => run[c].pc \in Actions /\ run[c].dep = d
    BY <2>1 DEF Serial, Recorded
  <2>3. QED
    BY <2>2
<1>2. QED
  BY <1>1, DeployStepIsJournalStep, VmStays DEF Sound, IInv

LEMMA KeyStays ==
  ASSUME Sound, [DeployNext]_deployVars, NEW d \in Deps,
         \A c \in Callers : run[c].dep = d => run[c].pc \notin {"put", "teardown_only", "delete"}
  PROVE  vault'[d] = vault[d]
<1>1. CASE UNCHANGED vault
  BY <1>1
<1>2. ASSUME NEW c \in Callers,
             StoreKey(c) \/ StoreKeyThrows(c) \/ Forget(c) \/ ForgetThrows(c)
      PROVE  vault'[d] = vault[d]
  BY <1>2 DEF StoreKey, StoreKeyThrows, Forget, ForgetThrows, At, Sound, DeploymentsTyped
<1>3. QED
  BY <1>1, <1>2
  DEF DeployNext, StartRun, StartDelete, RequestStep, GenerateKey, Configure, Boot, Booted,
      ReadAddress, Reach, Install, CheckThenExpose, Finish, StepFails, StepThrows,
      ConfigureThrows, TeardownThrows, DeleteMachine, DeleteFails, MutationStep, Fail, Throw,
      EnvironmentStep, CrashServer, depVars, deployVars

LEMMA PageStays ==
  ASSUME Sound, [DeployNext]_deployVars, NEW v \in Vms, vm'[v].status # "absent",
         v \in link => \A c \in Callers : run[c].pc # "install"
  PROVE  page'[v] = page[v]
<1>1. CASE UNCHANGED page
  BY <1>1
<1>2. ASSUME NEW c \in Callers, Install(c) PROVE page'[v] = page[v]
  BY <1>2 DEF Install, RunCommands, At, Sound, DeploymentsTyped
<1>3. ASSUME NEW c \in Callers, MutationStep(c) PROVE page'[v] = page[v]
  BY <1>3 DEF MutationStep, GuestsFollow
<1>4. QED
  BY <1>1, <1>2, <1>3
  DEF DeployNext, StartRun, StartDelete, RequestStep, GenerateKey, StoreKey, Configure, Boot,
      Booted, ReadAddress, Reach, CheckThenExpose, Finish, StepFails, StepThrows,
      ConfigureThrows, StoreKeyThrows, TeardownThrows, DeleteMachine, Forget, ForgetThrows,
      DeleteFails, Fail, Throw,
      EnvironmentStep, CrashServer, depVars, deployVars

(* A row that a caller could only create by running d itself.              *)
LEMMA NoRowStays ==
  ASSUME Sound, Serial, Serial', [DeployNext]_deployVars, NEW c \in Callers, NEW d \in Deps,
         NEW a \in Actions, entry[<<d, a>>].status = "none",
         \A b \in Callers : run[b].dep = d => run[b].pc # a,
         \A b \in Callers : run'[b].dep = d => run'[b].pc # a
  PROVE  entry'[<<d, a>>].status = "none"
<1>1. <<d, a>> \in Ops
  BY DEF Ops
<1>2. ~Busy(<<d, a>>) /\ ~Busy(<<d, a>>)'
  BY <1>1 DEF Busy, Serial, Recorded
<1>3. QED
  BY <1>1, <1>2, IdleStays, DeployStepIsJournalStep DEF Sound, Unresolved

(* With one request at a time, the client is connected to the VM of the    *)
(* run that uses it.                                                       *)
LEMMA LinkIsOwn ==
  ASSUME OneAtATime, Sound, Serial, Serving, NEW c \in Callers, run[c].pc # "none"
  PROVE  /\ \A b \in Callers : run[b].pc # "none" => b = c
         /\ link # {} => run[c].pc \in Connected /\ link = {Target[run[c].dep]}
<1>1. \A b \in Callers : run[b].pc # "none" => b = c
  BY DEF OneAtATime, Sound, RequestsOwn, Serial, OneRequestEach
<1>2. \A v \in link : run[c].pc \in Connected /\ v = Target[run[c].dep]
  BY <1>1 DEF Serving, Connected
<1>3. QED
  BY <1>1, <1>2

LEMMA ServingStep ==
  ASSUME DistinctTargets, OneAtATime, Sound, Sound', Serial, Serial', Serving,
         [DeployNext]_deployVars
  PROVE  Serving'
<1>1. run \in [Callers -> Run] /\ vm \in [Vms -> Vm] /\ Target \in [Deps -> Vms]
  BY TargetAssumption DEF Sound, RequestsOwn, IInv, TypeOK, PveTypeOK
<1>2. /\ \A c \in Callers : run[c].pc # "none" => run[c].dep \in Deps
      /\ \A c \in Callers : run'[c].pc # "none" => run'[c].dep \in Deps
  BY DEF Sound, RequestsOwn
<1>3. ASSUME NEW c \in Callers, run[c].pc \in Connected
      PROVE  OpenedNext(run[c].dep)
  <2> DEFINE d == run[c].dep
  <2>1. d \in Deps /\ Opened(d)
    BY <1>2, <1>3 DEF Serving, Connected
  <2>2. \A b \in Callers : run[b].dep = d => run[b].pc \in Connected \cup {"none"}
    BY <1>3 DEF Serial, OneRequestEach, Connected
  <2>3. vm'[Target[d]] = vm[Target[d]]
    BY <2>1, <2>2, MachineStays DEF Connected, Actions
  <2>4. vault'[d] = vault[d]
    BY <2>1, <2>2, KeyStays DEF Connected
  <2>5. QED
    BY <2>1, <2>3, <2>4 DEF Opened, OpenedNext
<1>4. ASSUME NEW c \in Callers, run[c].pc = "expose"
      PROVE  page'[Target[run[c].dep]] = run[c].dep
  <2>1. run[c].dep \in Deps /\ page[Target[run[c].dep]] = run[c].dep
    BY <1>2, <1>4 DEF Serving
  <2>2. vm'[Target[run[c].dep]].status # "absent"
    BY <1>3, <1>4 DEF Opened, OpenedNext, Connected
  <2>3. \A b \in Callers : run[b].pc # "install"
    BY <1>4, LinkIsOwn
  <2>4. QED
    BY <1>1, <2>1, <2>2, <2>3, PageStays
<1>5. \A v \in link' : \E c \in Callers : run'[c].pc \in Connected /\ v = Target[run'[c].dep]
  <2>1. ASSUME NEW c \in Callers, Reach(c)
        PROVE  \A v \in link' : run'[c].pc \in Connected /\ v = Target[run'[c].dep]
    BY <1>1, <2>1 DEF Reach, Connect, Machine, Goto, Connected, Run
  <2>2. CASE link' = {}
    BY <2>2
  <2>3. CASE /\ link' \subseteq link
             /\ \A c \in Callers : run[c].pc \in Connected =>
                  run'[c].pc \in Connected /\ run'[c].dep = run[c].dep
    BY <2>3 DEF Serving
  <2>4. CASE run' = run /\ link' \subseteq link
    BY <2>3, <2>4
  <2>5. ASSUME NEW c \in Callers, run[c].pc \notin Connected, link' = link,
               \A b \in Callers \ {c} : run'[b] = run[b]
        PROVE  \A v \in link' : \E b \in Callers : run'[b].pc \in Connected /\ v = Target[run'[b].dep]
    BY <2>5 DEF Serving
  <2>6. ASSUME NEW c \in Callers, Install(c) \/ CheckThenExpose(c)
        PROVE  link' = link /\ \A b \in Callers : run[b].pc \in Connected =>
                                 run'[b].pc \in Connected /\ run'[b].dep = run[b].dep
    BY <1>1, <2>6 DEF Install, CheckThenExpose, Goto, Connected, Run
  <2>7. ASSUME NEW c \in Callers,
               \/ \E d \in Deps : StartRun(c, d) \/ StartDelete(c, d)
               \/ GenerateKey(c) \/ StoreKey(c) \/ Configure(c) \/ Boot(c) \/ Booted(c)
               \/ ReadAddress(c) \/ TeardownThrows(c) \/ DeleteMachine(c) \/ Forget(c)
               \/ ForgetThrows(c) \/ DeleteFails(c)
        PROVE  /\ run[c].pc \notin Connected /\ link' = link
               /\ \A b \in Callers \ {c} : run'[b] = run[b]
    BY <1>1, <2>7
    DEF StartRun, StartDelete, MayStart, GenerateKey, StoreKey, Configure, Boot, Booted,
        ReadAddress, TeardownThrows, DeleteMachine, Forget, ForgetThrows, DeleteFails, At,
        Connected, Goto, Done
  <2>8. ASSUME NEW c \in Callers,
               \/ Finish(c) \/ StepFails(c) \/ StepThrows(c)
               \/ ConfigureThrows(c) \/ StoreKeyThrows(c)
        PROVE  link' = {}
    BY <2>8 DEF Finish, StepFails, StepThrows, ConfigureThrows, StoreKeyThrows, Fail, Throw,
                EndRun, Close
  <2>9. ASSUME NEW c \in Callers, MutationStep(c) PROVE run' = run /\ link' \subseteq link
    BY <2>9 DEF MutationStep, GuestsFollow
  <2>10. CASE EnvironmentStep \/ CrashServer \/ UNCHANGED deployVars
    BY <2>2, <2>4, <2>10 DEF EnvironmentStep, CrashServer, Close, depVars, deployVars
  <2>11. QED
    BY <2>1, <2>2, <2>3, <2>4, <2>5, <2>6, <2>7, <2>8, <2>9, <2>10 DEF DeployNext, RequestStep
<1>6. ASSUME NEW c \in Callers
      PROVE  /\ run'[c].pc \in Connected => OpenedNext(run[c].dep) /\ run'[c].dep = run[c].dep
             /\ run'[c].pc = "expose" => page'[Target[run[c].dep]] = run[c].dep
  <2>1. CASE Reach(c) /\ run'[c].pc = "install" /\ run'[c].dep = run[c].dep
    BY <1>1, <2>1 DEF Reach, OpenedNext, Machine, vars
  <2>2. CASE (Install(c) \/ CheckThenExpose(c)) /\ run'[c].dep = run[c].dep
    <3>1. run[c].pc \in Connected
      BY <2>2 DEF Install, CheckThenExpose, At, Connected
    <3>2. run'[c].pc = "expose" => CheckThenExpose(c)
      BY <1>1, <2>2 DEF Install, Goto, Run
    <3>3. CheckThenExpose(c) => page'[Target[run[c].dep]] = run[c].dep
      <4>1. run[c].pc # "none"
        BY <3>1 DEF Connected
      <4>2. link # {} => link = {Target[run[c].dep]}
        BY <4>1, LinkIsOwn
      <4>3. QED
        BY <4>2 DEF CheckThenExpose, MarkerFound
    <3>4. QED
      BY <1>3, <2>2, <3>1, <3>2, <3>3
  <2>3. CASE run'[c] = run[c]
    BY <1>3, <1>4, <2>3
  <2>4. QED
    BY <2>1, <2>2, <2>3, HowItGetsThere DEF Connected
<1>7. ASSUME NEW c \in Callers, run'[c].pc = "teardown_only"
      PROVE  entry'[<<run'[c].dep, "clone">>].status = "none"
  <2> DEFINE d == run'[c].dep
  <2>1. d \in Deps /\ "clone" \in Actions
    BY <1>2, <1>7 DEF Actions
  <2>2. CASE run'[c] = run[c]
    <3>1. \A b \in Callers : run[b].dep = d => run[b].pc # "clone"
      BY <1>7, <2>2 DEF Serial, OneRequestEach
    <3>2. \A b \in Callers : run'[b].dep = d => run'[b].pc # "clone"
      BY <1>7 DEF Serial, OneRequestEach
    <3>3. entry[<<d, "clone">>].status = "none"
      BY <1>7, <2>2 DEF Serving
    <3>4. QED
      BY <2>1, <3>1, <3>2, <3>3, NoRowStays
  <2>3. CASE StartDelete(c, d) /\ ~Allocated(d)
    BY <2>3 DEF StartDelete, Allocated, vars
  <2>4. QED
    BY <1>7, <2>2, <2>3, HowItGetsThere DEF Connected
<1>8. ASSUME NEW c \in Callers, run'[c].pc = "delete"
      PROVE  entry'[<<run'[c].dep, "delete">>].status # "none"
  <2> DEFINE d == run'[c].dep
  <2>1. d \in Deps /\ <<d, "delete">> \in Ops
    BY <1>2, <1>8 DEF Ops, Actions
  <2>2. CASE run'[c] = run[c]
    BY <1>8, <2>1, <2>2, RowStays, DeployStepIsJournalStep DEF Serving, Sound
  <2>3. CASE DeleteMachine(c) /\ run'[c].dep = run[c].dep
    <3>1. entry \in [Ops -> Entry]
      BY DEF Sound, IInv, TypeOK, JrnTypeOK
    <3>2. Mutate(c, d, "delete", NoKey)
      BY <2>3 DEF DeleteMachine
    <3>3. QED
      BY <2>1, <3>1, <3>2 DEF Mutate, SkipSucceeded, SkipNeedsAttention, Begin, Entry
  <2>4. QED
    BY <1>8, <2>2, <2>3, HowItGetsThere DEF Connected
<1>9. ASSUME NEW d \in Deps, state'[d] = "Ready", entry'[<<d, "delete">>].status = "none"
      PROVE  vm'[Target[d]].status = "running" /\ page'[Target[d]] = d /\ OpenedNext(d)
  <2>1. entry[<<d, "delete">>].status = "none"
    BY <1>9, RowStays, DeployStepIsJournalStep DEF Sound, Ops, Actions
  <2>2. CASE state[d] = "Ready"
    <3>1. vm[Target[d]].status = "running" /\ page[Target[d]] = d /\ vm[Target[d]].key = vault[d]
      BY <2>1, <2>2 DEF Serving, ReadyIsServed
    <3>2. \A c \in Callers : run[c].dep = d => run[c].pc \notin RunPcs
      BY <2>2 DEF Serial, Recorded, RunPcs, StateAt
    <3>3. \A c \in Callers : run[c].dep = d => run[c].pc # "delete"
      BY <2>1 DEF Serving
    <3>4. entry[<<d, "clone">>].status = "succeeded"
      BY <2>2 DEF Serial, StateFollowsJournal, After, Succeeded
    <3>5. \A c \in Callers : run[c].dep = d => run[c].pc # "teardown_only"
      BY <3>4 DEF Serving
    <3>6. vm'[Target[d]] = vm[Target[d]]
      BY <3>2, <3>3, MachineStays DEF RunPcs, Actions
    <3>7. vault'[d] = vault[d]
      BY <3>2, <3>3, <3>5, KeyStays DEF RunPcs
    <3>8. Target[d] \notin link
      <4>1. ASSUME NEW c \in Callers, run[c].pc \in Connected, Target[d] = Target[run[c].dep]
            PROVE  FALSE
        <5>1. run[c].dep = d
          BY <1>2, <4>1 DEF DistinctTargets, Connected
        <5>2. QED
          BY <3>2, <4>1, <5>1 DEF RunPcs, Connected
      <4>2. QED
        BY <4>1 DEF Serving
    <3>9. page'[Target[d]] = page[Target[d]]
      BY <1>1, <3>1, <3>6, <3>8, PageStays
    <3>10. QED
      BY <3>1, <3>6, <3>7, <3>9 DEF Opened, OpenedNext
  <2>3. CASE state[d] # "Ready"
    <3>1. PICK c \in Callers : Finish(c) /\ run[c].dep = d
      BY <1>9, <2>3
      DEF DeployNext, StartRun, StartDelete, RequestStep, GenerateKey, StoreKey, Configure, Boot,
          Booted, ReadAddress, Reach, Install, CheckThenExpose, Finish, StepFails, StepThrows,
          ConfigureThrows, StoreKeyThrows, TeardownThrows, DeleteMachine, Forget, ForgetThrows,
          DeleteFails, MutationStep, Fail,
          Throw, Enter, Sound, DeploymentsTyped, EnvironmentStep, CrashServer, depVars, deployVars
    <3>2. run[c].pc \in {"check", "expose"} /\ run[c].pc # "none"
      BY <3>1 DEF Finish, At
    <3>3. OpenedNext(d)
      BY <1>3, <3>1, <3>2 DEF Connected
    <3>4. page' = page
      BY <3>1 DEF Finish
    <3>5. page[Target[d]] = d
      <4>1. CASE run[c].pc = "expose"
        BY <3>1, <4>1 DEF Serving
      <4>2. CASE run[c].pc = "check"
        <5>1. MarkerFound(c)
          BY <3>1, <4>2 DEF Finish, At
        <5>2. link # {} => link = {Target[d]}
          BY <3>1, <3>2, LinkIsOwn
        <5>3. QED
          BY <3>1, <5>1, <5>2 DEF MarkerFound
      <4>3. QED
        BY <3>2, <4>1, <4>2
    <3>6. QED
      BY <3>3, <3>4, <3>5 DEF Opened, OpenedNext
  <2>4. QED
    BY <2>2, <2>3
<1>10. ReadyIsServed'
  BY <1>9 DEF ReadyIsServed, OpenedNext
<1>11. \A c \in Callers : run'[c].pc \in Connected => OpenedNext(run'[c].dep)
  BY <1>6
<1>12. QED
  BY <1>5, <1>6, <1>7, <1>8, <1>10, <1>11 DEF Serving, Opened, OpenedNext, Connected

(* A deployment that is Ready and that nobody asked to delete runs, serves *)
(* its own page and is opened by its stored key, after any crash, retry or *)
(* late answer, where requests come one at a time.                         *)
THEOREM ReadyCorrect ==
  ~Overlap /\ OneAtATime /\ DistinctTargets => (DeploySpec => []ReadyIsServed)
<1> SUFFICES ASSUME ~Overlap, OneAtATime, DistinctTargets PROVE DeploySpec => []ReadyIsServed
  OBVIOUS
<1>1. DeployInit => Serving
  BY DEF DeployInit, NoRun, Serving, Connected, ReadyIsServed, L!Init
<1>2. /\ Sound /\ Serial /\ Serving /\ [DeployNext]_deployVars /\ Sound' /\ Serial'
      => Serving'
  BY ServingStep
<1>3. Serving => ReadyIsServed
  BY DEF Serving
<1>4. QED
  BY <1>1, <1>2, <1>3, SerialAlways, PTL DEF DeploySpec

-----------------------------------------------------------------------------
(* The functions of state-machine.ts that choose the next step agree with  *)
(* its transition table and with each other.                               *)

(* The steps one by one, for either kind of deployment.                    *)
LEMMA StepsAre ==
  ASSUME NEW h \in BOOLEAN
  PROVE  /\ Len(L!Steps(h)) = IF h THEN 6 ELSE 5
         /\ DOMAIN L!Steps(h) = 1..Len(L!Steps(h))
         /\ \A i \in 1..Len(L!Steps(h)) : L!Steps(h)[i] = L!StepOrder[i]
         /\ \A i \in 1..6, j \in 1..6 : L!StepOrder[i] = L!StepOrder[j] => i = j
<1>1. L!StepOrder \in Seq(L!States) /\ Len(L!StepOrder) = 6 /\ DOMAIN L!StepOrder = 1..6
  BY DEF L!StepOrder, L!States
<1>2. \A i \in 1..6, j \in 1..6 : L!StepOrder[i] = L!StepOrder[j] => i = j
  BY DEF L!StepOrder
<1>3. CASE h
  <2>1. L!Steps(h) = L!StepOrder
    BY <1>3 DEF L!Steps
  <2>2. Len(L!Steps(h)) = 6 /\ DOMAIN L!Steps(h) = 1..6
    BY <1>1, <2>1
  <2>3. QED
    BY <1>2, <1>3, <2>1, <2>2
<1>4. CASE ~h
  <2>1. L!Steps(h) = SubSeq(L!StepOrder, 1, 5)
    BY <1>4 DEF L!Steps
  <2>2. QED
    BY <1>1, <1>2, <1>4, <2>1
<1>5. QED
  BY <1>3, <1>4

(* No step comes twice.                                                    *)
LEMMA StepsDiffer ==
  ASSUME NEW h \in BOOLEAN, NEW i \in 1..Len(L!Steps(h)), NEW j \in 1..Len(L!Steps(h)),
         L!Steps(h)[i] = L!Steps(h)[j]
  PROVE  i = j
<1>1. Len(L!Steps(h)) = 5 \/ Len(L!Steps(h)) = 6
  BY StepsAre
<1>2. i \in 1..6 /\ j \in 1..6
  BY <1>1
<1>3. L!StepOrder[i] = L!StepOrder[j]
  BY StepsAre
<1>4. QED
  BY <1>2, <1>3, StepsAre

(* nextState is the step that comes next, and Ready after the last.        *)
LEMMA NextStateIs ==
  ASSUME NEW h \in BOOLEAN, NEW n \in 1..Len(L!Steps(h))
  PROVE  L!NextState(L!Steps(h)[n], h) =
           IF n = Len(L!Steps(h)) THEN "Ready" ELSE L!Steps(h)[n + 1]
<1> DEFINE after == {i \in 2..Len(L!Steps(h)) : L!Steps(h)[i - 1] = L!Steps(h)[n]}
<1>1. Len(L!Steps(h)) \in 5..6
  BY StepsAre
<1>2. \A i \in 1..Len(L!Steps(h)) : L!Steps(h)[i] = L!Steps(h)[n] => i = n
  BY StepsDiffer
<1>3. CASE n = Len(L!Steps(h))
  BY <1>3 DEF L!NextState
<1>4. CASE n # Len(L!Steps(h))
  <2>1. after = {n + 1}
    BY <1>1, <1>2, <1>4
  <2>2. L!Steps(h)[n] # L!Steps(h)[Len(L!Steps(h))]
    BY <1>1, <1>2, <1>4
  <2>3. (CHOOSE i \in after : TRUE) = n + 1 /\ after # {}
    BY <2>1
  <2>4. QED
    BY <1>4, <2>2, <2>3 DEF L!NextState
<1>5. QED
  BY <1>3, <1>4

(* What nextState goes to from a step is allowed by the transition table,  *)
(* with an exposure and without one.                                       *)
THEOREM AdvanceIsAllowed ==
  \A h \in BOOLEAN : \A n \in 1..Len(L!Steps(h)) :
    L!CanTransition(L!Steps(h)[n], L!NextState(L!Steps(h)[n], h))
<1> SUFFICES ASSUME NEW h \in BOOLEAN, NEW n \in 1..Len(L!Steps(h))
             PROVE  L!CanTransition(L!Steps(h)[n], L!NextState(L!Steps(h)[n], h))
  OBVIOUS
<1>1. n \in {1, 2, 3, 4, 5, 6} /\ (n = 6 => h) /\ (~h => n <= 5)
  BY StepsAre
<1>2. L!Steps(h)[n] = L!StepOrder[n]
  BY StepsAre
<1>3. L!NextState(L!Steps(h)[n], h) =
        IF n = Len(L!Steps(h)) THEN "Ready" ELSE L!StepOrder[n + 1]
  BY NextStateIs, StepsAre
<1>4. Len(L!Steps(h)) = IF h THEN 6 ELSE 5
  BY StepsAre
<1>5. QED
  BY <1>1, <1>2, <1>3, <1>4 DEF L!CanTransition, L!Forward, L!StepOrder

(* A retry after the first n steps are confirmed enters the state that the *)
(* normal advance enters after step n: computeRetryState and nextState     *)
(* agree whenever steps were confirmed in their order.                     *)
THEOREM RetryResumes ==
  \A h \in BOOLEAN : \A n \in 1..Len(L!Steps(h)) :
    L!ComputeRetryState({L!Steps(h)[i] : i \in 1..n}, h) = L!NextState(L!Steps(h)[n], h)
<1> SUFFICES ASSUME NEW h \in BOOLEAN, NEW n \in 1..Len(L!Steps(h))
             PROVE  L!ComputeRetryState({L!Steps(h)[i] : i \in 1..n}, h)
                      = L!NextState(L!Steps(h)[n], h)
  OBVIOUS
<1> DEFINE steps == L!Steps(h)
           open  == {i \in DOMAIN steps : steps[i] \notin {steps[j] : j \in 1..n}}
<1>1. Len(steps) \in 5..6 /\ DOMAIN steps = 1..Len(steps)
  BY StepsAre
<1>2. \A i, j \in 1..Len(steps) : steps[i] = steps[j] => i = j
  BY StepsDiffer
<1>3. open = (n + 1)..Len(steps)
  BY <1>1, <1>2
<1> HIDE DEF open
<1>4. CASE n = Len(steps)
  <2>1. open = {}
    BY <1>1, <1>3, <1>4
  <2>2. QED
    BY <1>4, <2>1, NextStateIs DEF L!ComputeRetryState, open
<1>5. CASE n # Len(steps)
  <2> DEFINE last == Len(steps)
  <2>1. last \in Nat
    BY <1>1
  <2>2. n \in 1..last /\ n # last
    BY <1>5
  <2>3. n \in Nat /\ n < last
    BY <2>1, <2>2
  <2>4. open = (n + 1)..last
    BY <1>3
  <2> HIDE DEF last
  <2>5. n + 1 \in open /\ \A j \in open : n + 1 <= j /\ j \in Nat
    BY <2>1, <2>3, <2>4
  <2>6. \A i \in open : (\A j \in open : i <= j) => i = n + 1
    BY <2>3, <2>5
  <2>7. (CHOOSE i \in open : \A j \in open : i <= j) = n + 1
    BY <2>5, <2>6
  <2>8. open # {}
    BY <2>5
  <2>9. QED
    BY <1>5, <2>7, <2>8, NextStateIs DEF L!ComputeRetryState, open
<1>6. QED
  BY <1>4, <1>5

(* Exactly the terminal states have no way on but a new run.               *)
THEOREM TerminalStatesRest ==
  \A s \in L!States : L!IsTerminal(s) <=> L!Forward[s] = {}
BY DEF L!States, L!IsTerminal, L!Forward
=============================================================================
