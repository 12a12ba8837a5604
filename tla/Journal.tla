------------------------------- MODULE Journal -------------------------------
(***************************************************************************)
(* The operation journal (packages/controller/src/journal-service.ts, with *)
(* the operation table of packages/store/src/store.ts): every mutation of  *)
(* the Proxmox node is bracketed by a journal entry, its task is polled to *)
(* a result, and after a restart the unresolved entries are reconciled     *)
(* before the first request is served.                                     *)
(*                                                                         *)
(* A caller is one HTTP request being handled; handlers interleave at      *)
(* every await.  The table survives a crash, the callers do not.           *)
(***************************************************************************)
EXTENDS Proxmox

CONSTANTS
  Callers,     \* concurrent calls of runMutation
  Target,      \* Target[d]: the VM id of deployment d, template id + 1000
  Faults,      \* which faults of the environment can happen
  Serves,      \* Serves[c]: the operations caller c may ask for
  MaxBegun,    \* bound: mutations that are begun
  MaxCrashes   \* bound: crashes of the server

AllFaults == {"refused",      \* the node answers a mutation with an HTTP error
              "lost_answer",  \* it executes the mutation, the answer is lost
              "slow_task",    \* a task outlives the poll timeout
              "poll_error",   \* pollTask throws
              "api_down",     \* describeVm cannot reach the node
              "aged"}         \* a task has left the task list after a restart

ASSUME TargetAssumption == Target \in [Deps -> Vms]
ASSUME ServesAssumption == Serves \in [Callers -> SUBSET Ops]
ASSUME FaultsAssumption == Faults \subseteq AllFaults
ASSUME BoundsAssumption == MaxBegun \in Nat /\ MaxCrashes \in Nat

VARIABLES
  entry,    \* entry[k]: the row of the operation table with key k
  call,     \* call[c]: where caller c is in runMutation
  mode,     \* the server: "down", "reconciling" or "serving"
  todo,     \* the unresolved operations reconcile has still to visit
  seen,     \* what describeVm answered for the one it is visiting
  begun,    \* number of mutations begun so far
  crashes,  \* number of crashes so far
  past,     \* history: events that left the server unsure of an operation
  left      \* history: operations whose poll threw, and not taken up since

jrnVars == <<entry, call, mode, todo, seen, begun, crashes, past, left>>
vars    == <<vm, task, entry, call, mode, todo, seen, begun, crashes, past, left>>

Statuses   == {"none", "pending", "in_flight", "succeeded", "failed",
               "needs_attention"}
Unresolved == {"pending", "in_flight"}
NoOp       == <<>>

(* What can have happened to an operation; no action looks at it.          *)
Events == {"untold",      \* its answer was lost, its poll gave up or threw
           "overlapped",  \* it was begun while another call for it went on
           "cut",         \* a crash ended its retry while its row was failed
           "gone",        \* a lookup after a restart found no VM
           "unanswered"}  \* that lookup answered null though the VM was there

Had(k, e)  == <<k, e>> \in past
Note(k, e) == past' = past \cup {<<k, e>>}

(* Task id 0 stands for none.                                              *)
Entry == [status : Statuses, upid : Nat]
Seen  == [op : Ops, exists : BOOLEAN]

Returned(r) == [pc |-> "idle", op |-> NoOp, key |-> NoKey, upid |-> 0, res |-> r]
Call        == {Returned(r) : r \in {"none", "ok", "failed", "threw"}} \cup
               [pc : {"issuing", "sent", "polling"}, op : Ops,
                key : GuestKeys \cup {NoKey}, upid : Nat, res : {"none"}]

(* One type invariant for the node, the table and the callers.             *)
JrnTypeOK ==
  /\ entry \in [Ops -> Entry]
  /\ call \in [Callers -> Call]
  /\ mode \in {"down", "reconciling", "serving"}
  /\ todo \subseteq Ops
  /\ seen \subseteq Seen
  /\ begun \in 0..MaxBegun
  /\ crashes \in 0..MaxCrashes
  /\ past \subseteq Ops \X Events
  /\ left \subseteq Ops

TypeOK == PveTypeOK /\ JrnTypeOK

Init ==
  /\ PveInit
  /\ entry = [k \in Ops |-> [status |-> "none", upid |-> 0]]
  /\ call = [c \in Callers |-> Returned("none")]
  /\ mode = "down"
  /\ todo = {}
  /\ seen = {}
  /\ begun = 0
  /\ crashes = 0
  /\ past = {}
  /\ left = {}

-----------------------------------------------------------------------------
(* runMutation.                                                            *)

Busy(k)         == \E c \in Callers : call[c].op = k
SetStatus(k, s) == entry' = [entry EXCEPT ![k].status = s]
Return(c, r)    == call' = [call EXCEPT ![c] = Returned(r)]
serverVars      == <<mode, todo, seen, crashes>>

Idle(c, k) == mode = "serving" /\ call[c].pc = "idle" /\ k \in Serves[c]

(* The two early returns.                                                  *)
SkipSucceeded(c, k) ==
  /\ Idle(c, k)
  /\ entry[k].status = "succeeded"
  /\ Return(c, "ok")
  /\ UNCHANGED <<vm, task, entry, begun, serverVars, past, left>>

SkipNeedsAttention(c, k) ==
  /\ Idle(c, k)
  /\ entry[k].status = "needs_attention"
  /\ Return(c, "failed")
  /\ UNCHANGED <<vm, task, entry, begun, serverVars, past, left>>

(* Only a configure carries a public key.                                  *)
PublicKeys(k) == IF k[2] = "configure" THEN GuestKeys ELSE {NoKey}

(* Mutant: an operation that needs attention is retried.                   *)
BeginUnlessSucceeded(c, k, g) ==
  /\ Idle(c, k)
  /\ entry[k].status # "succeeded"
  /\ begun < MaxBegun
  /\ begun' = begun + 1
  /\ entry' = [entry EXCEPT ![k].status = IF @ = "none" THEN "pending" ELSE @]
  /\ call' = [call EXCEPT ![c] = [pc |-> "issuing", op |-> k, key |-> g,
                                   upid |-> 0, res |-> "none"]]
  /\ IF Busy(k) THEN Note(k, "overlapped") ELSE UNCHANGED past
  /\ left' = left \ {k}
  /\ UNCHANGED <<vm, task, serverVars>>

(* Everything up to the await of issue(): beginOperation returns the row   *)
(* that is there unchanged, whatever its status, and inserts a pending one *)
(* otherwise; the request is on its way.                                   *)
Begin(c, k, g) ==
  /\ Idle(c, k)
  /\ entry[k].status \notin {"succeeded", "needs_attention"}
  /\ begun < MaxBegun
  /\ begun' = begun + 1
  /\ entry' = [entry EXCEPT ![k].status = IF @ = "none" THEN "pending" ELSE @]
  /\ call' = [call EXCEPT ![c] = [pc |-> "issuing", op |-> k, key |-> g,
                                   upid |-> 0, res |-> "none"]]
  /\ IF Busy(k) THEN Note(k, "overlapped") ELSE UNCHANGED past
  /\ left' = left \ {k}
  /\ UNCHANGED <<vm, task, serverVars>>

(* The node executes the request and answers with the task id.             *)
Arrive(c) ==
  /\ call[c].pc = "issuing"
  /\ Execute(call[c].op, Target[call[c].op[1]], call[c].key)
  /\ call' = [call EXCEPT ![c].pc = "sent", ![c].upid = Len(task')]
  /\ UNCHANGED <<entry, begun, serverVars, past, left>>

(* issue() throws: the node refused, or the answer was lost on the way.    *)
IssueThrows(c) ==
  /\ \/ call[c].pc = "issuing" /\ "refused" \in Faults /\ UNCHANGED past
     \/ call[c].pc = "sent" /\ "lost_answer" \in Faults /\ Note(call[c].op, "untold")
  /\ SetStatus(call[c].op, "failed")
  /\ Return(c, "failed")
  /\ UNCHANGED <<vm, task, begun, serverVars, left>>

(* setOperationUpid, whatever status the row has by now.                   *)
RecordUpid(c) ==
  /\ call[c].pc = "sent"
  /\ entry' = [entry EXCEPT ![call[c].op] =
                  [status |-> "in_flight", upid |-> call[c].upid]]
  /\ call' = [call EXCEPT ![c].pc = "polling"]
  /\ UNCHANGED <<vm, task, begun, serverVars, past, left>>

(* Mutant: the poll loop has no timeout.                                   *)
PollEndsNoTimeout(c) ==
  /\ call[c].pc = "polling"
  /\ LET k == call[c].op
         r == PollTask(call[c].upid)
     IN  /\ r # "running"
         /\ SetStatus(k, IF r = "ok" THEN "succeeded" ELSE "failed")
         /\ Return(c, IF r = "ok" THEN "ok" ELSE "failed")
  /\ UNCHANGED <<vm, task, begun, serverVars, past, left>>

(* pollToResult returns a result: the task's own, or after the timeout an  *)
(* error of its own making while the task runs on.                         *)
PollEnds(c) ==
  /\ call[c].pc = "polling"
  /\ LET k == call[c].op
         r == PollTask(call[c].upid)
     IN  \/ /\ r = "ok"
            /\ SetStatus(k, "succeeded")
            /\ Return(c, "ok")
            /\ UNCHANGED past
         \/ /\ \/ r = "error" /\ UNCHANGED past
               \/ /\ r = "unknown" \/ (r = "running" /\ "slow_task" \in Faults)
                  /\ Note(k, "untold")
            /\ SetStatus(k, "failed")
            /\ Return(c, "failed")
  /\ UNCHANGED <<vm, task, begun, serverVars, left>>

(* pollTask throws: nothing in runMutation catches it.                     *)
PollThrows(c) ==
  /\ call[c].pc = "polling"
  /\ "poll_error" \in Faults
  /\ Return(c, "threw")
  /\ Note(call[c].op, "untold")
  /\ left' = left \cup {call[c].op}
  /\ UNCHANGED <<vm, task, entry, begun, serverVars>>

-----------------------------------------------------------------------------
(* The server process: crash, restart, reconcile.                          *)

Crash ==
  /\ mode # "down"
  /\ crashes < MaxCrashes
  /\ crashes' = crashes + 1
  /\ mode' = "down"
  /\ call' = [c \in Callers |-> Returned("none")]
  /\ todo' = {}
  /\ seen' = {}
  /\ past' = past \cup {<<k, "cut">> : k \in {j \in Ops :
                             Busy(j) /\ entry[j].status = "failed"}}
  /\ left' = {}
  /\ UNCHANGED <<vm, task, entry, begun>>

(* Mutant: only the entries that have no task id yet are reconciled.       *)
RestartPendingOnly ==
  /\ mode = "down"
  /\ mode' = "reconciling"
  /\ todo' = {k \in Ops : entry[k].status = "pending"}
  /\ UNCHANGED <<vm, task, entry, call, seen, begun, crashes, past, left>>

(* listUnresolvedOperations.                                               *)
Restart ==
  /\ mode = "down"
  /\ mode' = "reconciling"
  /\ todo' = {k \in Ops : entry[k].status \in Unresolved}
  /\ UNCHANGED <<vm, task, entry, call, seen, begun, crashes, past, left>>

(* The await of describeVm, which answers null on any HTTP error.          *)
Inspect(k) ==
  /\ mode = "reconciling"
  /\ k \in todo
  /\ seen = {}
  /\ \E e \in {Exists(Target[k[1]])}
             \cup (IF "api_down" \in Faults THEN {FALSE} ELSE {}) :
       /\ seen' = {[op |-> k, exists |-> e]}
       /\ CASE e                   -> UNCHANGED past
            [] ~Exists(Target[k[1]]) -> Note(k, "gone")
            [] OTHER                 -> Note(k, "unanswered")
  /\ UNCHANGED <<vm, task, entry, call, mode, todo, begun, crashes, left>>

(* Mutant: a deletion is taken for done, whether the VM is there or not.   *)
ByTargetTrusting(a, exists) ==
  CASE a = "clone"  -> IF exists THEN "succeeded" ELSE "failed"
    [] a = "delete" -> "succeeded"
    [] OTHER        -> IF exists THEN "unknown" ELSE "failed"

(* reconcileByTarget.                                                      *)
ByTarget(a, exists) ==
  CASE a = "clone"  -> IF exists THEN "succeeded" ELSE "failed"
    [] a = "delete" -> IF exists THEN "unknown" ELSE "succeeded"
    [] OTHER        -> IF exists THEN "unknown" ELSE "failed"

(* What the poll of a recorded task id answers; "threw" ends in the catch. *)
PollAnswers(u) ==
  (IF u = 0 THEN {"none"} ELSE {PollTask(u)})
    \cup (IF u # 0 /\ "poll_error" \in Faults THEN {"threw"} ELSE {})

(* Mutant: the verdict of the target is stored as it is.                   *)
VerdictUnmapped(byTarget, poll) ==
  CASE poll = "ok"    -> "succeeded"
    [] poll = "error" -> "failed"
    [] OTHER          -> byTarget

(* Mutant: only the task is asked, and what it does not confirm has failed. *)
VerdictOfTask(byTarget, poll) ==
  IF poll = "ok" THEN "succeeded" ELSE "failed"

Verdict(byTarget, poll) ==
  CASE byTarget = "succeeded" \/ poll = "ok" -> "succeeded"
    [] poll = "error"                        -> "failed"
    [] poll # "threw" /\ byTarget = "failed" -> "failed"
    [] OTHER                                 -> "needs_attention"

Conclude(k) ==
  /\ mode = "reconciling"
  /\ \E s \in seen :
       /\ s.op = k
       /\ \E p \in PollAnswers(entry[k].upid) :
            SetStatus(k, Verdict(ByTarget(k[2], s.exists), p))
  /\ seen' = {}
  /\ todo' = todo \ {k}
  /\ UNCHANGED <<vm, task, call, mode, begun, crashes, past, left>>

(* reconcileOnStartup returns and the server listens.                      *)
Listen ==
  /\ mode = "reconciling"
  /\ todo = {}
  /\ mode' = "serving"
  /\ UNCHANGED <<vm, task, entry, call, todo, seen, begun, crashes, past, left>>

-----------------------------------------------------------------------------
(* The node on its own.  A task ages out only over a time much longer than *)
(* a poll interval, so not while the server polls it.                      *)
NodeStep ==
  /\ \/ \E u \in DOMAIN task : FinishTask(u)
     \/ /\ mode = "down" /\ "aged" \in Faults
        /\ \E u \in DOMAIN task : AgeTask(u)
  /\ UNCHANGED jrnVars

CallStep(c) ==
  Arrive(c) \/ IssueThrows(c) \/ RecordUpid(c) \/ PollEnds(c) \/ PollThrows(c)

ServerStep ==
  \/ Restart
  \/ \E k \in Ops : Inspect(k) \/ Conclude(k)
  \/ Listen

Next ==
  \/ \E c \in Callers, k \in Ops :
       \/ SkipSucceeded(c, k)
       \/ SkipNeedsAttention(c, k)
       \/ \E g \in PublicKeys(k) : Begin(c, k, g)
  \/ \E c \in Callers : CallStep(c)
  \/ ServerStep
  \/ NodeStep
  \/ Crash

Spec == Init /\ [][Next]_vars

(* What a caller comes to without any fault of the environment but the     *)
(* slowness of a task.                                                     *)
Proceed(c) == Arrive(c) \/ RecordUpid(c) \/ PollEnds(c)

(* HTTP requests are answered, the poll loop runs, and the service manager *)
(* restarts the server; no fault is obliged to happen, nobody is obliged   *)
(* to call, and the node need not finish a task.                           *)
Fairness ==
  /\ \A c \in Callers : WF_vars(Proceed(c))
  /\ WF_vars(ServerStep)

FairSpec == Spec /\ Fairness

-----------------------------------------------------------------------------
(* Properties.                                                             *)

Settled   == {"succeeded", "needs_attention"}
Issued(k) == {u \in DOMAIN task : task[u].op = k}

(* Every deployment has a VM id of its own.                                *)
DistinctTargets == \A d, e \in Deps : Target[d] = Target[e] => d = e

(* The journal never claims what did not happen: an operation recorded as  *)
(* succeeded was executed by the node, a configure or a start ended well,  *)
(* and so did a deletion unless a restart found the VM gone; whatever      *)
(* crashed, timed out or was reconciled on the way.  A deletion recorded   *)
(* because the node did not answer the lookup is the one exception.        *)
SucceededIsTrue ==
  DistinctTargets =>
    \A k \in Ops : entry[k].status = "succeeded" =>
      \/ k[2] = "clone" /\ Issued(k) # {}
      \/ \E u \in Issued(k) : task[u].outcome = "ok"
      \/ k[2] = "delete" /\ (Had(k, "gone") \/ Had(k, "unanswered"))

(* While requests are served, an unresolved entry is one somebody is       *)
(* working on: no entry is left behind by a crash, a refusal or a timeout. *)
(* The only exception is one whose poll threw in this very process.        *)
UnresolvedIsOwned ==
  mode = "serving" =>
    \A k \in Ops : entry[k].status \in Unresolved =>
      Busy(k) \/ (entry[k].status = "in_flight" /\ k \in left)

(* A task id in the journal is that of a task of the very operation.       *)
RecordedTaskIsOwn ==
  \A k \in Ops :
    /\ entry[k].upid # 0 => entry[k].upid \in Issued(k)
    /\ entry[k].status = "in_flight" => entry[k].upid # 0

(* Once an operation has succeeded or needs attention, and no earlier call *)
(* for it is still under way, its row stays as it is and no request for it *)
(* is ever issued again.                                                   *)
SettledStays(k) ==
  entry[k].status \in Settled /\ ~Busy(k) =>
    entry'[k] = entry[k] /\ Issued(k)' = Issued(k) /\ ~Busy(k)'

SettledIsFinal == [][\A k \in Ops : SettledStays(k)]_vars

(* An operation nobody else is working on and that has reached the node is *)
(* begun again only if the journal recorded it as failed, or its poll      *)
(* threw.  If the node may have carried it out nevertheless, then because  *)
(* an answer was lost, a poll gave up or threw, calls overlapped, a crash  *)
(* cut a retry, or its VM was not found: a crash of a first attempt and    *)
(* its reconciliation alone never repeat what was done.                    *)
BegunAgain(k) == ~Busy(k) /\ Busy(k)' /\ Issued(k) # {}

BegunAgainAfterFailure ==
  [][\A k \in Ops : BegunAgain(k) =>
       /\ \/ entry[k].status = "failed"
          \/ entry[k].status = "in_flight" /\ k \in left
       /\ \/ \A u \in Issued(k) : task[u].outcome = "error"
          \/ \E e \in Events : Had(k, e)]_vars

(* Every call of runMutation returns, also when the node never answers or  *)
(* never finishes the task, and every restart comes to serve again,        *)
(* whatever the lookups and polls of the reconciliation answer.            *)
CallsReturn ==
  /\ \A c \in Callers : call[c].pc # "idle" ~> call[c].pc = "idle"
  /\ mode # "serving" ~> mode = "serving"

-----------------------------------------------------------------------------
(* What comments of the code say and the code does not do.                 *)

(* "so a crash never causes a duplicate mutation" (journal-service.ts:2):  *)
(* no request is executed after one for the same operation ended well.     *)
CrashNeverDuplicates ==
  [][\A k \in Ops : Issued(k)' # Issued(k) =>
       \A u \in Issued(k) : task[u].outcome = "error"]_vars
=============================================================================
