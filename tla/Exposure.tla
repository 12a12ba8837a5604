------------------------------- MODULE Exposure ------------------------------
(***************************************************************************)
(* Opening and closing the ports of one deployment along its router chain  *)
(* (packages/controller/src/exposure-orchestrator.ts): mappings are made   *)
(* from the innermost router outward, each is looked up again, a failure   *)
(* removes what this operation made, and a deletion removes all mappings   *)
(* from the outermost router inward before it deletes the VM.              *)
(*                                                                         *)
(* A router is driven by replays of workflows the user recorded, in its    *)
(* web interface: a replay may fail before or after the router did what it *)
(* is for, may report success though it did nothing, and may throw.  Rule  *)
(* names of deployments differ, so one deployment is enough.               *)
(***************************************************************************)
EXTENDS Naturals, FiniteSetsExt

CONSTANTS
  Clients,      \* requests that expose or delete the deployment
  Hops,         \* length of the chain; hop 1 is the innermost router
  Lookups,      \* the hops whose router was taught how to find a mapping
  Modes,        \* the modes the server may run in, "mock" and "real"
  Overlap,      \* whether requests overlap
  MaxRequests,  \* bound: requests
  MaxCrashes    \* bound: crashes

ASSUME HopsAssumption == Hops \in Nat \ {0} /\ Lookups \subseteq 1..Hops
ASSUME FlagsAssumption == Modes \subseteq {"mock", "real"} /\ Overlap \in BOOLEAN
ASSUME ExposureBounds == MaxRequests \in Nat /\ MaxCrashes \in Nat

Hop == 1..Hops

VARIABLES
  mode,      \* in mock mode a simulated NAT chain follows the mappings
  rule,      \* the hops whose router has the rule of the deployment
  forward,   \* the hops for which the simulated chain has a forward
  record,    \* record[h]: the row of mapping_record for hop h
  address,   \* whether the deployment has a public address
  deleted,   \* whether its VM is deleted
  call,      \* call[c]: where request c is
  had,       \* history: the mappings there were when the last apply began
  left,      \* history: the mappings whose removal threw in a rollback
  outcome,   \* history: how the last request ended
  requests, crashes

expVars == <<mode, rule, forward, record, address, deleted, call, had, left, outcome,
             requests, crashes>>
fixed   == <<mode, requests, crashes>>

(* mapped: the hops this request has mapped or, in a deletion, is to unmap.*)
Call == [op : {"none", "apply", "delete"},
         pc : {"idle", "login", "create", "created", "find", "unmap", "unmapped", "vm"},
         hop : 0..Hops, mapped : SUBSET Hop]

NoCall == [op |-> "none", pc |-> "idle", hop |-> 0, mapped |-> {}]

ExpTypeOK ==
  /\ mode \in Modes
  /\ rule \subseteq Hop /\ forward \subseteq Hop
  /\ record \in [Hop -> {"none", "applied", "verified", "removed"}]
  /\ address \in BOOLEAN /\ deleted \in BOOLEAN
  /\ call \in [Clients -> Call]
  /\ had \subseteq Hop /\ left \subseteq Hop
  /\ outcome \in {"none", "ok", "rolled_back", "threw", "deleted"}
  /\ requests \in 0..MaxRequests /\ crashes \in 0..MaxCrashes

ExpInit ==
  /\ mode \in Modes
  /\ rule = {} /\ forward = {}
  /\ record = [h \in Hop |-> "none"]
  /\ address = FALSE /\ deleted = FALSE
  /\ call = [c \in Clients |-> NoCall]
  /\ had = {} /\ left = {} /\ outcome = "none"
  /\ requests = 0 /\ crashes = 0

(* saveMapping, of the hop a request is at.                                *)
SaveMapping(c, status) == record' = [record EXCEPT ![call[c].hop] = status]

Active(h) == record[h] \in {"applied", "verified"}
Mapped    == {h \in Hop : Active(h)}
Busy      == \E c \in Clients : call[c].pc # "idle"

-----------------------------------------------------------------------------
(* apply.                                                                  *)

Starts(c) ==
  /\ call[c].pc = "idle"
  /\ Overlap \/ ~Busy
  /\ requests < MaxRequests
  /\ requests' = requests + 1

Ends(c, how) == call' = [call EXCEPT ![c] = NoCall] /\ outcome' = how
Goto(c, p)   == call' = [call EXCEPT ![c].pc = p] /\ UNCHANGED outcome

(* Mutant: the innermost first.                                            *)
UnmapInnermost(c, M) ==
  IF M # {}
  THEN /\ call' = [call EXCEPT ![c].pc = "unmap", ![c].hop = Min(M), ![c].mapped = M]
       /\ UNCHANGED outcome
  ELSE IF call[c].op = "apply" THEN Ends(c, "rolled_back") ELSE Goto(c, "vm")

(* Unmap the outermost of hops M next; when there is none, the rollback or *)
(* the teardown is over.                                                   *)
Unmap(c, M) ==
  IF M # {}
  THEN /\ call' = [call EXCEPT ![c].pc = "unmap", ![c].hop = Max(M), ![c].mapped = M]
       /\ UNCHANGED outcome
  ELSE IF call[c].op = "apply" THEN Ends(c, "rolled_back") ELSE Goto(c, "vm")

StartApply(c) ==
  /\ Starts(c)
  /\ call' = [call EXCEPT ![c] = [op |-> "apply", pc |-> "login", hop |-> 1,
                                   mapped |-> {}]]
  /\ had' = Mapped
  /\ UNCHANGED <<rule, forward, record, address, deleted, left, outcome, mode, crashes>>

(* The credentials from the vault and the login replay.                    *)
Login(c) ==
  /\ call[c].pc = "login"
  /\ Goto(c, "create") \/ Unmap(c, call[c].mapped)
  /\ UNCHANGED <<rule, forward, record, address, deleted, had, left, fixed>>

(* The create replay: what the router did and what the replay reports are  *)
(* two things.                                                             *)
CreateRule(c) ==
  /\ call[c].pc = "create"
  /\ rule' \in {rule, rule \cup {call[c].hop}}
  /\ Goto(c, "created") \/ Unmap(c, call[c].mapped)
  /\ UNCHANGED <<forward, record, address, deleted, had, left, fixed>>

(* Mutant: the hop is not put on the list of created mappings.             *)
RecordOnly(c) ==
  /\ call[c].pc = "created"
  /\ SaveMapping(c, "applied")
  /\ forward' = forward \cup (IF mode = "mock" THEN {call[c].hop} ELSE {})
  /\ call' = [call EXCEPT ![c].pc = "find"]
  /\ UNCHANGED <<rule, address, deleted, had, left, outcome, fixed>>

RecordApplied(c) ==
  /\ call[c].pc = "created"
  /\ SaveMapping(c, "applied")
  /\ forward' = forward \cup (IF mode = "mock" THEN {call[c].hop} ELSE {})
  /\ call' = [call EXCEPT ![c].pc = "find", ![c].mapped = @ \cup {call[c].hop}]
  /\ UNCHANGED <<rule, address, deleted, had, left, outcome, fixed>>

(* probeRule does not find the rule, or the page does not show it.         *)
NotFound(c) ==
  /\ call[c].pc = "find"
  /\ call[c].hop \in Lookups
  /\ Unmap(c, call[c].mapped)
  /\ UNCHANGED <<rule, forward, record, address, deleted, had, left, fixed>>

(* Mutant: the rule is not looked up.                                      *)
FoundUnseen(c) ==
  /\ call[c].pc = "find"
  /\ SaveMapping(c, "verified")
  /\ \/ /\ call[c].hop < Hops
        /\ call' = [call EXCEPT ![c].pc = "login", ![c].hop = @ + 1]
        /\ UNCHANGED <<address, outcome>>
     \/ /\ call[c].hop = Hops
        /\ mode = "mock" => forward = Hop
        /\ address' = TRUE
        /\ Ends(c, "ok")
  /\ UNCHANGED <<rule, forward, deleted, had, left, fixed>>

(* Mutant: one hop too many.                                               *)
FoundOneMore(c) ==
  /\ call[c].pc = "find"
  /\ call[c].hop \in Lookups => call[c].hop \in rule
  /\ SaveMapping(c, "verified")
  /\ call' = [call EXCEPT ![c].pc = "login", ![c].hop = @ + 1]
  /\ UNCHANGED <<rule, forward, address, deleted, had, left, outcome, fixed>>

(* The rule is there, or there is no way to look: go on outward, or, at    *)
(* the outermost router, probe the simulated chain and report the address. *)
Found(c) ==
  /\ call[c].pc = "find"
  /\ call[c].hop \in Lookups => call[c].hop \in rule
  /\ SaveMapping(c, "verified")
  /\ \/ /\ call[c].hop < Hops
        /\ call' = [call EXCEPT ![c].pc = "login", ![c].hop = @ + 1]
        /\ UNCHANGED <<address, outcome>>
     \/ /\ call[c].hop = Hops
        /\ mode = "mock" => forward = Hop
        /\ address' = TRUE
        /\ Ends(c, "ok")
     \/ /\ call[c].hop = Hops /\ mode = "mock"
        /\ Unmap(c, call[c].mapped)
        /\ UNCHANGED address
  /\ UNCHANGED <<rule, forward, deleted, had, left, fixed>>

(* An exception leaves apply without a rollback.                           *)
ApplyThrows(c) ==
  /\ call[c].pc \in {"login", "create", "find"}
  /\ rule' \in IF call[c].pc = "create" THEN {rule, rule \cup {call[c].hop}} ELSE {rule}
  /\ Ends(c, "threw")
  /\ UNCHANGED <<forward, record, address, deleted, had, left, fixed>>

-----------------------------------------------------------------------------
(* removeHop, in a rollback and in a deletion.                             *)

(* The login and the delete replay; nobody looks at what they report.      *)
DeleteRule(c) ==
  /\ call[c].pc = "unmap"
  /\ rule' \in {rule, rule \ {call[c].hop}}
  /\ Goto(c, "unmapped")
  /\ UNCHANGED <<forward, record, address, deleted, had, left, fixed>>

(* Mutant: only the outermost mapping is removed.                          *)
RecordRemovedAndStop(c) ==
  /\ call[c].pc = "unmapped"
  /\ SaveMapping(c, "removed")
  /\ forward' = forward \ {call[c].hop}
  /\ left' = left \ {call[c].hop}
  /\ Unmap(c, {})
  /\ UNCHANGED <<rule, address, deleted, had, fixed>>

(* Mutant: a removed mapping stays on the list.                            *)
RecordRemovedAgain(c) ==
  /\ call[c].pc = "unmapped"
  /\ SaveMapping(c, "removed")
  /\ forward' = forward \ {call[c].hop}
  /\ left' = left \ {call[c].hop}
  /\ Unmap(c, call[c].mapped)
  /\ UNCHANGED <<rule, address, deleted, had, fixed>>

RecordRemoved(c) ==
  /\ call[c].pc = "unmapped"
  /\ SaveMapping(c, "removed")
  /\ forward' = forward \ {call[c].hop}
  /\ left' = left \ {call[c].hop}
  /\ Unmap(c, call[c].mapped \ {call[c].hop})
  /\ UNCHANGED <<rule, address, deleted, had, fixed>>

(* A removal that throws: a rollback goes on, a deletion ends.             *)
UnmapThrows(c) ==
  /\ call[c].pc = "unmap"
  /\ rule' \in {rule, rule \ {call[c].hop}}
  /\ \/ /\ call[c].op = "apply"
        /\ left' = left \cup {call[c].hop}
        /\ Unmap(c, call[c].mapped \ {call[c].hop})
     \/ /\ call[c].op = "delete"
        /\ Ends(c, "threw")
        /\ UNCHANGED left
  /\ UNCHANGED <<forward, record, address, deleted, had, fixed>>

(* teardownForDelete: all hops of the plan, whatever is recorded of them.  *)
StartDelete(c) ==
  /\ Starts(c)
  /\ call' = [call EXCEPT ![c] = [op |-> "delete", pc |-> "unmap", hop |-> Hops,
                                   mapped |-> Hop]]
  /\ UNCHANGED <<rule, forward, record, address, deleted, had, left, outcome, mode, crashes>>

(* The journal deletes the VM (module Deployment), or fails to.            *)
DeleteVm(c) ==
  /\ call[c].pc = "vm"
  /\ \/ deleted' = TRUE /\ Ends(c, "deleted")
     \/ UNCHANGED deleted /\ Ends(c, "threw")
  /\ UNCHANGED <<rule, forward, record, address, had, left, fixed>>

-----------------------------------------------------------------------------
(* Nothing resumes a request.  The routers of mock mode are in memory.     *)
Crash ==
  /\ crashes < MaxCrashes
  /\ crashes' = crashes + 1
  /\ call' = [c \in Clients |-> NoCall]
  /\ forward' = {}
  /\ rule' = IF mode = "mock" THEN {} ELSE rule
  /\ outcome' = "threw"
  /\ UNCHANGED <<mode, record, address, deleted, had, left, requests>>

RequestStep(c) ==
  \/ Login(c) \/ CreateRule(c) \/ RecordApplied(c) \/ NotFound(c) \/ Found(c)
  \/ ApplyThrows(c) \/ DeleteRule(c) \/ RecordRemoved(c) \/ UnmapThrows(c)
  \/ DeleteVm(c)

ExpNext ==
  \/ \E c \in Clients : StartApply(c) \/ StartDelete(c) \/ RequestStep(c)
  \/ Crash

ExpSpec == ExpInit /\ [][ExpNext]_expVars

(* Replays end: a driver step that finds no element times out.             *)
FairExpSpec == ExpSpec /\ \A c \in Clients : WF_expVars(RequestStep(c))

-----------------------------------------------------------------------------
(* Properties.                                                             *)

(* If an exposure began with nothing mapped, no outer router is mapped     *)
(* unless the router inside it is, at every step of it, of its rollback    *)
(* and of a later deletion, after any crash; but for the mappings whose    *)
(* removal threw.                                                          *)
InnermostFirst ==
  had = {} => \A h \in Mapped \ left : h > 1 => Active(h - 1)

(* What a request reports is so: after a success every hop is verified,    *)
(* and its router has the rule where a lookup was taught;                  *)
(* after a rollback that began with nothing mapped, and after a deletion,  *)
(* nothing is recorded as mapped but what could not be removed.            *)
OutcomeIsTrue ==
  ~Busy =>
    /\ outcome = "ok" => \A h \in Hop : record[h] = "verified" /\ (h \in Lookups => h \in rule)
    /\ outcome = "rolled_back" /\ had = {} => Mapped \subseteq left
    /\ outcome = "deleted" => Mapped = {} /\ forward = {}

(* The VM is deleted only after every mapping of it is removed.            *)
UnmappedBeforeDelete ==
  [][deleted' # deleted => Mapped = {} /\ forward = {}]_expVars

(* Every exposure and every deletion ends.                                 *)
ExposureEnds == \A c \in Clients : call[c].pc # "idle" ~> call[c].pc = "idle"
=============================================================================
