--------------------------- MODULE ExposureProofs -----------------------------
(***************************************************************************)
(* Proofs about module Exposure, for a chain of any length, any number of  *)
(* requests and crashes, and any set of routers that can be looked up: its *)
(* types and, where requests do not overlap, that mappings are made from   *)
(* the innermost router outward, that outcomes are true and that the VM is *)
(* deleted after its mappings; where they do, that no router is skipped.   *)
(***************************************************************************)
EXTENDS Exposure, TLAPS

(* The hops a request has mapped, or is to unmap, are the innermost ones   *)
(* up to the one it is at.                                                 *)
CallOK(k) ==
  /\ k.pc = "idle" <=> k.op = "none"
  /\ k.pc \in {"login", "create", "created"} =>
       k.op = "apply" /\ k.hop \in Hop /\ k.mapped = 1..(k.hop - 1)
  /\ k.pc = "find" => k.op = "apply" /\ k.hop \in Hop /\ k.mapped = 1..k.hop
  /\ k.pc \in {"unmap", "unmapped"} => k.hop \in Hop /\ k.mapped = 1..k.hop
  /\ k.pc = "vm" => k.op = "delete"

ExpInv == ExpTypeOK /\ \A c \in Clients : CallOK(call[c])

-----------------------------------------------------------------------------
(* Segments of the chain.                                                  *)

LEMMA MaxOfSegment == \A n \in Nat \ {0} : Max(1..n) = n
  BY DEF Max

LEMMA Segments ==
  ASSUME NEW n \in Hop
  PROVE  /\ (1..n) \ {n} = 1..(n - 1)
         /\ (1..(n - 1)) \cup {n} = 1..n
         /\ 1..n \subseteq Hop /\ 1..(n - 1) \subseteq Hop
         /\ 1..n # {} /\ n - 1 \in 0..Hops /\ n \in 0..Hops
  BY HopsAssumption DEF Hop

LEMMA NoSegment == 1..0 = {}
  OBVIOUS

(* A call that changes in several fields.                                  *)
LEMMA CallFields ==
  ASSUME NEW k \in Call, NEW p, NEW h, NEW m
  PROVE  /\ [k EXCEPT !.pc = p, !.mapped = m]
              = [op |-> k.op, pc |-> p, hop |-> k.hop, mapped |-> m]
         /\ [k EXCEPT !.pc = p, !.hop = h]
              = [op |-> k.op, pc |-> p, hop |-> h, mapped |-> k.mapped]
         /\ [k EXCEPT !.pc = p]
              = [op |-> k.op, pc |-> p, hop |-> k.hop, mapped |-> k.mapped]
<1> DEFINE a == [op |-> k.op, pc |-> p, hop |-> k.hop, mapped |-> k.mapped]
           b == [op |-> k.op, pc |-> p, hop |-> h, mapped |-> k.mapped]
<1>1. [k EXCEPT !.pc = p] = a
  BY DEF Call
<1>2. [a EXCEPT !.hop = h] = b
  OBVIOUS
<1>3. [a EXCEPT !.mapped = m] = [op |-> k.op, pc |-> p, hop |-> k.hop, mapped |-> m]
  OBVIOUS
<1>4. /\ [k EXCEPT !.pc = p, !.hop = h] = [[k EXCEPT !.pc = p] EXCEPT !.hop = h]
      /\ [k EXCEPT !.pc = p, !.mapped = m] = [[k EXCEPT !.pc = p] EXCEPT !.mapped = m]
  OBVIOUS
<1> HIDE DEF a, b
<1>5. /\ [[k EXCEPT !.pc = p] EXCEPT !.hop = h] = b
      /\ [[k EXCEPT !.pc = p] EXCEPT !.mapped = m] = [a EXCEPT !.mapped = m]
  BY <1>1, <1>2
<1>6. QED
  BY <1>1, <1>3, <1>4, <1>5 DEF a, b

(* What is left to unmap is a segment: go on with its outermost hop, or    *)
(* end the rollback or the teardown.                                       *)
LEMMA UnmapSegment ==
  ASSUME ExpInv, NEW c \in Clients, NEW n \in 0..Hops, Unmap(c, 1..n),
         call[c].op \in {"apply", "delete"}
  PROVE  \/ /\ n \in Hop /\ outcome' = outcome
            /\ call' = [call EXCEPT ![c] = [op |-> call[c].op, pc |-> "unmap", hop |-> n,
                                            mapped |-> 1..n]]
         \/ /\ n = 0 /\ call[c].op = "apply" /\ outcome' = "rolled_back"
            /\ call' = [call EXCEPT ![c] = NoCall]
         \/ /\ n = 0 /\ call[c].op = "delete" /\ outcome' = outcome
            /\ call' = [call EXCEPT ![c] = [op |-> "delete", pc |-> "vm", hop |-> call[c].hop,
                                            mapped |-> call[c].mapped]]
<1>1. call[c] = [op |-> call[c].op, pc |-> call[c].pc, hop |-> call[c].hop,
                 mapped |-> call[c].mapped]
  BY DEF ExpInv, ExpTypeOK, Call
<1>2. CASE n = 0
  <2>1. 1..n = {}
    BY <1>2
  <2>2. CASE call[c].op = "apply"
    BY <1>2, <2>1, <2>2 DEF Unmap, Ends
  <2>3. CASE call[c].op = "delete"
    <3>1. outcome' = outcome /\ call' = [call EXCEPT ![c] = [call[c] EXCEPT !.pc = "vm"]]
      BY <2>1, <2>3 DEF Unmap, Goto
    <3>2. [call[c] EXCEPT !.pc = "vm"] = [op |-> "delete", pc |-> "vm", hop |-> call[c].hop,
                                          mapped |-> call[c].mapped]
      BY <1>1, <2>3
    <3>3. QED
      BY <1>2, <2>3, <3>1, <3>2
  <2>4. QED
    BY <2>2, <2>3
<1>3. CASE n # 0
  <2>1. n \in Hop /\ n \in Nat \ {0}
    BY <1>3, HopsAssumption DEF Hop
  <2>2. 1..n # {} /\ Max(1..n) = n
    BY <2>1, MaxOfSegment, Segments
  <2>3. /\ outcome' = outcome
        /\ call' = [call EXCEPT ![c] = [call[c] EXCEPT !.pc = "unmap", !.hop = n,
                                                       !.mapped = 1..n]]
    BY <2>2 DEF Unmap
  <2>4. [call[c] EXCEPT !.pc = "unmap", !.hop = n, !.mapped = 1..n]
          = [op |-> call[c].op, pc |-> "unmap", hop |-> n, mapped |-> 1..n]
    <3>1. call[c] \in Call
      BY DEF ExpInv, ExpTypeOK
    <3> DEFINE b == [op |-> call[c].op, pc |-> "unmap", hop |-> n, mapped |-> call[c].mapped]
    <3>2. [call[c] EXCEPT !.pc = "unmap", !.hop = n] = b
      BY ONLY <3>1, CallFields, Zenon
    <3>3. [b EXCEPT !.mapped = 1..n]
            = [op |-> call[c].op, pc |-> "unmap", hop |-> n, mapped |-> 1..n]
      OBVIOUS
    <3>4. [call[c] EXCEPT !.pc = "unmap", !.hop = n, !.mapped = 1..n]
            = [[call[c] EXCEPT !.pc = "unmap", !.hop = n] EXCEPT !.mapped = 1..n]
      OBVIOUS
    <3> HIDE DEF b
    <3>5. QED
      BY <3>2, <3>3, <3>4
  <2>5. QED
    BY <2>1, <2>3, <2>4
<1>4. QED
  BY <1>2, <1>3

-----------------------------------------------------------------------------
(* Types.                                                                  *)

(* The next call of the one request that moves.                            *)
LEMMA CallStep ==
  ASSUME ExpInv, NEW c \in Clients, NEW k \in Call, CallOK(k),
         call' = [call EXCEPT ![c] = k]
  PROVE  /\ call' \in [Clients -> Call] /\ \A d \in Clients : CallOK(call'[d])
         /\ call'[c] = k /\ \A d \in Clients \ {c} : call'[d] = call[d]
  BY DEF ExpInv, ExpTypeOK

LEMMA UnmapStep ==
  ASSUME ExpInv, NEW c \in Clients, NEW n \in 0..Hops, Unmap(c, 1..n),
         call[c].op \in {"apply", "delete"}
  PROVE  /\ call' \in [Clients -> Call] /\ \A d \in Clients : CallOK(call'[d])
         /\ outcome' \in {outcome, "rolled_back"}
<1>1. call[c] \in Call
  BY DEF ExpInv, ExpTypeOK
<1>2. CASE n \in Hop
  <2>1. 1..n \in SUBSET Hop /\ n \in 0..Hops
    BY <1>2, Segments
  <2>2. [op |-> call[c].op, pc |-> "unmap", hop |-> n, mapped |-> 1..n] \in Call
    BY <2>1 DEF Call
  <2>3. CallOK([op |-> call[c].op, pc |-> "unmap", hop |-> n, mapped |-> 1..n])
    BY <1>2 DEF CallOK
  <2>4. n # 0
    BY <1>2 DEF Hop
  <2>5. QED
    BY <2>2, <2>3, <2>4, CallStep, UnmapSegment
<1>3. CASE n \notin Hop
  <2>1. NoCall \in Call /\ CallOK(NoCall)
    BY HopsAssumption DEF NoCall, Call, CallOK
  <2>2. [op |-> "delete", pc |-> "vm", hop |-> call[c].hop, mapped |-> call[c].mapped] \in Call
    BY <1>1 DEF Call
  <2>3. CallOK([op |-> "delete", pc |-> "vm", hop |-> call[c].hop, mapped |-> call[c].mapped])
    BY DEF CallOK
  <2>4. QED
    BY <1>3, <2>1, <2>2, <2>3, CallStep, UnmapSegment
<1>4. QED
  BY <1>2, <1>3

(* Going on within a hop keeps the hop and the list.                       *)
LEMMA GotoStep ==
  ASSUME ExpInv, NEW c \in Clients, NEW p \in {"create", "created", "unmapped"},
         call[c].pc = (IF p = "create" THEN "login" ELSE IF p = "created" THEN "create"
                       ELSE "unmap"),
         Goto(c, p)
  PROVE  /\ call' \in [Clients -> Call] /\ \A d \in Clients : CallOK(call'[d])
         /\ outcome' = outcome
         /\ call'[c] = [op |-> call[c].op, pc |-> p, hop |-> call[c].hop,
                        mapped |-> call[c].mapped]
         /\ \A d \in Clients \ {c} : call'[d] = call[d]
<1> DEFINE k == [op |-> call[c].op, pc |-> p, hop |-> call[c].hop, mapped |-> call[c].mapped]
<1>1. call[c] \in Call /\ CallOK(call[c])
  BY DEF ExpInv, ExpTypeOK
<1>2. call' = [call EXCEPT ![c] = [call[c] EXCEPT !.pc = p]] /\ outcome' = outcome
  BY DEF Goto
<1>3. [call[c] EXCEPT !.pc = p] = k
  BY <1>1 DEF Call
<1>4. k \in Call /\ CallOK(k)
  BY <1>1 DEF Call, CallOK
<1>5. QED
  BY <1>2, <1>3, <1>4, CallStep

LEMMA EndStep ==
  ASSUME ExpInv, NEW c \in Clients, NEW how, Ends(c, how)
  PROVE  /\ call' \in [Clients -> Call] /\ \A d \in Clients : CallOK(call'[d])
         /\ outcome' = how /\ call'[c] = NoCall
         /\ \A d \in Clients \ {c} : call'[d] = call[d]
<1>1. NoCall \in Call /\ CallOK(NoCall)
  BY HopsAssumption DEF NoCall, Call, CallOK
<1>2. QED
  BY <1>1, CallStep DEF Ends

Outcomes == {"none", "ok", "rolled_back", "threw", "deleted"}

(* What each kind of step does to the calls and the outcome.               *)
LEMMA StepCalls ==
  ASSUME ExpInv, NEW c \in Clients, StartApply(c) \/ StartDelete(c) \/ RequestStep(c)
  PROVE  /\ call' \in [Clients -> Call] /\ \A d \in Clients : CallOK(call'[d])
         /\ outcome' \in Outcomes
<1>1. outcome \in Outcomes /\ call[c] \in Call /\ CallOK(call[c])
  BY DEF ExpInv, ExpTypeOK, Outcomes
<1>2. 1 \in Hop /\ Hops \in Hop /\ Hop = 1..Hops
  BY HopsAssumption DEF Hop
<1>3. CASE StartApply(c)
  <2>1. /\ [op |-> "apply", pc |-> "login", hop |-> 1, mapped |-> {}] \in Call
        /\ CallOK([op |-> "apply", pc |-> "login", hop |-> 1, mapped |-> {}])
    BY <1>2, HopsAssumption DEF Call, CallOK
  <2>2. QED
    BY <1>1, <1>3, <2>1, CallStep DEF StartApply
<1>4. CASE StartDelete(c)
  <2>1. /\ [op |-> "delete", pc |-> "unmap", hop |-> Hops, mapped |-> Hop] \in Call
        /\ CallOK([op |-> "delete", pc |-> "unmap", hop |-> Hops, mapped |-> Hop])
    BY <1>2, HopsAssumption DEF Call, CallOK
  <2>2. QED
    BY <1>1, <1>4, <2>1, CallStep DEF StartDelete
<1>5. CASE Login(c) \/ CreateRule(c)
  <2>1. /\ call[c].hop \in Hop /\ call[c].op = "apply"
        /\ call[c].mapped = 1..(call[c].hop - 1)
    BY <1>1, <1>5 DEF Login, CreateRule, CallOK
  <2>2. call[c].hop - 1 \in 0..Hops
    BY <2>1, Segments
  <2>3. CASE Unmap(c, call[c].mapped)
    BY <1>1, <2>1, <2>2, <2>3, UnmapStep DEF Outcomes
  <2>4. CASE Login(c) /\ Goto(c, "create")
    BY <1>1, <2>4, GotoStep DEF Login
  <2>5. CASE CreateRule(c) /\ Goto(c, "created")
    BY <1>1, <2>5, GotoStep DEF CreateRule
  <2>6. QED
    BY <1>5, <2>3, <2>4, <2>5 DEF Login, CreateRule
<1>6. CASE RecordApplied(c)
  <2> DEFINE k == [op |-> "apply", pc |-> "find", hop |-> call[c].hop,
                   mapped |-> 1..call[c].hop]
  <2>1. /\ call[c].hop \in Hop /\ call[c].op = "apply"
        /\ call[c].mapped = 1..(call[c].hop - 1)
    BY <1>1, <1>6 DEF RecordApplied, CallOK
  <2>2. call[c].mapped \cup {call[c].hop} = 1..call[c].hop
        /\ 1..call[c].hop \subseteq Hop
    BY <2>1, Segments
  <2>3. call' = [call EXCEPT ![c] = [call[c] EXCEPT !.pc = "find",
                                     !.mapped = call[c].mapped \cup {call[c].hop}]]
    BY <1>6 DEF RecordApplied
  <2>4. [call[c] EXCEPT !.pc = "find", !.mapped = call[c].mapped \cup {call[c].hop}] = k
    <3>1. [call[c] EXCEPT !.pc = "find", !.mapped = call[c].mapped \cup {call[c].hop}]
            = [op |-> call[c].op, pc |-> "find", hop |-> call[c].hop,
               mapped |-> call[c].mapped \cup {call[c].hop}]
      BY ONLY <1>1, CallFields, Zenon
    <3>2. QED
      BY <2>1, <2>2, <3>1
  <2>5. k \in Call /\ CallOK(k)
    BY <1>1, <2>1, <2>2 DEF Call, CallOK
  <2>6. outcome' = outcome
    BY <1>6 DEF RecordApplied
  <2>7. QED
    BY <1>1, <2>3, <2>4, <2>5, <2>6, CallStep
<1>7. CASE Found(c) \/ NotFound(c)
  <2>1. call[c].hop \in Hop /\ call[c].op = "apply" /\ call[c].mapped = 1..call[c].hop
    BY <1>1, <1>7 DEF Found, NotFound, CallOK
  <2>2. call[c].hop \in 0..Hops
    BY <2>1, Segments
  <2>3. CASE Unmap(c, call[c].mapped)
    BY <1>1, <2>1, <2>2, <2>3, UnmapStep DEF Outcomes
  <2>4. CASE Ends(c, "ok")
    BY <2>4, EndStep DEF Outcomes
  <2>5. CASE /\ call[c].hop < Hops /\ outcome' = outcome
             /\ call' = [call EXCEPT ![c].pc = "login", ![c].hop = @ + 1]
    <3> DEFINE k == [op |-> "apply", pc |-> "login", hop |-> call[c].hop + 1,
                     mapped |-> 1..call[c].hop]
    <3>1. /\ call[c].hop + 1 \in Hop /\ call[c].hop + 1 \in 0..Hops
          /\ (call[c].hop + 1) - 1 = call[c].hop
      BY <2>1, <2>5, HopsAssumption DEF Hop
    <3>2. call' = [call EXCEPT ![c] = [call[c] EXCEPT !.pc = "login", !.hop = call[c].hop + 1]]
      BY <2>5
    <3>3. [call[c] EXCEPT !.pc = "login", !.hop = call[c].hop + 1] = k
      <4>1. [call[c] EXCEPT !.pc = "login", !.hop = call[c].hop + 1]
              = [op |-> call[c].op, pc |-> "login", hop |-> call[c].hop + 1,
                 mapped |-> call[c].mapped]
        BY ONLY <1>1, CallFields, Zenon
      <4>2. QED
        BY <2>1, <4>1
    <3>4. 1..call[c].hop \subseteq Hop
      BY <2>1, Segments
    <3>5. k \in Call
      BY <3>1, <3>4 DEF Call
    <3>6. CallOK(k)
      BY <3>1 DEF CallOK
    <3>7. QED
      BY <1>1, <2>5, <3>2, <3>3, <3>5, <3>6, CallStep
  <2>6. QED
    BY <1>7, <2>3, <2>4, <2>5 DEF Found, NotFound
<1>8. CASE ApplyThrows(c) \/ DeleteVm(c)
  BY <1>8, EndStep DEF ApplyThrows, DeleteVm, Outcomes
<1>9. CASE DeleteRule(c)
  BY <1>1, <1>9, GotoStep DEF DeleteRule
<1>10. CASE RecordRemoved(c) \/ UnmapThrows(c)
  <2>1. /\ call[c].hop \in Hop /\ call[c].mapped = 1..call[c].hop
        /\ call[c].op \in {"apply", "delete"}
    BY <1>1, <1>10 DEF RecordRemoved, UnmapThrows, CallOK, Call
  <2>2. call[c].mapped \ {call[c].hop} = 1..(call[c].hop - 1) /\ call[c].hop - 1 \in 0..Hops
    BY <2>1, Segments
  <2>3. CASE Unmap(c, call[c].mapped \ {call[c].hop})
    BY <1>1, <2>1, <2>2, <2>3, UnmapStep DEF Outcomes
  <2>4. CASE Ends(c, "threw")
    BY <2>4, EndStep DEF Outcomes
  <2>5. QED
    BY <1>10, <2>3, <2>4 DEF RecordRemoved, UnmapThrows
<1>11. QED
  BY <1>3, <1>4, <1>5, <1>6, <1>7, <1>8, <1>9, <1>10 DEF RequestStep

Status == {"none", "applied", "verified", "removed"}

(* What each kind of step does to the routers, the rows and the rest.      *)
LEMMA StepRows ==
  ASSUME ExpInv, NEW c \in Clients, StartApply(c) \/ StartDelete(c) \/ RequestStep(c)
  PROVE  /\ mode' = mode /\ rule' \subseteq Hop /\ forward' \subseteq Hop
         /\ record' \in [Hop -> Status] /\ address' \in BOOLEAN /\ deleted' \in BOOLEAN
         /\ had' \subseteq Hop /\ left' \subseteq Hop
         /\ requests' \in 0..MaxRequests /\ crashes' = crashes
<1>1. /\ rule \subseteq Hop /\ forward \subseteq Hop /\ record \in [Hop -> Status]
      /\ address \in BOOLEAN /\ deleted \in BOOLEAN /\ had \subseteq Hop /\ left \subseteq Hop
      /\ requests \in 0..MaxRequests /\ CallOK(call[c])
  BY DEF ExpInv, ExpTypeOK, Status
<1>2. CASE StartApply(c)
  <2>1. requests' \in 0..MaxRequests
    BY <1>1, <1>2, ExposureBounds DEF StartApply, Starts
  <2>2. QED
    BY <1>1, <1>2, <2>1 DEF StartApply, Mapped
<1>3. CASE StartDelete(c)
  <2>1. requests' \in 0..MaxRequests
    BY <1>1, <1>3, ExposureBounds DEF StartDelete, Starts
  <2>2. QED
    BY <1>1, <1>3, <2>1 DEF StartDelete
<1>4. CASE RequestStep(c)
  <2>1. mode' = mode /\ requests' = requests /\ crashes' = crashes /\ had' = had
    BY <1>4 DEF RequestStep, Login, CreateRule, RecordApplied, NotFound, Found, ApplyThrows,
                DeleteRule, RecordRemoved, UnmapThrows, DeleteVm, fixed
  <2>2. address' \in BOOLEAN /\ deleted' \in BOOLEAN
    BY <1>1, <1>4 DEF RequestStep, Login, CreateRule, RecordApplied, NotFound, Found, ApplyThrows,
                DeleteRule, RecordRemoved, UnmapThrows, DeleteVm
  <2>3. /\ CreateRule(c) \/ RecordApplied(c) \/ Found(c) \/ RecordRemoved(c) \/ UnmapThrows(c)
             => call[c].hop \in Hop
        /\ ApplyThrows(c) /\ call[c].pc = "create" => call[c].hop \in Hop
    BY <1>1 DEF CreateRule, RecordApplied, Found, RecordRemoved, UnmapThrows, CallOK
  <2>4. rule' \subseteq Hop
    BY <1>1, <1>4, <2>3 DEF RequestStep, Login, CreateRule, RecordApplied, NotFound, Found,
                ApplyThrows, DeleteRule, RecordRemoved, UnmapThrows, DeleteVm
  <2>5. forward' \subseteq Hop /\ left' \subseteq Hop
    BY <1>1, <1>4, <2>3 DEF RequestStep, Login, CreateRule, RecordApplied, NotFound, Found,
                ApplyThrows, DeleteRule, RecordRemoved, UnmapThrows, DeleteVm
  <2>6. record' \in [Hop -> Status]
    BY <1>1, <1>4, <2>3 DEF RequestStep, Login, CreateRule, RecordApplied, NotFound, Found,
                ApplyThrows, DeleteRule, RecordRemoved, UnmapThrows, DeleteVm, SaveMapping, Status
  <2>7. QED
    BY <1>1, <2>1, <2>2, <2>4, <2>5, <2>6
<1>5. QED
  BY <1>2, <1>3, <1>4

LEMMA InitExpInv == ExpInit => ExpInv
<1> SUFFICES ASSUME ExpInit PROVE ExpInv
  OBVIOUS
<1>1. NoCall \in Call /\ CallOK(NoCall)
  BY HopsAssumption DEF NoCall, Call, CallOK
<1>2. call \in [Clients -> Call] /\ \A c \in Clients : CallOK(call[c])
  BY <1>1 DEF ExpInit
<1>3. requests \in 0..MaxRequests /\ crashes \in 0..MaxCrashes
  BY ExposureBounds DEF ExpInit
<1>4. QED
  BY <1>2, <1>3 DEF ExpInit, ExpInv, ExpTypeOK

LEMMA StepExpInv == ExpInv /\ [ExpNext]_expVars => ExpInv'
<1> SUFFICES ASSUME ExpInv, [ExpNext]_expVars PROVE ExpInv'
  OBVIOUS
<1>1. ASSUME NEW c \in Clients, StartApply(c) \/ StartDelete(c) \/ RequestStep(c)
      PROVE  ExpInv'
  BY <1>1, StepCalls, StepRows DEF ExpInv, ExpTypeOK, Status, Outcomes
<1>2. CASE Crash
  <2>1. NoCall \in Call /\ CallOK(NoCall)
    BY HopsAssumption DEF NoCall, Call, CallOK
  <2>2. call' \in [Clients -> Call] /\ \A c \in Clients : CallOK(call'[c])
    BY <1>2, <2>1 DEF Crash
  <2>3. crashes' \in 0..MaxCrashes
    BY <1>2, ExposureBounds DEF Crash, ExpInv, ExpTypeOK
  <2>4. QED
    BY <1>2, <2>2, <2>3 DEF Crash, ExpInv, ExpTypeOK
<1>3. CASE UNCHANGED expVars
  BY <1>3 DEF expVars, ExpInv, ExpTypeOK
<1>4. QED
  BY <1>1, <1>2, <1>3 DEF ExpNext

(* Requests, routers and rows keep their types, whether or not requests    *)
(* overlap; a request that maps or unmaps is at a hop of the chain.        *)
THEOREM TypeCorrect == ExpSpec => []ExpTypeOK
<1>1. ExpInv => ExpTypeOK
  BY DEF ExpInv
<1>2. QED
  BY <1>1, InitExpInv, StepExpInv, PTL DEF ExpSpec

-----------------------------------------------------------------------------
(* Requests that do not overlap.                                           *)

OneAtATime == \A c, d \in Clients : call[c].pc # "idle" /\ call[d].pc # "idle" => c = d

Verified(h) == record[h] = "verified" /\ (h \in Lookups => h \in rule)

(* An exposure knows every mapping there is but those it could not remove, *)
(* if it began with none, and has verified every router inside the one it  *)
(* is at; a deletion knows every mapping.                                  *)
KnowsMappings(c) ==
  /\ call[c].op = "apply" => call[c].mapped \subseteq Mapped
  /\ call[c].op = "apply" /\ had = {} => Mapped \ left \subseteq call[c].mapped
  /\ call[c].pc \in {"login", "create", "created", "find"} =>
       \A h \in Hop : h < call[c].hop => Verified(h)
  /\ call[c].op = "delete" /\ call[c].pc \in {"unmap", "unmapped"} =>
       Mapped \subseteq call[c].mapped /\ forward \subseteq call[c].mapped
  /\ call[c].pc = "vm" => Mapped = {} /\ forward = {}

AloneInv ==
  /\ OneAtATime
  /\ \A c \in Clients : KnowsMappings(c)
  /\ InnermostFirst
  /\ OutcomeIsTrue

LEMMA InitAlone == ExpInit => AloneInv
  BY DEF ExpInit, AloneInv, OneAtATime, KnowsMappings, InnermostFirst, OutcomeIsTrue, Mapped,
         Active, NoCall

(* How the mapped hops follow the rows.                                    *)
LEMMA MappedAfter ==
  ASSUME ExpInv, NEW c \in Clients, NEW s \in Status, call[c].hop \in Hop, SaveMapping(c, s)
  PROVE  /\ \A h \in Hop \ {call[c].hop} : record'[h] = record[h]
         /\ record'[call[c].hop] = s
         /\ s \in {"applied", "verified"} => Mapped' = Mapped \cup {call[c].hop}
         /\ s = "removed" => Mapped' = Mapped \ {call[c].hop}
<1>1. /\ \A h \in Hop \ {call[c].hop} : record'[h] = record[h]
      /\ record'[call[c].hop] = s
  BY DEF SaveMapping, ExpInv, ExpTypeOK
<1>2. QED
  BY <1>1 DEF Mapped, Active

(* The request that moves is the only one.                                 *)
LEMMA AloneStep ==
  ASSUME ExpInv', NEW c \in Clients, \A d \in Clients \ {c} : call'[d].pc = "idle",
         KnowsMappings(c)', InnermostFirst', OutcomeIsTrue'
  PROVE  AloneInv'
<1>1. OneAtATime'
  BY DEF OneAtATime
<1>2. ASSUME NEW d \in Clients \ {c} PROVE KnowsMappings(d)'
  BY DEF ExpInv, CallOK, KnowsMappings
<1>3. QED
  BY <1>1, <1>2 DEF AloneInv

(* Where the mapped hops are a segment, but for those that could not be    *)
(* removed, the innermost come first.                                      *)
LEMMA SegmentFirst ==
  ASSUME NEW n \in 0..Hops, 1..n \subseteq Mapped', had' = {} => Mapped' \ left' \subseteq 1..n
  PROVE  InnermostFirst'
<1> SUFFICES ASSUME had' = {}, NEW h \in Mapped' \ left', h > 1 PROVE Active(h - 1)'
  BY DEF InnermostFirst
<1>1. h \in 1..n
  OBVIOUS
<1>2. h - 1 \in Mapped'
  BY <1>1
<1>3. QED
  BY <1>2 DEF Mapped

(* A rollback or a teardown that goes on, or is over.                      *)
LEMMA UnmapKnows ==
  ASSUME ExpInv, NEW c \in Clients, NEW n \in 0..Hops, Unmap(c, 1..n),
         call[c].op \in {"apply", "delete"},
         call[c].op = "apply" =>
           /\ 1..n \subseteq Mapped'
           /\ had' = {} => Mapped' \ left' \subseteq 1..n,
         call[c].op = "delete" =>
           Mapped' \subseteq 1..n /\ forward' \subseteq 1..n /\ InnermostFirst'
  PROVE  KnowsMappings(c)' /\ InnermostFirst' /\ OutcomeIsTrue'
<1>1. InnermostFirst'
  BY SegmentFirst
<1>2. call \in [Clients -> Call]
  BY DEF ExpInv, ExpTypeOK
<1>3. CASE /\ n \in Hop /\ outcome' = outcome
           /\ call' = [call EXCEPT ![c] = [op |-> call[c].op, pc |-> "unmap", hop |-> n,
                                           mapped |-> 1..n]]
  <2>1. call'[c] = [op |-> call[c].op, pc |-> "unmap", hop |-> n, mapped |-> 1..n]
    BY <1>2, <1>3
  <2>2. KnowsMappings(c)'
    BY <2>1 DEF KnowsMappings
  <2>3. Busy'
    BY <2>1 DEF Busy
  <2>4. QED
    BY <1>1, <2>2, <2>3 DEF OutcomeIsTrue
<1>4. CASE /\ n = 0 /\ call[c].op = "apply" /\ outcome' = "rolled_back"
           /\ call' = [call EXCEPT ![c] = NoCall]
  <2>1. call'[c] = NoCall
    BY <1>2, <1>4
  <2>2. KnowsMappings(c)'
    BY <2>1 DEF KnowsMappings, NoCall
  <2>3. had' = {} => Mapped' \subseteq left'
    BY <1>4, NoSegment
  <2>4. OutcomeIsTrue'
    BY <1>4, <2>3 DEF OutcomeIsTrue
  <2>5. QED
    BY <1>1, <2>2, <2>4
<1>5. CASE /\ n = 0 /\ call[c].op = "delete" /\ outcome' = outcome
           /\ call' = [call EXCEPT ![c] = [op |-> "delete", pc |-> "vm", hop |-> call[c].hop,
                                           mapped |-> call[c].mapped]]
  <2>1. call'[c] = [op |-> "delete", pc |-> "vm", hop |-> call[c].hop,
                    mapped |-> call[c].mapped]
    BY <1>2, <1>5
  <2>2. Mapped' = {} /\ forward' = {}
    BY <1>5, NoSegment
  <2>3. KnowsMappings(c)'
    BY <2>1, <2>2 DEF KnowsMappings
  <2>4. Busy'
    BY <2>1 DEF Busy
  <2>5. QED
    BY <1>1, <2>3, <2>4 DEF OutcomeIsTrue
<1>6. QED
  BY <1>3, <1>4, <1>5, UnmapSegment

(* The steps of an exposure.                                               *)
LEMMA ApplyAlone ==
  ASSUME ExpInv, AloneInv, NEW c \in Clients,
         \/ Login(c) \/ CreateRule(c) \/ RecordApplied(c)
         \/ NotFound(c) \/ Found(c) \/ ApplyThrows(c)
  PROVE  KnowsMappings(c)' /\ InnermostFirst' /\ OutcomeIsTrue'
<1> DEFINE h == call[c].hop
<1>1. /\ KnowsMappings(c) /\ InnermostFirst /\ CallOK(call[c]) /\ call[c] \in Call
      /\ call \in [Clients -> Call] /\ record \in [Hop -> Status]
  BY DEF AloneInv, ExpInv, ExpTypeOK, Status
<1>2. h \in Hop /\ call[c].op = "apply" /\ call[c].pc \in {"login", "create", "created", "find"}
  BY <1>1 DEF CallOK, Login, CreateRule, RecordApplied, NotFound, Found, ApplyThrows
<1>3. /\ call[c].mapped \subseteq Mapped /\ had' = had
      /\ had = {} => Mapped \ left \subseteq call[c].mapped
      /\ \A g \in Hop : g < h => Verified(g)
  BY <1>1, <1>2
  DEF KnowsMappings, Login, CreateRule, RecordApplied, NotFound, Found, ApplyThrows
<1>4. /\ (1..h) \ {h} = 1..(h - 1) /\ (1..(h - 1)) \cup {h} = 1..h
      /\ h - 1 \in 0..Hops /\ h \in 0..Hops
  BY <1>2, Segments
<1> HIDE DEF h
<1>5. CASE Login(c) \/ CreateRule(c)
  <2>1. call[c].mapped = 1..(h - 1) /\ UNCHANGED <<record, forward, left, had>>
    BY <1>1, <1>5 DEF CallOK, Login, CreateRule, h
  <2>2. Mapped' = Mapped
    BY <2>1 DEF Mapped, Active
  <2>3. CASE Unmap(c, call[c].mapped)
    BY <1>2, <1>3, <1>4, <2>1, <2>2, <2>3, UnmapKnows
  <2>4. CASE ~Unmap(c, call[c].mapped)
    <3>1. PICK p \in {"create", "created"} :
            Goto(c, p) /\ call[c].pc = (IF p = "create" THEN "login" ELSE "create")
      BY <1>5, <2>4 DEF Login, CreateRule
    <3>2. call'[c] = [op |-> call[c].op, pc |-> p, hop |-> call[c].hop,
                      mapped |-> call[c].mapped]
      BY <3>1, GotoStep
    <3>3. \A g \in Hop : g < h => Verified(g)'
      BY <1>3, <1>5, <2>1 DEF Verified, Login, CreateRule
    <3>4. KnowsMappings(c)'
      BY <1>2, <1>3, <2>1, <2>2, <3>2, <3>3 DEF KnowsMappings, h
    <3>5. Busy'
      BY <3>2 DEF Busy
    <3>6. InnermostFirst'
      BY <1>3, <1>4, <2>1, <2>2, SegmentFirst
    <3>7. QED
      BY <3>4, <3>5, <3>6 DEF OutcomeIsTrue
  <2>5. QED
    BY <2>3, <2>4
<1>6. CASE RecordApplied(c)
  <2>1. call[c].mapped = 1..(h - 1) /\ UNCHANGED <<rule, left, had>> /\ SaveMapping(c, "applied")
    BY <1>1, <1>6 DEF CallOK, RecordApplied, h
  <2>2. Mapped' = Mapped \cup {h} /\ \A g \in Hop \ {h} : record'[g] = record[g]
    BY <1>2, <2>1, MappedAfter DEF Status, h
  <2>3. /\ call'[c].pc = "find" /\ call'[c].op = "apply" /\ call'[c].hop = h
        /\ call'[c].mapped = 1..h
    <3>1. call'[c] = [call[c] EXCEPT !.pc = "find",
                                     !.mapped = call[c].mapped \cup {call[c].hop}]
      BY <1>1, <1>6 DEF RecordApplied
    <3>2. [call[c] EXCEPT !.pc = "find", !.mapped = call[c].mapped \cup {call[c].hop}]
            = [op |-> call[c].op, pc |-> "find", hop |-> call[c].hop,
               mapped |-> call[c].mapped \cup {call[c].hop}]
      BY ONLY <1>1, CallFields, Zenon
    <3>3. QED
      BY <1>2, <1>4, <2>1, <3>1, <3>2 DEF h
  <2>4. \A g \in Hop : g < h => Verified(g)'
    BY <1>2, <1>3, <2>1, <2>2 DEF Verified, Hop
  <2>5. 1..h \subseteq Mapped' /\ (had' = {} => Mapped' \ left' \subseteq 1..h)
    BY <1>3, <1>4, <2>1, <2>2
  <2>6. KnowsMappings(c)'
    BY <2>3, <2>4, <2>5 DEF KnowsMappings
  <2>7. Busy'
    BY <2>3 DEF Busy
  <2>8. InnermostFirst'
    BY <1>4, <2>5, SegmentFirst
  <2>9. QED
    BY <2>6, <2>7, <2>8 DEF OutcomeIsTrue
<1>7. CASE NotFound(c)
  <2>1. call[c].mapped = 1..h /\ UNCHANGED <<record, left, had>> /\ Unmap(c, call[c].mapped)
    BY <1>1, <1>7 DEF CallOK, NotFound, h
  <2>2. Mapped' = Mapped
    BY <2>1 DEF Mapped, Active
  <2>3. QED
    BY <1>2, <1>3, <1>4, <2>1, <2>2, UnmapKnows
<1>8. CASE Found(c)
  <2>1. /\ call[c].mapped = 1..h /\ UNCHANGED <<rule, left, had>>
        /\ SaveMapping(c, "verified") /\ (h \in Lookups => h \in rule)
    BY <1>1, <1>8 DEF CallOK, Found, h
  <2>2. /\ Mapped' = Mapped \cup {h} /\ \A g \in Hop \ {h} : record'[g] = record[g]
        /\ record'[h] = "verified"
    BY <1>2, <2>1, MappedAfter DEF Status, h
  <2>3. \A g \in Hop : g < h + 1 => Verified(g)'
    BY <1>2, <1>3, <2>1, <2>2 DEF Verified, Hop
  <2>4. 1..h \subseteq Mapped' /\ (had' = {} => Mapped' \ left' \subseteq 1..h)
    BY <1>3, <1>4, <2>1, <2>2
  <2>5. CASE Unmap(c, call[c].mapped)
    BY <1>2, <1>4, <2>1, <2>4, <2>5, UnmapKnows
  <2>6. CASE h = Hops /\ Ends(c, "ok")
    <3>1. call'[c] = NoCall /\ outcome' = "ok"
      BY <2>6, EndStep
    <3>2. KnowsMappings(c)'
      BY <3>1 DEF KnowsMappings, NoCall
    <3>3. \A g \in Hop : Verified(g)'
      BY <2>3, <2>6, HopsAssumption DEF Hop
    <3>4. OutcomeIsTrue'
      BY <3>1, <3>3 DEF OutcomeIsTrue, Verified
    <3>5. QED
      BY <1>4, <2>4, <3>2, <3>4, SegmentFirst
  <2>7. CASE call' = [call EXCEPT ![c].pc = "login", ![c].hop = @ + 1]
    <3>1. call'[c] = [call[c] EXCEPT !.pc = "login", !.hop = call[c].hop + 1]
      BY <1>1, <2>7
    <3>2. [call[c] EXCEPT !.pc = "login", !.hop = call[c].hop + 1]
            = [op |-> call[c].op, pc |-> "login", hop |-> call[c].hop + 1,
               mapped |-> call[c].mapped]
      BY ONLY <1>1, CallFields, Zenon
    <3>3. /\ call'[c].pc = "login" /\ call'[c].op = "apply" /\ call'[c].hop = h + 1
          /\ call'[c].mapped = 1..h
      BY <1>2, <2>1, <3>1, <3>2 DEF h
    <3>4. KnowsMappings(c)'
      BY <2>3, <2>4, <3>3 DEF KnowsMappings
    <3>5. Busy'
      BY <3>3 DEF Busy
    <3>6. InnermostFirst'
      BY <1>4, <2>4, SegmentFirst
    <3>7. QED
      BY <3>4, <3>5, <3>6 DEF OutcomeIsTrue
  <2>8. QED
    BY <1>8, <2>5, <2>6, <2>7 DEF Found, h
<1>9. CASE ApplyThrows(c)
  <2>1. UNCHANGED <<record, left, had>> /\ call'[c] = NoCall /\ outcome' = "threw"
    BY <1>9, EndStep DEF ApplyThrows
  <2>2. KnowsMappings(c)' /\ OutcomeIsTrue'
    BY <2>1 DEF KnowsMappings, OutcomeIsTrue, NoCall
  <2>3. InnermostFirst'
    BY <1>1, <2>1 DEF InnermostFirst, Mapped, Active
  <2>4. QED
    BY <2>2, <2>3
<1>10. QED
  BY <1>5, <1>6, <1>7, <1>8, <1>9

(* The steps of a rollback or of a deletion.                               *)
LEMMA RemoveAlone ==
  ASSUME ExpInv, AloneInv, NEW c \in Clients,
         DeleteRule(c) \/ RecordRemoved(c) \/ UnmapThrows(c) \/ DeleteVm(c)
  PROVE  KnowsMappings(c)' /\ InnermostFirst' /\ OutcomeIsTrue'
<1> DEFINE h == call[c].hop
<1>1. /\ KnowsMappings(c) /\ InnermostFirst /\ CallOK(call[c]) /\ call[c] \in Call
      /\ call \in [Clients -> Call]
  BY DEF AloneInv, ExpInv, ExpTypeOK
<1>2. had' = had
  BY DEF DeleteRule, RecordRemoved, UnmapThrows, DeleteVm
<1>3. CASE DeleteVm(c)
  <2>1. Mapped = {} /\ forward = {} /\ UNCHANGED <<record, forward, left>>
    BY <1>1, <1>3 DEF DeleteVm, KnowsMappings
  <2>2. call'[c] = NoCall /\ outcome' \in {"deleted", "threw"}
    BY <1>3, EndStep DEF DeleteVm
  <2>3. Mapped' = {} /\ forward' = {}
    BY <2>1 DEF Mapped, Active
  <2>4. KnowsMappings(c)' /\ OutcomeIsTrue' /\ InnermostFirst'
    BY <2>2, <2>3 DEF KnowsMappings, OutcomeIsTrue, InnermostFirst, NoCall
  <2>5. QED
    BY <2>4
<1>4. ASSUME ~DeleteVm(c)
      PROVE  /\ h \in Hop /\ call[c].mapped = 1..h /\ call[c].op \in {"apply", "delete"}
             /\ call[c].pc \in {"unmap", "unmapped"}
  BY <1>1, <1>4 DEF CallOK, DeleteRule, RecordRemoved, UnmapThrows, Call
<1>5. CASE DeleteRule(c)
  <2>1. call[c].pc = "unmap" /\ Goto(c, "unmapped") /\ UNCHANGED <<record, forward, left, had>>
    BY <1>5 DEF DeleteRule
  <2>2. call'[c] = [op |-> call[c].op, pc |-> "unmapped", hop |-> call[c].hop,
                    mapped |-> call[c].mapped]
    BY <2>1, GotoStep
  <2>3. Mapped' = Mapped
    BY <2>1 DEF Mapped, Active
  <2>4. KnowsMappings(c)'
    BY <1>1, <2>1, <2>2, <2>3 DEF KnowsMappings
  <2>5. InnermostFirst' /\ Busy'
    BY <1>1, <2>1, <2>2 DEF InnermostFirst, Mapped, Active, Busy
  <2>6. QED
    BY <2>4, <2>5 DEF OutcomeIsTrue
<1>6. CASE RecordRemoved(c)
  <2>1. /\ h \in Hop /\ call[c].mapped = 1..h /\ call[c].op \in {"apply", "delete"}
        /\ call[c].pc \in {"unmap", "unmapped"}
    BY <1>4, <1>6 DEF RecordRemoved, DeleteVm
  <2>2. /\ (1..h) \ {h} = 1..(h - 1) /\ h - 1 \in 0..Hops
    BY <2>1, Segments
  <2>3. /\ SaveMapping(c, "removed") /\ forward' = forward \ {h} /\ left' = left \ {h}
        /\ Unmap(c, 1..(h - 1))
    BY <1>6, <2>1, <2>2 DEF RecordRemoved
  <2>4. Mapped' = Mapped \ {h} /\ \A g \in Hop \ {h} : record'[g] = record[g]
    BY <2>1, <2>3, MappedAfter DEF Status
  <2>5. CASE call[c].op = "apply"
    <3>1. 1..(h - 1) \subseteq Mapped' /\ (had' = {} => Mapped' \ left' \subseteq 1..(h - 1))
      BY <1>1, <1>2, <2>1, <2>2, <2>3, <2>4, <2>5 DEF KnowsMappings
    <3>2. QED
      BY <2>2, <2>3, <2>5, <3>1, UnmapKnows
  <2>6. CASE call[c].op = "delete"
    <3>1. Mapped \subseteq 1..h /\ forward \subseteq 1..h
      BY <1>1, <2>1, <2>6 DEF KnowsMappings
    <3>2. Mapped' \subseteq 1..(h - 1) /\ forward' \subseteq 1..(h - 1)
      BY <2>2, <2>3, <2>4, <3>1
    <3>3. ASSUME had' = {}, NEW g \in Mapped' \ left', g > 1 PROVE Active(g - 1)'
      <4>1. g \in Mapped \ left /\ g \in 1..(h - 1) /\ had = {}
        BY <1>2, <2>3, <2>4, <3>2, <3>3
      <4>2. Active(g - 1)
        BY <1>1, <3>3, <4>1 DEF InnermostFirst
      <4>3. g - 1 \in Hop \ {h}
        BY <2>1, <3>3, <4>1, HopsAssumption DEF Hop
      <4>4. QED
        BY <2>4, <4>2, <4>3 DEF Active
    <3>4. InnermostFirst'
      BY <3>3 DEF InnermostFirst
    <3>5. QED
      BY <2>2, <2>3, <2>6, <3>2, <3>4, UnmapKnows
  <2>7. QED
    BY <2>1, <2>5, <2>6
<1>7. CASE UnmapThrows(c)
  <2>1. /\ h \in Hop /\ call[c].mapped = 1..h /\ call[c].op \in {"apply", "delete"}
        /\ call[c].pc \in {"unmap", "unmapped"} /\ UNCHANGED <<record, forward>>
    BY <1>4, <1>7 DEF UnmapThrows, DeleteVm
  <2>2. (1..h) \ {h} = 1..(h - 1) /\ h - 1 \in 0..Hops
    BY <2>1, Segments
  <2>3. Mapped' = Mapped
    BY <2>1 DEF Mapped, Active
  <2>4. CASE call[c].op = "apply"
    <3>1. left' = left \cup {h} /\ Unmap(c, 1..(h - 1))
      BY <1>7, <2>1, <2>2, <2>4 DEF UnmapThrows
    <3>2. 1..(h - 1) \subseteq Mapped' /\ (had' = {} => Mapped' \ left' \subseteq 1..(h - 1))
      BY <1>1, <1>2, <2>1, <2>2, <2>3, <2>4, <3>1 DEF KnowsMappings
    <3>3. QED
      BY <2>2, <2>4, <3>1, <3>2, UnmapKnows
  <2>5. CASE call[c].op = "delete"
    <3>1. left' = left /\ call'[c] = NoCall /\ outcome' = "threw"
      BY <1>7, <2>5, EndStep DEF UnmapThrows
    <3>2. KnowsMappings(c)' /\ OutcomeIsTrue'
      BY <3>1 DEF KnowsMappings, OutcomeIsTrue, NoCall
    <3>3. InnermostFirst'
      BY <1>1, <1>2, <2>1, <3>1 DEF InnermostFirst, Mapped, Active
    <3>4. QED
      BY <3>2, <3>3
  <2>6. QED
    BY <2>1, <2>4, <2>5
<1>8. QED
  BY <1>3, <1>5, <1>6, <1>7

LEMMA StartAlone ==
  ASSUME ExpInv, AloneInv, NEW c \in Clients, StartApply(c) \/ StartDelete(c)
  PROVE  KnowsMappings(c)' /\ InnermostFirst' /\ OutcomeIsTrue'
<1>1. call \in [Clients -> Call] /\ forward \subseteq Hop /\ InnermostFirst
  BY DEF AloneInv, ExpInv, ExpTypeOK
<1>2. UNCHANGED <<record, forward, left>> /\ Mapped' = Mapped
  BY DEF StartApply, StartDelete, Mapped, Active
<1>3. CASE StartApply(c)
  <2>1. call'[c] = [op |-> "apply", pc |-> "login", hop |-> 1, mapped |-> {}] /\ had' = Mapped
    BY <1>1, <1>3 DEF StartApply
  <2>2. \A g \in Hop : ~(g < 1)
    BY HopsAssumption DEF Hop
  <2>3. KnowsMappings(c)'
    BY <1>2, <2>1, <2>2 DEF KnowsMappings
  <2>4. InnermostFirst' /\ Busy'
    BY <1>2, <2>1 DEF InnermostFirst, Busy
  <2>5. QED
    BY <2>3, <2>4 DEF OutcomeIsTrue
<1>4. CASE StartDelete(c)
  <2>1. /\ call'[c] = [op |-> "delete", pc |-> "unmap", hop |-> Hops, mapped |-> Hop]
        /\ had' = had
    BY <1>1, <1>4 DEF StartDelete
  <2>2. KnowsMappings(c)'
    BY <1>1, <1>2, <2>1 DEF KnowsMappings, Mapped
  <2>3. InnermostFirst' /\ Busy'
    BY <1>1, <1>2, <2>1 DEF InnermostFirst, Mapped, Active, Busy
  <2>4. QED
    BY <2>2, <2>3 DEF OutcomeIsTrue
<1>5. QED
  BY <1>3, <1>4

LEMMA StepAlone ==
  ASSUME ~Overlap, ExpInv, AloneInv, [ExpNext]_expVars
  PROVE  AloneInv'
<1>1. ExpInv'
  BY StepExpInv
<1>2. ASSUME NEW c \in Clients, StartApply(c) \/ StartDelete(c) \/ RequestStep(c)
      PROVE  AloneInv'
  <2>1. \A d \in Clients \ {c} : call[d].pc = "idle"
    <3>1. CASE Starts(c)
      BY <3>1 DEF Starts, Busy
    <3>2. CASE RequestStep(c)
      <4>1. call[c].pc # "idle"
        BY <3>2 DEF RequestStep, Login, CreateRule, RecordApplied, NotFound, Found,
                    ApplyThrows, DeleteRule, RecordRemoved, UnmapThrows, DeleteVm
      <4>2. QED
        BY <4>1 DEF AloneInv, OneAtATime
    <3>3. QED
      BY <1>2, <3>1, <3>2 DEF StartApply, StartDelete
  <2>2. \A d \in Clients \ {c} : call'[d] = call[d]
    <3>1. call \in [Clients -> Call]
      BY DEF ExpInv, ExpTypeOK
    <3>2. ASSUME NEW M, Unmap(c, M) PROVE \A d \in Clients \ {c} : call'[d] = call[d]
      BY <3>1, <3>2 DEF Unmap, Ends, Goto
    <3>3. ASSUME NEW p, Goto(c, p) PROVE \A d \in Clients \ {c} : call'[d] = call[d]
      BY <3>1, <3>3 DEF Goto
    <3>4. ASSUME NEW how, Ends(c, how) PROVE \A d \in Clients \ {c} : call'[d] = call[d]
      BY <3>1, <3>4 DEF Ends
    <3>5. QED
      BY <1>2, <3>1, <3>2, <3>3, <3>4
      DEF StartApply, StartDelete, RequestStep, Login, CreateRule, RecordApplied, NotFound, Found,
          ApplyThrows, DeleteRule, RecordRemoved, UnmapThrows, DeleteVm
  <2>3. KnowsMappings(c)' /\ InnermostFirst' /\ OutcomeIsTrue'
    BY <1>2, StartAlone, ApplyAlone, RemoveAlone DEF RequestStep
  <2>4. QED
    BY <1>1, <2>1, <2>2, <2>3, AloneStep
<1>3. CASE Crash
  <2>1. \A c \in Clients : call'[c] = NoCall
    BY <1>3 DEF Crash
  <2>2. UNCHANGED <<record, had, left>> /\ outcome' = "threw"
    BY <1>3 DEF Crash
  <2>3. InnermostFirst' /\ OutcomeIsTrue'
    BY <2>2 DEF AloneInv, InnermostFirst, OutcomeIsTrue, Mapped, Active
  <2>4. OneAtATime' /\ \A c \in Clients : KnowsMappings(c)'
    BY <2>1 DEF OneAtATime, KnowsMappings, NoCall
  <2>5. QED
    BY <2>3, <2>4 DEF AloneInv
<1>4. CASE UNCHANGED expVars
  BY <1>4 DEF expVars, AloneInv, OneAtATime, KnowsMappings, InnermostFirst, OutcomeIsTrue, Mapped,
              Active, Busy, Verified
<1>5. QED
  BY <1>2, <1>3, <1>4 DEF ExpNext

LEMMA AlwaysAlone == ~Overlap => (ExpSpec => [](ExpInv /\ AloneInv))
<1> SUFFICES ASSUME ~Overlap PROVE ExpSpec => [](ExpInv /\ AloneInv)
  OBVIOUS
<1>1. ExpInv /\ AloneInv /\ [ExpNext]_expVars => ExpInv' /\ AloneInv'
  BY StepExpInv, StepAlone
<1>2. QED
  BY <1>1, InitExpInv, InitAlone, PTL DEF ExpSpec

(* Requests that do not overlap map the innermost routers first and unmap  *)
(* them last, after any failure, throw or crash.                           *)
THEOREM InnermostFirstCorrect == ~Overlap => (ExpSpec => []InnermostFirst)
<1>1. ExpInv /\ AloneInv => InnermostFirst
  BY DEF AloneInv
<1>2. QED
  BY <1>1, AlwaysAlone, PTL

(* What requests that do not overlap report is so.                         *)
THEOREM OutcomeCorrect == ~Overlap => (ExpSpec => []OutcomeIsTrue)
<1>1. ExpInv /\ AloneInv => OutcomeIsTrue
  BY DEF AloneInv
<1>2. QED
  BY <1>1, AlwaysAlone, PTL

(* No VM is deleted before its last mapping is recorded as removed.        *)
THEOREM DeletedAfterUnmapping == ~Overlap => (ExpSpec => UnmappedBeforeDelete)
<1>1. ASSUME ExpInv, AloneInv, [ExpNext]_expVars
      PROVE  [deleted' # deleted => Mapped = {} /\ forward = {}]_expVars
  <2>1. ASSUME NEW c \in Clients, DeleteVm(c) PROVE Mapped = {} /\ forward = {}
    BY <1>1, <2>1 DEF AloneInv, KnowsMappings, DeleteVm
  <2>2. QED
    BY <1>1, <2>1 DEF ExpNext, RequestStep, StartApply, StartDelete, Login, CreateRule,
       RecordApplied, NotFound, Found, ApplyThrows, DeleteRule, RecordRemoved, UnmapThrows,
       Crash, expVars
<1>2. QED
  BY <1>1, AlwaysAlone, PTL DEF ExpSpec, UnmappedBeforeDelete

-----------------------------------------------------------------------------
(* Requests that may overlap.                                              *)

(* However requests overlap, crash and roll back: there is a public        *)
(* address, and the VM is deleted, only after the row of every router of   *)
(* the chain has been saved, as mapped or as removed; no router is skipped.*)
NoRouterSkipped == address \/ deleted => \A h \in Hop : record[h] # "none"

(* The routers a request is past.                                          *)
Past(k) ==
  {h \in Hop : \/ k.pc \in {"login", "create", "created"} /\ h < k.hop
               \/ k.pc = "find" /\ h <= k.hop
               \/ k.pc \in {"unmap", "unmapped"} /\ k.op = "delete" /\ h > k.hop
               \/ k.pc = "vm"}

PastInv ==
  /\ NoRouterSkipped
  /\ \A c \in Clients : \A h \in Past(call[c]) : record[h] # "none"

(* No row is ever removed, and only a success makes an address or deletes. *)
LEMMA RowsStay ==
  ASSUME ExpInv, PastInv, NEW c \in Clients,
         StartApply(c) \/ StartDelete(c) \/ RequestStep(c)
  PROVE  /\ \A d \in Clients \ {c} : call'[d] = call[d]
         /\ \A h \in Hop : record[h] # "none" => record'[h] # "none"
         /\ address' \/ deleted' =>
              \/ address \/ deleted
              \/ call[c].pc = "find" /\ call[c].hop = Hops
              \/ call[c].pc = "vm"
<1>1. call \in [Clients -> Call] /\ record \in [Hop -> Status]
  BY DEF ExpInv, ExpTypeOK, Status
<1>2. \A d \in Clients \ {c} : call'[d] = call[d]
  <2>1. ASSUME NEW M, Unmap(c, M) PROVE \A d \in Clients \ {c} : call'[d] = call[d]
    BY <1>1, <2>1 DEF Unmap, Ends, Goto
  <2>2. ASSUME NEW p, Goto(c, p) PROVE \A d \in Clients \ {c} : call'[d] = call[d]
    BY <1>1, <2>2 DEF Goto
  <2>3. ASSUME NEW how, Ends(c, how) PROVE \A d \in Clients \ {c} : call'[d] = call[d]
    BY <1>1, <2>3 DEF Ends
  <2>4. QED
    BY <1>1, <2>1, <2>2, <2>3
    DEF StartApply, StartDelete, RequestStep, Login, CreateRule, RecordApplied, NotFound, Found,
        ApplyThrows, DeleteRule, RecordRemoved, UnmapThrows, DeleteVm
<1>3. \A h \in Hop : record[h] # "none" => record'[h] # "none"
  BY <1>1
  DEF StartApply, StartDelete, RequestStep, Login, CreateRule, RecordApplied, NotFound, Found,
      ApplyThrows, DeleteRule, RecordRemoved, UnmapThrows, DeleteVm, SaveMapping
<1>4. address' \/ deleted' =>
        \/ address \/ deleted
        \/ call[c].pc = "find" /\ call[c].hop = Hops
        \/ call[c].pc = "vm"
  BY DEF StartApply, StartDelete, RequestStep, Login, CreateRule, RecordApplied, NotFound, Found,
         ApplyThrows, DeleteRule, RecordRemoved, UnmapThrows, DeleteVm
<1>5. QED
  BY <1>2, <1>3, <1>4

(* A request whose rollback or teardown goes on is past no other router.   *)
LEMMA UnmapPast ==
  ASSUME ExpInv, NEW c \in Clients, NEW n \in 0..Hops, Unmap(c, 1..n),
         call[c].op \in {"apply", "delete"}
  PROVE  IF call[c].op = "apply" THEN Past(call'[c]) = {}
                                 ELSE Past(call'[c]) \subseteq {h \in Hop : h > n}
<1>1. call \in [Clients -> Call]
  BY DEF ExpInv, ExpTypeOK
<1>2. \/ call'[c] = [op |-> call[c].op, pc |-> "unmap", hop |-> n, mapped |-> 1..n]
      \/ call[c].op = "apply" /\ call'[c] = NoCall
      \/ n = 0 /\ call[c].op = "delete" /\
         call'[c] = [op |-> "delete", pc |-> "vm", hop |-> call[c].hop,
                     mapped |-> call[c].mapped]
  BY <1>1, UnmapSegment
<1>3. CASE call'[c] = [op |-> call[c].op, pc |-> "unmap", hop |-> n, mapped |-> 1..n]
  BY <1>3 DEF Past
<1>4. CASE call[c].op = "apply" /\ call'[c] = NoCall
  BY <1>4 DEF Past, NoCall
<1>5. CASE n = 0 /\ call[c].op = "delete"
  <2>1. \A h \in Hop : h > n
    BY <1>5, HopsAssumption DEF Hop
  <2>2. QED
    BY <1>5, <2>1 DEF Past
<1>6. QED
  BY <1>2, <1>3, <1>4, <1>5

(* A request gets past a router when it has saved its row.                 *)
LEMMA PastStep ==
  ASSUME ExpInv, NEW c \in Clients, StartApply(c) \/ StartDelete(c) \/ RequestStep(c)
  PROVE  \A h \in Past(call'[c]) : h \in Past(call[c]) \/ record'[h] # "none"
<1> DEFINE n == call[c].hop
<1>1. /\ call \in [Clients -> Call] /\ call[c] \in Call /\ CallOK(call[c])
      /\ record \in [Hop -> Status]
  BY DEF ExpInv, ExpTypeOK, Status
<1>2. \A h \in Hop : h \in Nat /\ h >= 1 /\ h <= Hops
  BY HopsAssumption DEF Hop
<1>3. Past(NoCall) = {}
  BY DEF Past, NoCall
<1>4. CASE StartApply(c)
  <2>1. call'[c] = [op |-> "apply", pc |-> "login", hop |-> 1, mapped |-> {}]
    BY <1>1, <1>4 DEF StartApply
  <2>2. QED
    BY <1>2, <2>1 DEF Past
<1>5. CASE StartDelete(c)
  <2>1. call'[c] = [op |-> "delete", pc |-> "unmap", hop |-> Hops, mapped |-> Hop]
    BY <1>1, <1>5 DEF StartDelete
  <2>2. QED
    BY <1>2, <2>1, HopsAssumption DEF Past
<1>6. ASSUME NEW p \in {"create", "created", "unmapped"}, Goto(c, p),
             call[c].pc = (IF p = "create" THEN "login" ELSE IF p = "created" THEN "create"
                           ELSE "unmap")
      PROVE  Past(call'[c]) \subseteq Past(call[c])
  <2>1. call'[c] = [op |-> call[c].op, pc |-> p, hop |-> call[c].hop, mapped |-> call[c].mapped]
    BY <1>6, GotoStep
  <2>2. QED
    BY <1>6, <2>1 DEF Past
<1>7. ASSUME NEW how, Ends(c, how) PROVE Past(call'[c]) = {}
  BY <1>3, <1>7, EndStep
<1>8. CASE Login(c) \/ CreateRule(c) \/ NotFound(c)
  <2>1. PICK m \in 0..Hops : n \in Hop /\ call[c].op = "apply" /\ call[c].mapped = 1..m
    <3>1. n \in Hop /\ n - 1 \in 0..Hops /\ n \in 0..Hops
      BY <1>1, <1>8, Segments DEF Login, CreateRule, NotFound, CallOK
    <3>2. QED
      BY <1>1, <1>8, <3>1 DEF Login, CreateRule, NotFound, CallOK
  <2>2. Unmap(c, call[c].mapped) => Past(call'[c]) = {}
    BY <2>1, UnmapPast
  <2>3. QED
    BY <1>6, <1>8, <2>2 DEF Login, CreateRule, NotFound
<1>9. CASE RecordApplied(c)
  <2>1. n \in Hop /\ call[c].pc = "created"
    BY <1>1, <1>9 DEF RecordApplied, CallOK
  <2>2. call'[c].pc = "find" /\ call'[c].hop = n
    <3>1. call'[c] = [call[c] EXCEPT !.pc = "find",
                                     !.mapped = call[c].mapped \cup {call[c].hop}]
      BY <1>1, <1>9 DEF RecordApplied
    <3>2. [call[c] EXCEPT !.pc = "find", !.mapped = call[c].mapped \cup {call[c].hop}]
            = [op |-> call[c].op, pc |-> "find", hop |-> call[c].hop,
               mapped |-> call[c].mapped \cup {call[c].hop}]
      BY ONLY <1>1, CallFields, Zenon
    <3>3. QED
      BY <3>1, <3>2
  <2>3. record'[n] # "none"
    BY <1>1, <1>9, <2>1 DEF RecordApplied, SaveMapping
  <2>4. QED
    BY <1>2, <2>1, <2>2, <2>3 DEF Past
<1>10. CASE Found(c)
  <2>1. n \in Hop /\ call[c].pc = "find" /\ call[c].op = "apply" /\ call[c].mapped = 1..n
        /\ n \in 0..Hops
    BY <1>1, <1>10, Segments DEF Found, CallOK
  <2>2. CASE Unmap(c, call[c].mapped)
    BY <2>1, <2>2, UnmapPast
  <2>3. CASE Ends(c, "ok")
    BY <1>7, <2>3
  <2>4. CASE call' = [call EXCEPT ![c].pc = "login", ![c].hop = @ + 1]
    <3>1. call'[c] = [call[c] EXCEPT !.pc = "login", !.hop = call[c].hop + 1]
      BY <1>1, <2>4
    <3>2. [call[c] EXCEPT !.pc = "login", !.hop = call[c].hop + 1]
            = [op |-> call[c].op, pc |-> "login", hop |-> call[c].hop + 1,
               mapped |-> call[c].mapped]
      BY ONLY <1>1, CallFields, Zenon
    <3>3. call'[c].pc = "login" /\ call'[c].hop = n + 1
      BY <3>1, <3>2
    <3>4. QED
      BY <1>2, <2>1, <3>3 DEF Past
  <2>5. QED
    BY <1>10, <2>2, <2>3, <2>4 DEF Found
<1>11. CASE ApplyThrows(c) \/ DeleteVm(c)
  BY <1>7, <1>11 DEF ApplyThrows, DeleteVm
<1>12. CASE DeleteRule(c)
  BY <1>6, <1>12 DEF DeleteRule
<1>13. CASE RecordRemoved(c) \/ UnmapThrows(c)
  <2>1. /\ n \in Hop /\ call[c].mapped = 1..n /\ call[c].pc \in {"unmap", "unmapped"}
        /\ call[c].op \in {"apply", "delete"}
    BY <1>1, <1>13 DEF RecordRemoved, UnmapThrows, CallOK, Call
  <2>2. call[c].mapped \ {n} = 1..(n - 1) /\ n - 1 \in 0..Hops
    BY <2>1, Segments
  <2>3. CASE UnmapThrows(c)
    BY <1>7, <2>1, <2>2, <2>3, UnmapPast DEF UnmapThrows
  <2>4. CASE RecordRemoved(c)
    <3>1. record'[n] # "none"
      BY <1>1, <2>1, <2>4 DEF RecordRemoved, SaveMapping
    <3>2. IF call[c].op = "apply" THEN Past(call'[c]) = {}
                                  ELSE Past(call'[c]) \subseteq {h \in Hop : h > n - 1}
      BY <2>1, <2>2, <2>4, UnmapPast DEF RecordRemoved
    <3>3. ASSUME NEW h \in Hop, h > n - 1 PROVE h = n \/ h > n
      BY <1>2, <2>1, <3>3
    <3>4. QED
      BY <2>1, <3>1, <3>2, <3>3 DEF Past
  <2>5. QED
    BY <1>13, <2>3, <2>4
<1>14. QED
  BY <1>4, <1>5, <1>8, <1>9, <1>10, <1>11, <1>12, <1>13 DEF RequestStep

LEMMA StepPastInv == ExpInv /\ PastInv /\ [ExpNext]_expVars => PastInv'
<1> SUFFICES ASSUME ExpInv, PastInv, [ExpNext]_expVars PROVE PastInv'
  OBVIOUS
<1>1. ASSUME NEW c \in Clients, StartApply(c) \/ StartDelete(c) \/ RequestStep(c)
      PROVE  PastInv'
  <2>1. /\ \A d \in Clients \ {c} : call'[d] = call[d]
        /\ \A h \in Hop : record[h] # "none" => record'[h] # "none"
        /\ address' \/ deleted' =>
             \/ address \/ deleted
             \/ call[c].pc = "find" /\ call[c].hop = Hops
             \/ call[c].pc = "vm"
    BY <1>1, RowsStay
  <2>2. \A d \in Clients : \A h \in Past(call[d]) : h \in Hop /\ record'[h] # "none"
    BY <2>1 DEF PastInv, Past
  <2>3. \A h \in Past(call'[c]) : record'[h] # "none"
    BY <1>1, <2>2, PastStep
  <2>4. (call[c].pc = "find" /\ call[c].hop = Hops) \/ call[c].pc = "vm" => Past(call[c]) = Hop
    BY HopsAssumption DEF Past, Hop
  <2>5. NoRouterSkipped'
    BY <2>1, <2>2, <2>4 DEF PastInv, NoRouterSkipped
  <2>6. QED
    BY <2>1, <2>2, <2>3, <2>5 DEF PastInv
<1>2. CASE Crash
  <2>1. \A c \in Clients : Past(call'[c]) = {}
    BY <1>2 DEF Crash, Past, NoCall
  <2>2. QED
    BY <1>2, <2>1 DEF Crash, PastInv, NoRouterSkipped
<1>3. CASE UNCHANGED expVars
  BY <1>3 DEF expVars, PastInv, NoRouterSkipped
<1>4. QED
  BY <1>1, <1>2, <1>3 DEF ExpNext

(* No exposure and no deletion ever skips a router, whatever overlaps.     *)
THEOREM EveryRouterVisited == ExpSpec => []NoRouterSkipped
<1>1. ExpInit => PastInv
  BY DEF ExpInit, PastInv, NoRouterSkipped, Past, NoCall
<1>2. PastInv => NoRouterSkipped
  BY DEF PastInv
<1>3. QED
  BY <1>1, <1>2, InitExpInv, StepExpInv, StepPastInv, PTL DEF ExpSpec
=============================================================================
