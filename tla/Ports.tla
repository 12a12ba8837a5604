-------------------------------- MODULE Ports ---------------------------------
(***************************************************************************)
(* The ports that several deployments open on the same routers in mock     *)
(* mode: where their VMs are (network.ts, the fake Proxmox), who may open  *)
(* a chain of routers (the licence, controller.ts), the plan of an         *)
(* exposure (core/chain-planner.ts) and the simulated routers it is        *)
(* applied to and probed on (providers-router/nat-chain.ts).  Module       *)
(* Exposure has the steps of one exposure; here, where no provider waits   *)
(* for anything outside the process, a request is one step, and it is the  *)
(* sequences of requests that matter.                                      *)
(***************************************************************************)
EXTENDS Addresses, Licence, Sequences

CONSTANTS
  Deps,          \* deployments, all with the one router chain
  Routers,       \* routers; a router stands for its WAN address as well
  Shapes,        \* chains a user saves, innermost router first
  Plans,         \* exposures: protocol, public and internal port
  Profiles,      \* network profiles
  Licences,      \* licences a user installs
  AllowDev,      \* licences of development keys count (tests, a flag)
  KeySources,    \* what the file or the variable with the public keys holds
  FirstVmid, ForeignVmid,  \* the first VM id to try, and one that is taken
  NatVm,         \* the address the probe takes for the VM, the first of DHCP
  Times,         \* what the clock may show
  MaxRequests, MaxSaves, MaxInstalls  \* bounds

ASSUME PortsAssumption ==
  /\ Shapes \subseteq Seq(Routers) /\ NatVm \in Address \ Routers
  /\ FirstVmid \in Nat \ {0} /\ ForeignVmid \in Nat /\ Times \subseteq Nat
  /\ AllowDev \in BOOLEAN
ASSUME ProfilesAssumption ==
  \A p \in Profiles :
    /\ p.mode \in {"dhcp", "manual", "vmid"}
    /\ p.mode = "vmid" => p.cidr \in Cidr /\ p.offset \in Int
    /\ p.mode = "manual" => p.cidr \in Cidr /\ p.address \in Address
ASSUME LicencesAssumption ==
  \A l \in Licences :
    l.fault = "none" => l.tier \in Tiers /\ {l.issued, l.expires} \subseteq Int /\ l.grace \in Nat
\* Of keys with one id the check takes the first, which a set does not tell.
ASSUME KeysAssumption ==
  \A s \in KeySources : s.is = "payload" /\ s.fault = "none" =>
    \A e, f \in s.entries : e.id = f.id => e = f

VARIABLES
  keys,            \* the public keys loaded at the start
  stored,          \* the licence in the vault, {} when none
  now,             \* the clock
  chain,           \* the row of the router chain
  plan,            \* plan[d]: exposure of d, its protocol and its ports
  profile,         \* profile[d]
  nextVmid,        \* the counter of the fake Proxmox
  vmid, address,   \* of the VM of d, 0 and NoAddress before
  leases,          \* addresses DHCP has given
  gone,            \* deployments whose VM was deleted, or never came to be
  readdressed,     \* those whose address changed while they had rules
  forwards,        \* forwards[r]: the rules of simulated router r, oldest first
  outcome,         \* outcome[d]: what the requests of d came to
  opened,          \* opened[d]: the hops of its last exposure that went well
  moved,           \* deployments whose chain changed while they had rules
  used             \* used up of the bounds

vars == <<keys, stored, now, chain, plan, profile, nextVmid, vmid, address, leases,
          gone, readdressed, forwards, outcome, opened, moved, used>>
config == <<keys, plan, profile>>
licensing == <<stored, now>>
machines == <<nextVmid, vmid, address, leases, gone, readdressed>>

Spend(what) == used[what] > 0 /\ used' = [used EXCEPT ![what] = @ - 1]

-----------------------------------------------------------------------------
(* Virtual machines                                                        *)

Live(d) == vmid[d] # 0 /\ d \notin gone
Taken == {ForeignVmid} \cup {vmid[e] : e \in {x \in Deps : Live(x)}}

\* allocateVmid of the fake: the counter passes over the ids that are taken,
\* which are the last one it gave and the foreign one at most.
Allocatable == (nextVmid .. nextVmid + 2) \ Taken
Allocated == CHOOSE v \in Allocatable : \A w \in Allocatable : v <= w

\* run, up to the guest's address: allocate, resolve the profile, and read
\* the address back, which for dhcp is the next one; a profile that gives no
\* address ends the run with the VM id kept.
Place(d) ==
  /\ address[d] = NoAddress /\ outcome[d] = "none" /\ d \notin gone
  /\ vmid' = [vmid EXCEPT ![d] = IF @ = 0 THEN Allocated ELSE @]
  /\ nextVmid' = IF vmid[d] = 0 THEN Allocated ELSE nextVmid
  /\ address' = [address EXCEPT ![d] = IF profile[d].mode = "dhcp" THEN NatVm + leases
                                       ELSE ResolveNetwork(profile[d], vmid'[d])]
  /\ leases' = IF profile[d].mode = "dhcp" THEN leases + 1 ELSE leases
  /\ UNCHANGED <<config, licensing, chain, forwards, outcome, opened, moved, used, gone,
                 readdressed>>

\* The clone fails, for its template is none, now and whenever it is retried: the
\* VM id is kept, and is free for the next deployment.
CloneFails(d) ==
  /\ vmid[d] = 0
  /\ vmid' = [vmid EXCEPT ![d] = Allocated] /\ nextVmid' = Allocated
  /\ gone' = gone \cup {d}
  /\ UNCHANGED <<config, licensing, chain, forwards, outcome, opened, moved, used,
                 address, leases, readdressed>>

\* The deployment may have rules on the routers, by a request before.
MayHaveRules(d) == outcome[d] \in {"open", "unsure"}

\* run, again, up to the guest's address: that of the VM that has the id now, which
\* is another's when d's own is gone; without one it ends, as nothing changed.
PlaceAgain(d) ==
  /\ address[d] # NoAddress /\ d \in gone
  /\ \E e \in Deps :
       /\ Live(e) /\ vmid[e] = vmid[d] /\ address[e] # NoAddress
       /\ address' = [address EXCEPT ![d] = address[e]]
  /\ readdressed' = IF (MayHaveRules(d) \/ d \in moved) /\ address' # address
                    THEN readdressed \cup {d} ELSE readdressed
  /\ UNCHANGED <<config, licensing, chain, forwards, outcome, opened, moved, used, gone,
                 vmid, nextVmid, leases>>

-----------------------------------------------------------------------------
(* Plans                                                                   *)

\* planExposure: each router forwards to the router inside it, the innermost
\* to the VM, all on one port.
PlanExposure(d) ==
  [i \in DOMAIN chain |->
    [router |-> chain[i], port |-> plan[d].public, protocol |-> plan[d].protocol,
     target |-> IF i = 1 THEN address[d] ELSE chain[i - 1]]]

\* buildPlan and planExposure do not throw.
CanPlan(d) == chain # <<>> /\ address[d] # NoAddress /\ plan[d].public = plan[d].internal

-----------------------------------------------------------------------------
(* Simulated routers                                                       *)

Forward(hop) == [port |-> hop.port, protocol |-> hop.protocol, target |-> hop.target]

\* The members of S in sequence s, in their order.
Filtered(s, S) ==
  LET kept[i \in 0..Len(s)] == IF i = 0 THEN <<>>
                               ELSE IF s[i] \in S THEN Append(kept[i - 1], s[i])
                               ELSE kept[i - 1]
  IN  kept[Len(s)]

\* apply, for some hops in order; a rule that is there is added again.
ApplyRules(rules, hops) ==
  LET Of(r) == Filtered(hops, {hops[i] : i \in {j \in DOMAIN hops : hops[j].router = r}})
  IN  [r \in Routers |-> rules[r] \o [k \in DOMAIN Of(r) |-> Forward(Of(r)[k])]]

\* Mutant of Same: all rules to one target are the same.
SameTarget(rule, hop) == rule.target = hop.target

\* What remove takes for the rule of a hop: the protocol is not compared.
Same(rule, hop) == rule.port = hop.port /\ rule.target = hop.target

\* remove, for some hops: every rule that is the same, whoever added it.
RemoveRules(rules, hops) ==
  LET Removed(r, rule) == \E i \in DOMAIN hops : hops[i].router = r /\ Same(rule, hops[i])
      Left(r) == {rule \in {rules[r][k] : k \in DOMAIN rules[r]} : ~Removed(r, rule)}
  IN  [r \in Routers |-> Filtered(rules[r], Left(r))]

\* What the first rule that matches a packet for a hop makes of its address.
Towards(rules, hop) ==
  LET hits == {k \in DOMAIN rules[hop.router] :
                 /\ rules[hop.router][k].port = hop.port
                 /\ rules[hop.router][k].protocol = hop.protocol}
  IN  IF hits = {} THEN NoAddress
      ELSE rules[hop.router][CHOOSE k \in hits : \A l \in hits : k <= l].target

\* probe: from the public address inward, each router passes the packet on to
\* the next or it is lost.
Reached(rules, hops) ==
  IF \A i \in 2..Len(hops) : Towards(rules, hops[i]) = hops[i - 1].router
  THEN Towards(rules, hops[1]) ELSE NoAddress
Probe(rules, hops) == Reached(rules, hops) = NatVm

-----------------------------------------------------------------------------
(* Requests                                                                *)

Entitlements ==
  ComputeEntitlements(IF stored = {} THEN [state |-> "none", tier |-> "home"]
                      ELSE VerifyLicense(CHOOSE l \in stored : TRUE, keys, now, AllowDev))

\* enforceExposureEntitlement
MayOpen ==
  \/ Len(chain) <= 1
  \/ /\ Len(chain) >= 3 => "unlimited_router_hops" \in Entitlements.features
     /\ "multi_router_chains" \in Entitlements.features

\* confirmAndExpose, and the exposing step of run.
Expose(d) ==
  /\ MayOpen /\ CanPlan(d) /\ Spend("requests")
  /\ LET hops == PlanExposure(d) IN
     /\ forwards' = ApplyRules(forwards, hops)
     /\ Probe(forwards', hops)
     /\ opened' = [opened EXCEPT ![d] = hops]
  /\ outcome' = [outcome EXCEPT ![d] = "open"]
  /\ UNCHANGED <<config, licensing, chain, machines, moved>>

\* A replay or a lookup at some router fails, or the probe does: what this
\* request applied is removed again.
ExposeFails(d) ==
  /\ MayOpen /\ CanPlan(d) /\ Spend("requests")
  /\ LET hops == PlanExposure(d) IN
     \E n \in 0..Len(hops) :
       LET created == SubSeq(hops, 1, n) IN
       forwards' = RemoveRules(ApplyRules(forwards, created), created)
  /\ outcome' = [outcome EXCEPT ![d] = IF MayHaveRules(d) THEN "unsure" ELSE "failed"]
  /\ UNCHANGED <<config, licensing, chain, machines, opened, moved>>

\* There is no provider for a router: apply throws, and nothing is removed.
ExposeThrows(d) ==
  /\ MayOpen /\ CanPlan(d) /\ Spend("requests")
  /\ \E n \in 0..Len(chain) - 1 :
       forwards' = ApplyRules(forwards, SubSeq(PlanExposure(d), 1, n))
  /\ outcome' = [outcome EXCEPT ![d] = "unsure"]
  /\ UNCHANGED <<config, licensing, chain, machines, opened, moved>>

\* confirmAndDelete: teardownForDelete plans anew, with the chain as it is.  That
\* the VM is gone keeps no later request from using the address.
Delete(d) ==
  /\ CanPlan(d) /\ Spend("requests")
  /\ forwards' = RemoveRules(forwards, PlanExposure(d))
  /\ outcome' = [outcome EXCEPT ![d] = "deleted"] /\ gone' = gone \cup {d}
  /\ UNCHANGED <<config, licensing, chain, nextVmid, vmid, address, leases, readdressed, opened,
                 moved>>

\* A removal throws on the way inward: the VM stays.
DeleteThrows(d) ==
  /\ CanPlan(d) /\ Spend("requests")
  /\ \E n \in 1..Len(chain) :
       forwards' = RemoveRules(forwards, SubSeq(PlanExposure(d), n + 1, Len(chain)))
  /\ outcome' = [outcome EXCEPT ![d] = "unsure"]
  /\ UNCHANGED <<config, licensing, chain, machines, opened, moved>>

\* saveRouterChain: the row is replaced, nothing on the routers is.
SaveRouterChain ==
  /\ Spend("saves")
  /\ chain' \in Shapes
  /\ moved' = IF chain' = chain THEN moved ELSE moved \cup {d \in Deps : MayHaveRules(d)}
  /\ UNCHANGED <<config, licensing, machines, forwards, outcome, opened>>

\* installLicense: stored first, looked at after.
InstallLicense ==
  /\ Spend("installs")
  /\ \E l \in Licences : stored' = {l}
  /\ UNCHANGED <<config, now, chain, machines, forwards, outcome, opened, moved>>

\* The clock, which an administrator may set back.
Clock ==
  /\ now' \in Times
  /\ UNCHANGED <<config, stored, chain, machines, forwards, outcome, opened, moved, used>>

-----------------------------------------------------------------------------
Init ==
  /\ \E file, inline \in KeySources : keys = LoadPublicLicenseKeys(file, inline)
  /\ stored = {} /\ now \in Times
  /\ chain \in Shapes
  /\ plan \in [Deps -> Plans]
  /\ profile \in [Deps -> Profiles]
  /\ nextVmid = FirstVmid /\ vmid = [d \in Deps |-> 0]
  /\ address = [d \in Deps |-> NoAddress] /\ leases = 0 /\ gone = {}
  /\ readdressed = {}
  /\ forwards = [r \in Routers |-> <<>>]
  /\ outcome = [d \in Deps |-> "none"] /\ opened = [d \in Deps |-> <<>>] /\ moved = {}
  /\ used = [requests |-> MaxRequests, saves |-> MaxSaves, installs |-> MaxInstalls]

Next ==
  \/ \E d \in Deps :
       \/ Place(d) \/ CloneFails(d) \/ PlaceAgain(d) \/ Expose(d) \/ ExposeFails(d) \/ ExposeThrows(d)
       \/ Delete(d) \/ DeleteThrows(d)
  \/ SaveRouterChain \/ InstallLicense \/ Clock

Spec == Init /\ [][Next]_vars

-----------------------------------------------------------------------------
(* Properties                                                              *)

\* No other has the port of d, and it has been at one address while it had rules.
Alone(d) ==
  /\ \A e \in Deps \ {d} : plan[e].public # plan[d].public
  /\ d \notin readdressed
Untouched(d) == \A r \in Routers : \A i \in DOMAIN forwards[r] :
                  forwards[r][i].port # plan[d].public

\* A deployment that has its port for itself is reached at its public address
\* when its last exposure went well, and has no rule on any router when its
\* exposures failed or it was deleted, whatever the others opened, closed and
\* failed at on the same routers meanwhile; except that the chain, or the address,
\* a deletion plans with is not that of the exposure.
PortsMatchOutcome ==
  \A d \in Deps : Alone(d) =>
    /\ outcome[d] = "open" => Reached(forwards, opened[d]) = address[d]
    /\ outcome[d] \in {"none", "failed", "deleted"} /\ d \notin moved => Untouched(d)

\* The addresses a profile derives from VM ids are hosts of its subnet, and
\* different as long as the ids are closer than the subnet is large
\* (requirements 4: "deterministic").
AddressesFit ==
  \A d, e \in Deps :
    /\ Live(d) /\ profile[d].mode = "vmid" /\ address[d] # NoAddress
    /\ Live(e) /\ profile[e] = profile[d] /\ address[e] # NoAddress
    => LET cidr == profile[d].cidr
           size == TwoTo[Bits - cidr.prefix]
       IN  /\ address[d] \div size = cidr.ip \div size
           /\ size > 2 => address[d] % size \notin {0, size - 1}
           /\ vmid[e] - vmid[d] \in 1 .. Span(cidr) - 1 => address[d] # address[e]

\* The routers a user has paid for at time t, by what a licence says and not
\* by how it is checked.
Paid(licence, t) ==
  IF /\ licence.fault = "none" /\ t >= licence.issued
     /\ t <= licence.expires + licence.grace
     /\ \E k \in keys : k.id = licence.key /\ (AllowDev \/ k.env = "production")
  THEN CASE licence.tier = "home" -> {1}
         [] licence.tier = "advanced_user" -> {1, 2}
         [] licence.tier = "powerfullness" -> Nat
  ELSE {1}

\* No rule is added along a chain that is longer than what is paid for when it
\* is added, whatever licences were installed, replaced and ran out.
LongChainsArePaid ==
  [][(\E r \in Routers : Len(forwards'[r]) > Len(forwards[r])) =>
       Len(chain) \in {1} \cup UNION {Paid(l, now) : l \in stored}]_vars
=============================================================================
