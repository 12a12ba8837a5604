------------------------------- MODULE MCPorts --------------------------------
(* Values of the constants of module Ports for TLC.                        *)
EXTENDS Ports, TLC

CONSTANTS r1, r2, r3, d1, d2

EitherDep == Permutations({d1, d2})

Exposure(protocol, public, internal) ==
  [protocol |-> protocol, public |-> public, internal |-> internal]
AllPlans == {Exposure("tcp", 80, 80), Exposure("udp", 443, 443)}

AllShapes == {<<r1>>, <<r1, r2>>, <<r3, r2>>, <<r1, r2, r3>>}

\* The subnet of the probe's VM: eight addresses, hosts 1 to 6; VM ids 100 and 102
\* come to 5, where the probe looks, and to 1.
Subnet == [ip |-> 5, prefix |-> 1]
AllProfiles == {[mode |-> "dhcp"], [mode |-> "vmid", cidr |-> Subnet, offset |-> 30],
                [mode |-> "manual", cidr |-> Subnet, address |-> 7]}

GoodLicence(tier, issued, expires, grace, key) ==
  [fault |-> "none", tier |-> tier, issued |-> issued, expires |-> expires,
   grace |-> grace, key |-> key]
AllLicences == {GoodLicence("advanced_user", 0, 2, 0, "k1"),
                GoodLicence("powerfullness", 1, 1, 1, "k1"),
                GoodLicence("powerfullness", 0, 3, 0, "k2")}

Entry(k, e, f) == [id |-> k, env |-> e, fault |-> f]
AllKeySources ==
  {[is |-> "none"],
   [is |-> "payload", fault |-> "none",
    entries |-> {Entry("k1", "absent", "none"), Entry("k2", "development", "none"),
                 Entry("k3", "production", "private")}]}
=============================================================================
