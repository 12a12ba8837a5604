------------------------------ MODULE Addresses -------------------------------
(***************************************************************************)
(* Addresses of virtual machines (packages/core/src/network.ts): subnets,  *)
(* their usable hosts, and what a network profile gives a VM id.  An       *)
(* address is a number of Bits bits, 32 in the code; its dotted form and   *)
(* the parser's complaints about it are left out.                          *)
(***************************************************************************)
EXTENDS Integers

CONSTANTS
  Bits,     \* width of an address
  NoAddress \* an address that is not known, or not valid

ASSUME BitsAssumption == Bits \in Nat \ {0, 1} /\ NoAddress \notin Int

TwoTo[n \in Nat] == IF n = 0 THEN 1 ELSE 2 * TwoTo[n - 1]

Address == 0 .. TwoTo[Bits] - 1
Cidr == [ip : Address, prefix : 0..Bits]

\* Mutant of ParseCidr: the broadcast address is a host.
ParseCidrToBroadcast(cidr) ==
  LET size == TwoTo[Bits - cidr.prefix]
      network == cidr.ip - (cidr.ip % size)
  IN  [network |-> network, broadcast |-> network + size - 1,
       first |-> network + 1, last |-> network + size - 1]

\* parseCidr: the network and broadcast addresses are no hosts, unless the
\* subnet has nothing else.
ParseCidr(cidr) ==
  LET size == TwoTo[Bits - cidr.prefix]
      network == cidr.ip - (cidr.ip % size)
      edge == IF cidr.prefix <= Bits - 2 THEN 1 ELSE 0
  IN  [network |-> network, broadcast |-> network + size - 1,
       first |-> network + edge, last |-> network + size - 1 - edge]

UsableHosts(cidr) == ParseCidr(cidr).first .. ParseCidr(cidr).last
Span(cidr) == ParseCidr(cidr).last - ParseCidr(cidr).first + 1

\* The address the vmid rule derives: VM ids count around the usable hosts.
Derived(cidr, offset, vmid) == ParseCidr(cidr).first + ((vmid + offset) % Span(cidr))

\* resolveNetwork: no address for dhcp, and an exception, here NoAddress too,
\* for a manual address that is no usable host.
ResolveNetwork(profile, vmid) ==
  CASE profile.mode = "dhcp"   -> NoAddress
    [] profile.mode = "manual" ->
         IF profile.address \in UsableHosts(profile.cidr) THEN profile.address ELSE NoAddress
    [] profile.mode = "vmid"   -> Derived(profile.cidr, profile.offset, vmid)
=============================================================================
