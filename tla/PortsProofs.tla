----------------------------- MODULE PortsProofs ------------------------------
(***************************************************************************)
(* Proofs about module Ports, for any number of deployments and routers,   *)
(* chains of any length, addresses of any width, any profiles, plans and   *)
(* licences, and any sequence of requests.                                 *)
(***************************************************************************)
EXTENDS Ports, WellFoundedInduction, TLAPS

-----------------------------------------------------------------------------
(* Induction and recursion over numbers, with sets in place of predicates. *)

LEMMA Least ==
  ASSUME NEW S \in SUBSET Nat, S # {}
  PROVE  \E m \in S : \A n \in S : m <= n
<1> DEFINE R == OpToRel(<, Nat)
<1>1. IsWellFoundedOn(R, Nat)
  BY NatLessThanWellFounded
<1>2. \A m, n \in Nat : n < m => <<n, m>> \in R
  BY DEF OpToRel
<1> HIDE DEF R
<1>3. PICK m \in S : \A n \in S : ~ (<<n, m>> \in R)
  BY <1>1, WFMin
<1>4. m \in Nat /\ \A n \in S : n \in Nat /\ ~(n < m)
  BY <1>2, <1>3
<1>5. QED
  BY <1>4

LEMMA Induction ==
  ASSUME NEW G, 0 \in G, \A n \in Nat : n \in G => n + 1 \in G
  PROVE  \A n \in Nat : n \in G
<1> DEFINE B == {n \in Nat : n \notin G}
<1>1. CASE B = {}
  BY <1>1
<1>2. CASE B # {}
  <2>1. PICK m \in B : \A n \in B : m <= n
    <3> HIDE DEF B
    <3>1. B \in SUBSET Nat
      BY DEF B
    <3>2. QED
      BY <1>2, <3>1, Least
  <2>2. m # 0 /\ m - 1 \in Nat /\ m - 1 \notin B
    BY <2>1
  <2>3. QED
    BY <2>1, <2>2
<1>3. QED
  BY <1>1, <1>2

(* A start and a step define a function of the numbers.                    *)
LEMMA Recursion ==
  ASSUME NEW V, NEW start \in V, NEW step \in [Nat -> [V -> V]]
  PROVE  \E f \in [Nat -> V] : /\ f[0] = start
                               /\ \A n \in Nat : f[n + 1] = step[n][f[n]]
<1> DEFINE Sol(n) == {g \in [0..n -> V] :
                        /\ g[0] = start
                        /\ \A i \in 0..n : i < n => g[i + 1] = step[i][g[i]]}
           Exists == {n \in Nat : Sol(n) # {}}
           Same1(i) == \A m, n \in Nat : i <= m /\ i <= n =>
                        \A g \in Sol(m), h \in Sol(n) : g[i] = h[i]
           Unique == {i \in Nat : Same1(i)}
<1>1. \A n \in Nat : n \in Exists
  <2>1. 0 \in Exists
    <3>1. [i \in 0..0 |-> start] \in Sol(0)
      OBVIOUS
    <3>2. QED
      BY <3>1
  <2>2. ASSUME NEW n \in Nat, n \in Exists PROVE n + 1 \in Exists
    <3>1. PICK g : g \in Sol(n)
      BY <2>2
    <3> DEFINE h == [i \in 0..n + 1 |-> IF i <= n THEN g[i] ELSE step[n][g[n]]]
    <3>2. h \in [0..n + 1 -> V]
      BY <3>1
    <3>3. /\ h[n + 1] = step[n][g[n]] /\ h[0] = g[0]
          /\ \A i \in 0..n : h[i] = g[i]
      BY <3>1
    <3>4. g[0] = start /\ \A i \in 0..n : i < n => g[i + 1] = step[i][g[i]]
      BY <3>1
    <3> HIDE DEF h
    <3>5. h[0] = start /\ \A i \in 0..n + 1 : i < n + 1 => h[i + 1] = step[i][h[i]]
      <4>1. ASSUME NEW i \in 0..n + 1, i < n PROVE h[i + 1] = step[i][h[i]]
        <5>1. i \in 0..n /\ i + 1 \in 0..n
          BY <4>1
        <5>2. g[i + 1] = step[i][g[i]] /\ h[i] = g[i] /\ h[i + 1] = g[i + 1]
          BY <3>3, <3>4, <4>1, <5>1
        <5>3. QED
          BY <5>2
      <4>2. h[n] = g[n]
        BY <3>3
      <4>3. h[n + 1] = step[n][h[n]]
        BY <3>3, <4>2
      <4>4. ASSUME NEW i \in 0..n + 1, i < n + 1 PROVE i < n \/ i = n
        BY <4>4
      <4>5. QED
        BY <3>3, <3>4, <4>1, <4>3, <4>4
    <3>6. h \in Sol(n + 1)
      BY <3>2, <3>5
    <3>7. QED
      BY <3>6
  <2> HIDE DEF Exists
  <2>3. QED
    BY <2>1, <2>2, Induction
<1>2. \A i \in Nat : i \in Unique
  <2>1. 0 \in Unique
    OBVIOUS
  <2>2. ASSUME NEW i \in Nat, i \in Unique PROVE i + 1 \in Unique
    <3> HIDE DEF Sol
    <3> SUFFICES ASSUME NEW m \in Nat, NEW n \in Nat, i + 1 <= m, i + 1 <= n,
                        NEW g \in Sol(m), NEW h \in Sol(n)
                 PROVE  g[i + 1] = h[i + 1]
      OBVIOUS
    <3>1. g[i] = h[i]
      <4>1. i <= m /\ i <= n
        OBVIOUS
      <4>2. QED
        BY <2>2, <4>1
    <3>2. g[i + 1] = step[i][g[i]] /\ h[i + 1] = step[i][h[i]]
      <4>1. i \in 0..m /\ i \in 0..n /\ i < m /\ i < n
        OBVIOUS
      <4>2. QED
        BY <4>1 DEF Sol
    <3>3. QED
      BY <3>1, <3>2
  <2> HIDE DEF Unique
  <2>3. QED
    BY <2>1, <2>2, Induction
<1> DEFINE G(n) == CHOOSE g : g \in Sol(n)
           f == [n \in Nat |-> G(n)[n]]
<1>3. \A n \in Nat : G(n) \in Sol(n)
  <2>1. \A n \in Nat : \E g : g \in Sol(n)
    BY <1>1
  <2> HIDE DEF Sol
  <2>2. QED
    BY <2>1
<1>4. ASSUME NEW n \in Nat PROVE f[n + 1] = step[n][f[n]]
  <2>1. G(n) \in Sol(n) /\ G(n + 1) \in Sol(n + 1)
    <3> HIDE DEF G, Sol
    <3>1. QED
      BY <1>3
  <2>2. G(n)[n] = G(n + 1)[n]
    <3>1. Same1(n)
      BY <1>2
    <3>2. n <= n + 1 /\ n + 1 \in Nat
      OBVIOUS
    <3> HIDE DEF G, Sol
    <3>3. QED
      BY <2>1, <3>1, <3>2
  <2>3. G(n + 1)[n + 1] = step[n][G(n + 1)[n]]
    <3> HIDE DEF G
    <3>1. QED
      BY <2>1
  <2> HIDE DEF G
  <2>4. QED
    BY <2>2, <2>3
<1>5. f \in [Nat -> V] /\ f[0] = start
  <2>1. \A n \in Nat : G(n)[n] \in V /\ G(n)[0] = start
    <3> HIDE DEF G
    <3>1. QED
      BY <1>3
  <2> HIDE DEF G
  <2>2. QED
    BY <2>1
<1> HIDE DEF f
<1>6. QED
  BY <1>4, <1>5

-----------------------------------------------------------------------------
(* Powers of two.                                                          *)

LEMMA TwoToIs == \A n \in Nat : TwoTo[n] = IF n = 0 THEN 1 ELSE 2 * TwoTo[n - 1]
<1> DEFINE Values == Nat
           one    == 1
           double == [n \in Nat |-> [v \in Values |-> 2 * v]]
<1>1. one \in Values /\ double \in [Nat -> [Values -> Values]]
  OBVIOUS
<1>2. PICK f \in [Nat -> Values] : f[0] = one /\ \A n \in Nat : f[n + 1] = double[n][f[n]]
  <2> HIDE DEF Values, one, double
  <2>1. QED
    BY <1>1, Recursion, Z3
<1>3. \A n \in Nat : f[n + 1] = 2 * f[n]
  BY <1>2
<1>4. ASSUME NEW n \in Nat PROVE f[n] = IF n = 0 THEN 1 ELSE 2 * f[n - 1]
  <2>1. CASE n = 0
    BY <1>2, <2>1
  <2>2. CASE n # 0
    <3>1. n - 1 \in Nat /\ (n - 1) + 1 = n
      BY <2>2
    <3>2. QED
      BY <1>3, <3>1, <2>2
  <2>3. QED
    BY <2>1, <2>2
<1>5. f = [n \in Nat |-> IF n = 0 THEN 1 ELSE 2 * f[n - 1]]
  BY <1>4
<1>6. \E g : g = [n \in Nat |-> IF n = 0 THEN 1 ELSE 2 * g[n - 1]]
  BY <1>5
<1>7. TwoTo = [n \in Nat |-> IF n = 0 THEN 1 ELSE 2 * TwoTo[n - 1]]
  BY <1>6 DEF TwoTo
<1>8. QED
  BY <1>7

LEMMA TwoToGrows ==
  \A n \in Nat : /\ TwoTo[n] \in Nat \ {0}
                 /\ n >= 1 => TwoTo[n] >= 2
                 /\ n >= 2 => TwoTo[n] >= 4
<1> DEFINE G == {n \in Nat : /\ TwoTo[n] \in Nat \ {0}
                             /\ n >= 1 => TwoTo[n] >= 2
                             /\ n >= 2 => TwoTo[n] >= 4}
<1>1. 0 \in G
  BY TwoToIs
<1>2. ASSUME NEW n \in Nat, n \in G PROVE n + 1 \in G
  <2>1. TwoTo[n + 1] = 2 * TwoTo[n]
    BY TwoToIs
  <2>2. QED
    BY <1>2, <2>1
<1>3. \A n \in Nat : n \in G
  <2> HIDE DEF G
  <2>1. QED
    BY <1>1, <1>2, Induction
<1>4. QED
  BY <1>3

-----------------------------------------------------------------------------
(* Quotients and remainders.                                               *)

LEMMA Division ==
  ASSUME NEW a \in Int, NEW n \in Nat \ {0}
  PROVE  /\ a \div n \in Int /\ a % n \in 0..n - 1
         /\ a = n * (a \div n) + (a % n)
  OBVIOUS

LEMMA Products ==
  ASSUME NEW n \in Nat \ {0}, NEW k \in Int
  PROVE  /\ k >= 1 => n * k >= n
         /\ k <= -1 => n * k <= -n
  OBVIOUS

LEMMA Differences ==
  ASSUME NEW n \in Nat \ {0}, NEW k \in Int, NEW l \in Int
  PROVE  n * k - n * l = n * (k - l)
  OBVIOUS

LEMMA DivisionIsUnique ==
  ASSUME NEW n \in Nat \ {0}, NEW q \in Int, NEW r \in 0..n - 1
  PROVE  (n * q + r) \div n = q /\ (n * q + r) % n = r
<1> DEFINE a == n * q + r
           p == a \div n
           t == a % n
<1>1. a \in Int
  OBVIOUS
<1>2. p \in Int /\ t \in 0..n - 1 /\ a = n * p + t
  <2> HIDE DEF a
  <2>1. QED
    BY <1>1, Division
<1>3. n * q - n * p = t - r
  <2>1. n * q \in Int /\ n * p \in Int
    BY <1>2
  <2> HIDE DEF p, t
  <2>2. n * q + r = n * p + t
    BY <1>2
  <2>3. QED
    BY <1>2, <2>1, <2>2
<1>4. n * (q - p) = t - r
  <2> HIDE DEF p, t
  <2>1. QED
    BY <1>2, <1>3, Differences
<1>5. q - p = 0
  <2> HIDE DEF p, t
  <2>1. q - p \in Int
    BY <1>2
  <2>2. -n < t - r /\ t - r < n
    BY <1>2
  <2>3. QED
    BY <1>4, <2>1, <2>2, Products
<1>6. QED
  <2> HIDE DEF p
  <2>1. QED
    BY <1>2, <1>5

LEMMA Remainders ==
  ASSUME NEW n \in Nat \ {0}, NEW x \in Int, NEW y \in Int, y - x \in 1..n - 1
  PROVE  x % n # y % n
<1> SUFFICES ASSUME x % n = y % n PROVE FALSE
  OBVIOUS
<1> DEFINE p == x \div n
           q == y \div n
<1>1. /\ p \in Int /\ q \in Int
      /\ x = n * p + (x % n) /\ y = n * q + (y % n)
      /\ x % n \in Int
  BY Division
<1>2. y - x = n * q - n * p
  BY <1>1
<1>3. y - x = n * (q - p)
  <2> HIDE DEF p, q
  <2>1. QED
    BY <1>1, <1>2, Differences
<1>4. QED
  <2> HIDE DEF p, q
  <2>1. q - p \in Int
    BY <1>1
  <2>2. QED
    BY <1>3, <2>1, Products

-----------------------------------------------------------------------------
(* Derived addresses.                                                      *)

(* A derived address is a host of its subnet, and VM ids that are closer   *)
(* than the subnet is large derive different ones.                         *)
LEMMA DerivedFits ==
  ASSUME NEW cidr \in Cidr, NEW offset \in Int, NEW v \in Int
  PROVE  LET size == TwoTo[Bits - cidr.prefix]
             a    == Derived(cidr, offset, v)
         IN  /\ a \in Int /\ a \div size = cidr.ip \div size
             /\ size > 2 => a % size \notin {0, size - 1}
             /\ \A w \in Int : w - v \in 1 .. Span(cidr) - 1 => a # Derived(cidr, offset, w)
<1> DEFINE size == TwoTo[Bits - cidr.prefix]
           q    == cidr.ip \div size
           edge == IF cidr.prefix <= Bits - 2 THEN 1 ELSE 0
           span == size - 2 * edge
<1>1. cidr.ip \in Int /\ cidr.prefix \in 0..Bits /\ Bits \in Nat
  <2>1. TwoTo[Bits] \in Nat
    BY BitsAssumption, TwoToGrows
  <2>2. QED
    BY <2>1, BitsAssumption DEF Cidr, Address
<1>2. size \in Nat \ {0} /\ (edge = 1 => size >= 4) /\ (edge = 0 => size <= 2)
  <2>1. Bits - cidr.prefix \in Nat
    BY <1>1
  <2>2. CASE edge = 1
    BY <1>1, <2>1, <2>2, TwoToGrows
  <2>3. CASE edge = 0
    <3>1. Bits - cidr.prefix \in {0, 1}
      BY <1>1, <2>3
    <3>2. TwoTo[0] = 1 /\ TwoTo[1] = 2
      BY TwoToIs
    <3>3. QED
      BY <2>3, <3>1, <3>2
  <2>4. QED
    BY <2>2, <2>3
<1>3. edge \in {0, 1} /\ span \in Nat \ {0}
  <2> HIDE DEF size
  <2>1. QED
    BY <1>2
<1>4. q \in Int /\ cidr.ip - (cidr.ip % size) = size * q /\ size * q \in Int
  <2> HIDE DEF size
  <2>1. /\ cidr.ip \div size \in Int /\ cidr.ip % size \in 0..size - 1
        /\ cidr.ip = size * (cidr.ip \div size) + (cidr.ip % size)
    BY <1>1, <1>2, Division
  <2>2. q \in Int /\ cidr.ip % size \in Int /\ cidr.ip = size * q + (cidr.ip % size)
    BY <1>2, <2>1
  <2> HIDE DEF q
  <2>3. size * q \in Int
    BY <1>2, <2>2
  <2>4. QED
    BY <2>2, <2>3
<1> HIDE DEF q
<1>5. /\ ParseCidr(cidr).first = size * q + edge
      /\ ParseCidr(cidr).last = size * q + size - 1 - edge
  <2>1. /\ ParseCidr(cidr).first = cidr.ip - (cidr.ip % size) + edge
        /\ ParseCidr(cidr).last = cidr.ip - (cidr.ip % size) + size - 1 - edge
    BY DEF ParseCidr
  <2> HIDE DEF size, edge
  <2>2. QED
    BY <1>4, <2>1
<1> HIDE DEF size, edge
<1>6. Span(cidr) = span
  BY <1>2, <1>3, <1>4, <1>5 DEF Span
<1> HIDE DEF span
<1>7. \A w \in Int : /\ (w + offset) % span \in 0..span - 1
                     /\ Derived(cidr, offset, w) = size * q + (edge + ((w + offset) % span))
  <2>1. ASSUME NEW w \in Int PROVE (w + offset) % span \in 0..span - 1
    <3>1. w + offset \in Int
      OBVIOUS
    <3>2. QED
      BY <1>3, <3>1, Division
  <2>2. ASSUME NEW w \in Int
        PROVE  Derived(cidr, offset, w) = size * q + (edge + ((w + offset) % span))
    <3> DEFINE t == (w + offset) % span
    <3>1. t \in Int
      BY <1>3, <2>1
    <3>2. Derived(cidr, offset, w) = ParseCidr(cidr).first + t
      BY <1>6 DEF Derived
    <3> HIDE DEF t
    <3>3. Derived(cidr, offset, w) = (size * q + edge) + t
      BY <1>5, <3>2
    <3>4. Derived(cidr, offset, w) = size * q + (edge + t)
      BY <1>2, <1>3, <1>4, <3>1, <3>3
    <3>5. QED
      BY <3>4 DEF t
  <2>3. QED
    BY <2>1, <2>2
<1> DEFINE r == edge + ((v + offset) % span)
<1>8. r \in 0..size - 1 /\ (size > 2 => r \notin {0, size - 1})
  <2> DEFINE t == (v + offset) % span
  <2>1. t \in 0..span - 1
    BY <1>7
  <2> HIDE DEF t
  <2>2. edge + t \in 0..size - 1 /\ (size > 2 => edge + t \notin {0, size - 1})
    BY <1>2, <1>3, <2>1 DEF span
  <2>3. QED
    BY <2>2 DEF t
<1>9. Derived(cidr, offset, v) = size * q + r
  BY <1>7
<1>10. (size * q + r) \div size = q /\ (size * q + r) % size = r
  <2> HIDE DEF r
  <2>1. QED
    BY <1>2, <1>4, <1>8, DivisionIsUnique
<1>11. ASSUME NEW w \in Int, w - v \in 1 .. span - 1
       PROVE  Derived(cidr, offset, v) # Derived(cidr, offset, w)
  <2>1. (w + offset) - (v + offset) \in 1 .. span - 1 /\ w + offset \in Int /\ v + offset \in Int
    BY <1>3, <1>11
  <2>2. (v + offset) % span # (w + offset) % span
    BY <1>3, <2>1, Remainders
  <2> DEFINE s == (v + offset) % span
             t == (w + offset) % span
  <2>3. s \in Int /\ t \in Int
    BY <1>3, <1>7
  <2>4. /\ Derived(cidr, offset, v) = size * q + (edge + s)
        /\ Derived(cidr, offset, w) = size * q + (edge + t)
    BY <1>7
  <2>5. s # t
    BY <2>2
  <2> HIDE DEF s, t
  <2>6. QED
    BY <1>3, <1>4, <2>3, <2>4, <2>5
<1>12. Derived(cidr, offset, v) \in Int
  BY <1>2, <1>4, <1>8, <1>9
<1> HIDE DEF r
<1>13. QED
  BY <1>6, <1>8, <1>9, <1>10, <1>11, <1>12 DEF size, q

-----------------------------------------------------------------------------
(* Virtual machines.                                                       *)

Placed == [Deps -> Int \cup {NoAddress}]

(* A VM id is free when it is given, and the address of a VM that is there *)
(* is what the profile makes of it.                                        *)
MachinesInv ==
  /\ nextVmid \in Nat \ {0} /\ leases \in Nat
  /\ vmid \in [Deps -> Nat] /\ \A d \in Deps : vmid[d] <= nextVmid
  /\ address \in Placed
  /\ profile \in [Deps -> Profiles]
  /\ \A d \in Deps : Live(d) /\ address[d] # NoAddress /\ profile[d].mode = "vmid" =>
       address[d] = Derived(profile[d].cidr, profile[d].offset, vmid[d])

LEMMA NewVmid ==
  ASSUME MachinesInv
  PROVE  Allocated \in Nat \ {0} /\ Allocated >= nextVmid /\ Allocated \notin Taken
<1>1. Allocatable \in SUBSET Nat /\ nextVmid \in Nat \ {0}
  BY DEF MachinesInv, Allocatable
<1>2. Allocatable # {}
  <2>1. ASSUME NEW v \in nextVmid + 1 .. nextVmid + 2, v # ForeignVmid PROVE v \notin Taken
    BY <2>1 DEF MachinesInv, Taken
  <2>2. CASE nextVmid + 1 # ForeignVmid
    <3>1. nextVmid + 1 \in Allocatable
      BY <1>1, <2>1, <2>2 DEF Allocatable
    <3>2. QED
      BY <3>1
  <2>3. CASE nextVmid + 1 = ForeignVmid
    <3>1. nextVmid + 2 \in Allocatable
      BY <1>1, <2>1, <2>3 DEF Allocatable
    <3>2. QED
      BY <3>1
  <2>4. QED
    BY <2>2, <2>3
<1>3. \E v \in Allocatable : \A w \in Allocatable : v <= w
  <2> HIDE DEF Allocatable
  <2>1. QED
    BY <1>1, <1>2, Least
<1>4. Allocated \in Allocatable
  BY <1>3 DEF Allocated
<1>5. QED
  BY <1>1, <1>4 DEF Allocatable

LEMMA MachinesStep == MachinesInv /\ [Next]_vars => MachinesInv'
<1> SUFFICES ASSUME MachinesInv, [Next]_vars PROVE MachinesInv'
  OBVIOUS
<1>1. CASE UNCHANGED <<nextVmid, leases, vmid, address, profile>> /\ gone \subseteq gone'
  BY <1>1 DEF MachinesInv, Live
<1>2. ASSUME NEW d \in Deps, Place(d) PROVE MachinesInv'
  <2>1. /\ profile' = profile /\ profile[d] \in Profiles
        /\ leases' \in Nat
        /\ nextVmid' \in Nat \ {0} /\ nextVmid <= nextVmid'
        /\ vmid'[d] \in Nat /\ vmid'[d] <= nextVmid'
        /\ vmid' \in [Deps -> Nat] /\ \A e \in Deps \ {d} : vmid'[e] = vmid[e]
        /\ gone' = gone
    BY <1>2, NewVmid DEF MachinesInv, Place, config
  <2>2. \A e \in Deps : vmid'[e] <= nextVmid'
    BY <2>1 DEF MachinesInv
  <2> DEFINE a == IF profile[d].mode = "dhcp" THEN NatVm + leases
                  ELSE ResolveNetwork(profile[d], vmid'[d])
  <2>3. /\ a \in Int \cup {NoAddress}
        /\ profile[d].mode = "vmid" =>
             a = Derived(profile[d].cidr, profile[d].offset, vmid'[d])
    <3>1. CASE profile[d].mode = "dhcp"
      <4>1. NatVm \in Int /\ leases \in Nat
        BY PortsAssumption DEF Address, MachinesInv
      <4>2. QED
        BY <3>1, <4>1
    <3>2. CASE profile[d].mode = "manual"
      <4>1. TwoTo[Bits] \in Nat
        BY BitsAssumption, TwoToGrows
      <4>2. profile[d].address \in Int
        BY <2>1, <3>2, <4>1, ProfilesAssumption DEF Address
      <4>3. QED
        BY <3>2, <4>2 DEF ResolveNetwork
    <3>3. CASE profile[d].mode = "vmid"
      <4>1. a = Derived(profile[d].cidr, profile[d].offset, vmid'[d])
        BY <3>3 DEF ResolveNetwork
      <4>2. profile[d].cidr \in Cidr /\ profile[d].offset \in Int /\ vmid'[d] \in Int
        BY <2>1, <3>3, ProfilesAssumption
      <4>3. Derived(profile[d].cidr, profile[d].offset, vmid'[d]) \in Int
        BY <4>2, DerivedFits
      <4>4. QED
        BY <4>1, <4>3
    <3>4. QED
      BY <2>1, <3>1, <3>2, <3>3, ProfilesAssumption
  <2>4. address' = [address EXCEPT ![d] = a]
    BY <1>2 DEF Place
  <2> HIDE DEF a
  <2>5. address' \in Placed /\ address'[d] = a /\ \A e \in Deps \ {d} : address'[e] = address[e]
    BY <2>3, <2>4 DEF MachinesInv, Placed
  <2>6. \A e \in Deps : Live(e)' /\ address'[e] # NoAddress /\ profile'[e].mode = "vmid" =>
          address'[e] = Derived(profile'[e].cidr, profile'[e].offset, vmid'[e])
    <3>1. ASSUME NEW e \in Deps \ {d}, Live(e)', address'[e] # NoAddress, profile'[e].mode = "vmid"
          PROVE  address'[e] = Derived(profile'[e].cidr, profile'[e].offset, vmid'[e])
      BY <2>1, <2>5, <3>1 DEF MachinesInv, Live
    <3>2. QED
      BY <2>1, <2>3, <2>5, <3>1
  <2>7. QED
    BY <2>1, <2>2, <2>5, <2>6 DEF MachinesInv
<1>3. ASSUME NEW d \in Deps, CloneFails(d) PROVE MachinesInv'
  <2>1. /\ UNCHANGED <<leases, address, profile>> /\ gone' = gone \cup {d}
        /\ nextVmid' \in Nat \ {0} /\ nextVmid <= nextVmid'
        /\ vmid'[d] \in Nat /\ vmid'[d] <= nextVmid'
        /\ vmid' \in [Deps -> Nat] /\ \A e \in Deps \ {d} : vmid'[e] = vmid[e]
    BY <1>3, NewVmid DEF MachinesInv, CloneFails, config
  <2>2. \A e \in Deps : vmid'[e] <= nextVmid'
    BY <2>1 DEF MachinesInv
  <2>3. QED
    BY <2>1, <2>2 DEF MachinesInv, Live
<1>4. ASSUME NEW d \in Deps, PlaceAgain(d) PROVE MachinesInv'
  <2>1. PICK e \in Deps : address' = [address EXCEPT ![d] = address[e]]
    BY <1>4 DEF PlaceAgain
  <2>2. /\ UNCHANGED <<nextVmid, leases, vmid, profile, gone>> /\ d \in gone
    BY <1>4 DEF PlaceAgain, config
  <2>3. address' \in Placed /\ \A f \in Deps \ {d} : address'[f] = address[f]
    BY <2>1 DEF MachinesInv, Placed
  <2>4. QED
    BY <2>2, <2>3 DEF MachinesInv, Live
<1>5. QED
  BY <1>1, <1>2, <1>3, <1>4
     DEF Next, vars, config, machines, Expose, ExposeFails, ExposeThrows, Delete,
         DeleteThrows, SaveRouterChain, InstallLicense, Clock

LEMMA MachinesInit == Init => MachinesInv
<1> SUFFICES ASSUME Init PROVE MachinesInv
  OBVIOUS
<1>1. profile \in [Deps -> Profiles] /\ vmid = [d \in Deps |-> 0] /\ leases = 0
      /\ nextVmid = FirstVmid /\ address = [d \in Deps |-> NoAddress]
  BY DEF Init
<1>2. QED
  BY <1>1, PortsAssumption DEF MachinesInv, Placed

LEMMA MachinesAlways == Spec => []MachinesInv
  BY MachinesInit, MachinesStep, PTL DEF Spec

(* The addresses that a profile derives from VM ids are hosts of its       *)
(* subnet, and differ for ids that are closer than the subnet is large:    *)
(* for subnets of any size, whatever the offset.                           *)
THEOREM AddressesCorrect == Spec => []AddressesFit
<1>1. MachinesInv => AddressesFit
  <2> SUFFICES ASSUME MachinesInv, NEW d \in Deps, NEW e \in Deps,
                      Live(d), profile[d].mode = "vmid", address[d] # NoAddress,
                      Live(e), profile[e] = profile[d], address[e] # NoAddress
               PROVE  LET cidr == profile[d].cidr
                          size == TwoTo[Bits - cidr.prefix]
                      IN  /\ address[d] \div size = cidr.ip \div size
                          /\ size > 2 => address[d] % size \notin {0, size - 1}
                          /\ vmid[e] - vmid[d] \in 1 .. Span(cidr) - 1 => address[d] # address[e]
    BY DEF AddressesFit
  <2>1. profile[d].cidr \in Cidr /\ profile[d].offset \in Int
    BY ProfilesAssumption DEF MachinesInv
  <2>2. vmid[d] \in Int /\ vmid[e] \in Int
    BY DEF MachinesInv
  <2>3. /\ address[d] = Derived(profile[d].cidr, profile[d].offset, vmid[d])
        /\ address[e] = Derived(profile[d].cidr, profile[d].offset, vmid[e])
    BY DEF MachinesInv
  <2>4. QED
    BY <2>1, <2>2, <2>3, DerivedFits
<1>2. QED
  BY <1>1, MachinesAlways, PTL

(* VMs that are there have ids of their own, and none that was taken       *)
(* before: whatever was placed and deleted meanwhile.                      *)
LiveIdsDiffer ==
  /\ \A d \in Deps : Live(d) => vmid[d] # ForeignVmid
  /\ \A d, e \in Deps : d # e /\ Live(d) /\ Live(e) => vmid[d] # vmid[e]

(* allocateVmid never gives the id of a VM that is there.                  *)
THEOREM IdsCorrect == Spec => []LiveIdsDiffer
<1>1. Init => LiveIdsDiffer
  BY DEF Init, LiveIdsDiffer, Live
<1>2. MachinesInv /\ LiveIdsDiffer /\ [Next]_vars => LiveIdsDiffer'
  <2> SUFFICES ASSUME MachinesInv, LiveIdsDiffer, [Next]_vars PROVE LiveIdsDiffer'
    OBVIOUS
  <2>1. CASE vmid' = vmid /\ gone \subseteq gone'
    BY <2>1 DEF LiveIdsDiffer, Live
  <2>2. ASSUME NEW d \in Deps, Place(d) PROVE LiveIdsDiffer'
    <3>1. CASE vmid[d] # 0
      <4>1. vmid' = vmid /\ gone' = gone
        BY <2>2, <3>1 DEF Place, MachinesInv
      <4>2. QED
        BY <2>1, <4>1
    <3>2. CASE vmid[d] = 0
      <4>1. /\ vmid'[d] = Allocated /\ gone' = gone
            /\ \A e \in Deps \ {d} : vmid'[e] = vmid[e]
        BY <2>2, <3>2 DEF Place, MachinesInv
      <4>2. Allocated # ForeignVmid /\ \A e \in Deps : Live(e) => Allocated # vmid[e]
        BY NewVmid DEF Taken
      <4>3. QED
        BY <4>1, <4>2 DEF LiveIdsDiffer, Live
    <3>3. QED
      BY <3>1, <3>2
  <2>3. ASSUME NEW d \in Deps, CloneFails(d) PROVE LiveIdsDiffer'
    <3>1. /\ gone' = gone \cup {d} /\ \A e \in Deps \ {d} : vmid'[e] = vmid[e]
      BY <2>3 DEF CloneFails, MachinesInv
    <3>2. QED
      BY <3>1 DEF LiveIdsDiffer, Live
  <2>4. ASSUME NEW d \in Deps, PlaceAgain(d) PROVE LiveIdsDiffer'
    BY <2>1, <2>4 DEF PlaceAgain
  <2>5. QED
    BY <2>1, <2>2, <2>3, <2>4
       DEF Next, vars, config, machines, Expose, ExposeFails, ExposeThrows, Delete,
           DeleteThrows, SaveRouterChain, InstallLicense, Clock
<1>3. QED
  BY <1>1, <1>2, MachinesAlways, PTL DEF Spec

-----------------------------------------------------------------------------
(* Rules that are kept.                                                    *)

(* Sequence t has the members of S among the first n of s, in their order: *)
(* f says where.                                                           *)
Embeds(f, t, s, S, n) ==
  /\ f \in [1..Len(t) -> 1..n]
  /\ \A k, l \in 1..Len(t) : k < l => f[k] < f[l]
  /\ \A k \in 1..Len(t) : t[k] = s[f[k]] /\ t[k] \in S
  /\ \A j \in 1..n : s[j] \in S => \E k \in 1..Len(t) : f[k] = j

Keeps(kept, s, S) ==
  kept = [i \in 0..Len(s) |-> IF i = 0 THEN <<>>
                              ELSE IF s[i] \in S THEN Append(kept[i - 1], s[i])
                              ELSE kept[i - 1]]

LEMMA KeptIs ==
  ASSUME NEW X, NEW s, NEW S
  PROVE  s \in Seq(X) => \E kept \in [0..Len(s) -> Seq(X)] :
                           Keeps(kept, s, S) /\ Filtered(s, S) = kept[Len(s)]
<1>0. SUFFICES ASSUME s \in Seq(X)
               PROVE  \E kept \in [0..Len(s) -> Seq(X)] :
                        Keeps(kept, s, S) /\ Filtered(s, S) = kept[Len(s)]
  OBVIOUS
<1> DEFINE Values == Seq(X)
           none   == <<>>
           add    == [n \in Nat |-> [v \in Values |->
                       IF n + 1 <= Len(s) /\ s[n + 1] \in S THEN Append(v, s[n + 1]) ELSE v]]
<1>1. none \in Values /\ add \in [Nat -> [Values -> Values]]
  <2>1. ASSUME NEW n \in Nat, NEW v \in Values, n + 1 <= Len(s)
        PROVE  Append(v, s[n + 1]) \in Values
    <3>1. n + 1 \in 1..Len(s)
      BY <1>0, <2>1
    <3>2. QED
      BY <1>0, <3>1
  <2>2. QED
    BY <1>0, <2>1
<1>2. PICK g \in [Nat -> Values] : g[0] = none /\ \A n \in Nat : g[n + 1] = add[n][g[n]]
  <2> HIDE DEF Values, none, add
  <2>1. QED
    BY <1>1, Recursion, Z3
<1> DEFINE h == [i \in 0..Len(s) |-> g[i]]
<1>3. ASSUME NEW i \in 0..Len(s)
      PROVE  h[i] = IF i = 0 THEN <<>>
                    ELSE IF s[i] \in S THEN Append(h[i - 1], s[i]) ELSE h[i - 1]
  <2>1. CASE i = 0
    BY <1>2, <2>1
  <2>2. CASE i # 0
    <3>1. i - 1 \in Nat /\ (i - 1) + 1 = i /\ i <= Len(s) /\ i - 1 \in 0..Len(s)
      BY <1>0, <2>2
    <3>2. g[i] = add[i - 1][g[i - 1]] /\ g[i - 1] \in Values
      BY <1>2, <3>1
    <3>3. g[i] = IF s[i] \in S THEN Append(g[i - 1], s[i]) ELSE g[i - 1]
      BY <3>1, <3>2
    <3>4. QED
      BY <2>2, <3>1, <3>3
  <2>3. QED
    BY <2>1, <2>2
<1>4. Keeps(h, s, S)
  BY <1>0, <1>3 DEF Keeps
<1> DEFINE kept == CHOOSE k : Keeps(k, s, S)
<1>5. Keeps(kept, s, S)
  <2> HIDE DEF h
  <2>1. QED
    BY <1>4
<1>6. Filtered(s, S) = kept[Len(s)]
  BY DEF Filtered, Keeps
<1> HIDE DEF kept
<1>7. kept \in [0..Len(s) -> Seq(X)]
  <2> DEFINE G == {n \in Nat : n <= Len(s) => kept[n] \in Seq(X)}
  <2>1. 0 \in G
    <3>1. kept[0] = <<>>
      BY <1>0, <1>5 DEF Keeps
    <3>2. <<>> \in Seq(X)
      OBVIOUS
    <3>3. QED
      BY <3>1, <3>2, Zenon
  <2>2. ASSUME NEW n \in Nat, n \in G PROVE n + 1 \in G
    <3>1. CASE n + 1 <= Len(s)
      <4>1. n + 1 \in 0..Len(s) /\ n + 1 \in 1..Len(s) /\ n + 1 # 0 /\ (n + 1) - 1 = n
        BY <1>0, <3>1
      <4>2. kept[n + 1] = IF s[n + 1] \in S THEN Append(kept[n], s[n + 1]) ELSE kept[n]
        BY <1>0, <1>5, <4>1 DEF Keeps
      <4>3. kept[n] \in Seq(X) /\ s[n + 1] \in X
        BY <1>0, <2>2, <3>1, <4>1
      <4>4. ASSUME NEW t \in Seq(X), NEW x \in X PROVE Append(t, x) \in Seq(X)
        OBVIOUS
      <4>5. kept[n + 1] \in Seq(X)
        BY <4>2, <4>3, <4>4, Zenon
      <4>6. QED
        BY <4>5
    <3>2. QED
      BY <3>1
  <2>3. \A n \in Nat : n \in G
    <3> HIDE DEF G
    <3>1. QED
      BY <2>1, <2>2, Induction
  <2>4. \A n \in 0..Len(s) : kept[n] \in Seq(X)
    BY <1>0, <2>3
  <2>5. QED
    BY <1>0, <1>5, <2>4 DEF Keeps
<1>8. QED
  BY <1>0, <1>5, <1>6, <1>7

(* What Filtered leaves are the members of the set, in their order.        *)
LEMMA FilteredIs ==
  ASSUME NEW X, NEW s \in Seq(X), NEW S
  PROVE  /\ Filtered(s, S) \in Seq(X) /\ Len(Filtered(s, S)) <= Len(s)
         /\ \E f : Embeds(f, Filtered(s, S), s, S, Len(s))
<1>1. PICK kept \in [0..Len(s) -> Seq(X)] :
             Keeps(kept, s, S) /\ Filtered(s, S) = kept[Len(s)]
  BY KeptIs
<1> DEFINE G == {n \in Nat : n <= Len(s) => Len(kept[n]) <= n /\ \E f : Embeds(f, kept[n], s, S, n)}
<1>2. 0 \in G
  <2>1. kept[0] = <<>>
    BY <1>1 DEF Keeps
  <2>2. Embeds(<<>>, <<>>, s, S, 0)
    BY DEF Embeds
  <2>3. QED
    BY <2>1, <2>2
<1>3. ASSUME NEW n \in Nat, n \in G PROVE n + 1 \in G
  <2> SUFFICES ASSUME n + 1 <= Len(s)
               PROVE  Len(kept[n + 1]) <= n + 1 /\ \E f : Embeds(f, kept[n + 1], s, S, n + 1)
    OBVIOUS
  <2>1. PICK f : Embeds(f, kept[n], s, S, n)
    BY <1>3
  <2>2. Len(kept[n]) <= n /\ kept[n] \in Seq(X) /\ Len(kept[n]) \in Nat
    BY <1>1, <1>3
  <2>3. n + 1 \in 1..Len(s) /\ s[n + 1] \in X
    OBVIOUS
  <2>4. kept[n + 1] = IF s[n + 1] \in S THEN Append(kept[n], s[n + 1]) ELSE kept[n]
    <3>1. n + 1 \in 0..Len(s) /\ n + 1 # 0 /\ (n + 1) - 1 = n
      BY <2>3
    <3>2. QED
      BY <1>1, <3>1 DEF Keeps
  <2> DEFINE t == kept[n]
             u == kept[n + 1]
  <2> HIDE DEF G
  <2>5. CASE s[n + 1] \in S
    <3> DEFINE g == [k \in 1..Len(t) + 1 |-> IF k <= Len(t) THEN f[k] ELSE n + 1]
    <3>1. u = Append(t, s[n + 1]) /\ Len(u) = Len(t) + 1 /\ u[Len(t) + 1] = s[n + 1]
          /\ \A k \in 1..Len(t) : u[k] = t[k]
      BY <2>2, <2>3, <2>4, <2>5
    <3>2. g[Len(t) + 1] = n + 1 /\ \A k \in 1..Len(t) : g[k] = f[k]
      BY <2>2
    <3>3. \A k \in 1..Len(t) : f[k] \in 1..n
      BY <2>1 DEF Embeds
    <3>4. g \in [1..Len(u) -> 1..n + 1]
      <4>1. \A k \in 1..Len(t) + 1 : g[k] \in 1..n + 1
        BY <2>2, <3>2, <3>3
      <4>2. QED
        BY <3>1, <4>1
    <3> HIDE DEF g, t, u
    <3>5. \A k, l \in 1..Len(u) : k < l => g[k] < g[l]
      <4>1. ASSUME NEW k \in 1..Len(u), NEW l \in 1..Len(u), k < l PROVE g[k] < g[l]
        <5>1. Len(t) \in Nat
          BY <2>2 DEF t
        <5>2. k \in 1..Len(t)
          BY <3>1, <4>1, <5>1
        <5>3. CASE l = Len(t) + 1
          BY <3>2, <3>3, <5>2, <5>3
        <5>4. CASE l # Len(t) + 1
          <6>1. l \in 1..Len(t)
            BY <3>1, <5>1, <5>4
          <6>2. f[k] < f[l]
            BY <2>1, <4>1, <5>2, <6>1 DEF Embeds, t
          <6>3. QED
            BY <3>2, <5>2, <6>1, <6>2
        <5>5. QED
          BY <5>3, <5>4
      <4>2. QED
        BY <4>1
    <3>6. \A k \in 1..Len(u) : u[k] = s[g[k]] /\ u[k] \in S
      <4>1. \A k \in 1..Len(t) : t[k] = s[f[k]] /\ t[k] \in S
        BY <2>1 DEF Embeds, t
      <4>2. \A k \in 1..Len(u) : k \in 1..Len(t) \/ k = Len(t) + 1
        BY <2>2, <3>1 DEF t
      <4>3. QED
        BY <2>5, <3>1, <3>2, <4>1, <4>2
    <3>7. \A j \in 1..n + 1 : s[j] \in S => \E k \in 1..Len(u) : g[k] = j
      <4>1. ASSUME NEW j \in 1..n + 1, s[j] \in S PROVE \E k \in 1..Len(u) : g[k] = j
        <5>1. CASE j = n + 1
          <6>1. Len(t) + 1 \in 1..Len(u)
            BY <2>2, <3>1 DEF t
          <6>2. QED
            BY <3>2, <5>1, <6>1
        <5>2. CASE j # n + 1
          <6>1. j \in 1..n
            BY <5>2
          <6>2. PICK k \in 1..Len(t) : f[k] = j
            BY <2>1, <4>1, <6>1 DEF Embeds, t
          <6>3. k \in 1..Len(u) /\ g[k] = j
            BY <2>2, <3>1, <3>2, <6>2 DEF t
          <6>4. QED
            BY <6>3
        <5>3. QED
          BY <5>1, <5>2
      <4>2. QED
        BY <4>1
    <3>8. Embeds(g, u, s, S, n + 1)
      BY <3>4, <3>5, <3>6, <3>7 DEF Embeds
    <3>9. Len(u) <= n + 1
      BY <2>2, <3>1 DEF t
    <3>10. QED
      BY <3>8, <3>9 DEF u
  <2>6. CASE s[n + 1] \notin S
    <3>1. kept[n + 1] = kept[n]
      BY <2>4, <2>6
    <3>2. f \in [1..Len(t) -> 1..n + 1]
      BY <2>1 DEF Embeds
    <3>3. \A j \in 1..n + 1 : s[j] \in S => j \in 1..n
      BY <2>6
    <3>4. Embeds(f, kept[n], s, S, n + 1)
      BY <2>1, <3>2, <3>3 DEF Embeds
    <3>5. QED
      BY <2>2, <3>1, <3>4
  <2>7. QED
    BY <2>5, <2>6
<1>4. \A n \in Nat : n \in G
  <2> HIDE DEF G
  <2>1. QED
    BY <1>2, <1>3, Induction
<1>5. Len(s) \in G
  BY <1>4
<1>6. QED
  BY <1>1, <1>5

(* The first member of M in a sequence of rules: its target.               *)
First(s, M) ==
  LET hits == {k \in DOMAIN s : s[k] \in M}
  IN  IF hits = {} THEN NoAddress
      ELSE s[CHOOSE k \in hits : \A l \in hits : k <= l].target

(* Sequence t has the members of M that s has, and f says where.           *)
Picks(f, t, s, M) ==
  /\ Len(s) \in Nat /\ Len(t) \in Nat /\ DOMAIN s = 1..Len(s) /\ DOMAIN t = 1..Len(t)
  /\ f \in [1..Len(t) -> 1..Len(s)]
  /\ \A k, l \in 1..Len(t) : k < l => f[k] < f[l]
  /\ \A k \in 1..Len(t) : t[k] = s[f[k]]
  /\ \A j \in 1..Len(s) : s[j] \in M => \E k \in 1..Len(t) : f[k] = j

(* The first of them is the same.                                          *)
LEMMA FirstIsKept ==
  ASSUME NEW f, NEW t, NEW s, NEW M, Picks(f, t, s, M)
  PROVE  First(t, M) = First(s, M)
<1> DEFINE n == Len(t)
           m == Len(s)
<1>0. /\ n \in Nat /\ m \in Nat /\ DOMAIN s = 1..m /\ DOMAIN t = 1..n
      /\ f \in [1..n -> 1..m]
      /\ \A k, l \in 1..n : k < l => f[k] < f[l]
      /\ \A k \in 1..n : t[k] = s[f[k]]
      /\ \A j \in 1..m : s[j] \in M => \E k \in 1..n : f[k] = j
  BY DEF Picks
<1> HIDE DEF n, m
<1> DEFINE hs == {j \in DOMAIN s : s[j] \in M}
           ht == {k \in DOMAIN t : t[k] \in M}
<1>1. hs \in SUBSET Nat /\ ht \in SUBSET Nat
  BY <1>0
<1>2. \A k \in ht : k \in 1..n /\ f[k] \in hs
  BY <1>0
<1>3. \A j \in hs : \E k \in ht : f[k] = j
  BY <1>0
<1>4. CASE ht = {}
  <2>1. hs = {}
    BY <1>3, <1>4
  <2>2. QED
    BY <1>4, <2>1 DEF First
<1>5. CASE ht # {}
  <2>1. hs # {}
    BY <1>2, <1>5
  <2> DEFINE a == CHOOSE k \in ht : \A l \in ht : k <= l
             b == CHOOSE k \in hs : \A l \in hs : k <= l
  <2>2. a \in ht /\ \A l \in ht : a <= l
    <3>1. \E k \in ht : \A l \in ht : k <= l
      <4> HIDE DEF hs, ht
      <4>1. QED
        BY <1>1, <1>5, Least
    <3>2. QED
      BY <3>1
  <2>3. b \in hs /\ \A l \in hs : b <= l
    <3>1. \E k \in hs : \A l \in hs : k <= l
      <4> HIDE DEF hs, ht
      <4>1. QED
        BY <1>1, <2>1, Least
    <3>2. QED
      BY <3>1
  <2>4. First(t, M) = t[a].target /\ First(s, M) = s[b].target
    BY <1>5, <2>1 DEF First
  <2> HIDE DEF a, b
  <2>5. f[a] = b
    <3>1. PICK k \in ht : f[k] = b
      BY <1>3, <2>3
    <3>2. a <= k /\ b <= f[a] /\ a \in 1..n /\ k \in 1..n
      BY <1>0, <1>2, <2>2, <2>3, <3>1
    <3>3. a < k => f[a] < b
      BY <1>0, <3>1, <3>2
    <3>4. f[a] \in Int /\ b \in Int
      BY <1>0, <3>1, <3>2
    <3>5. QED
      BY <3>1, <3>2, <3>3, <3>4
  <2>6. t[a] = s[b]
    BY <1>0, <1>2, <2>2, <2>5
  <2>7. QED
    BY <2>4, <2>6
<1>6. QED
  BY <1>4, <1>5

-----------------------------------------------------------------------------
(* What requests do to the rules.                                          *)

Target == Routers \cup Int \cup {NoAddress}
Port == {p.public : p \in Plans}
Protocol == {p.protocol : p \in Plans}
Rule == [port : Port, protocol : Protocol, target : Target]
Hop == [router : Routers, port : Port, protocol : Protocol, target : Target]
Rules == [Routers -> Seq(Rule)]
HasRule(rules, r, rule) == \E k \in 1..Len(rules[r]) : rules[r][k] = rule

LEMMA TowardsIsFirst ==
  ASSUME NEW rules \in Rules, NEW hop \in Hop
  PROVE  Towards(rules, hop) =
           First(rules[hop.router],
                 {rule \in Rule : rule.port = hop.port /\ rule.protocol = hop.protocol})
<1> DEFINE s == rules[hop.router]
           M == {rule \in Rule : rule.port = hop.port /\ rule.protocol = hop.protocol}
<1>1. s \in Seq(Rule)
  BY DEF Rules, Hop
<1>2. \A k \in DOMAIN s : s[k] \in Rule
  BY <1>1
<1> DEFINE hits == {k \in DOMAIN s : s[k].port = hop.port /\ s[k].protocol = hop.protocol}
<1>3. hits = {k \in DOMAIN s : s[k] \in M}
  BY <1>2
<1>4. Towards(rules, hop) = IF hits = {} THEN NoAddress
                            ELSE s[CHOOSE k \in hits : \A l \in hits : k <= l].target
  BY DEF Towards
<1> HIDE DEF hits
<1>5. First(s, M) = IF hits = {} THEN NoAddress
                    ELSE s[CHOOSE k \in hits : \A l \in hits : k <= l].target
  BY <1>3 DEF First
<1>6. QED
  BY <1>4, <1>5

(* A request for port p, of some hops, turns the rules before into those   *)
(* after: rules are added for its hops only, and the rules of other ports  *)
(* pass packets on as before.                                              *)
Effect(before, after, hops, p) ==
  /\ after \in Rules
  /\ \A r \in Routers : \A k \in 1..Len(after[r]) :
       \/ HasRule(before, r, after[r][k])
       \/ \E i \in 1..Len(hops) : hops[i].router = r /\ after[r][k] = Forward(hops[i])
  /\ \A hop \in Hop : hop.port # p => Towards(after, hop) = Towards(before, hop)

Hops(p) == {hop \in Hop : hop.port = p}

LEMMA ForwardIsRule == \A hop \in Hop : Forward(hop) \in Rule /\ Forward(hop).port = hop.port
  BY DEF Hop, Rule, Forward

LEMMA Applying ==
  ASSUME NEW rules \in Rules, NEW p, NEW hops \in Seq(Hops(p))
  PROVE  Effect(rules, ApplyRules(rules, hops), hops, p)
<1> DEFINE after == ApplyRules(rules, hops)
           At(r) == {hops[i] : i \in {j \in DOMAIN hops : hops[j].router = r}}
           Of(r) == Filtered(hops, At(r))
           New(r) == [k \in DOMAIN Of(r) |-> Forward(Of(r)[k])]
<1>1. ASSUME NEW r \in Routers
      PROVE  /\ New(r) \in Seq(Rule) /\ Len(New(r)) \in Nat
             /\ \A k \in 1..Len(New(r)) :
                  /\ New(r)[k].port = p
                  /\ \E i \in 1..Len(hops) : hops[i].router = r /\ New(r)[k] = Forward(hops[i])
  <2> DEFINE h == Of(r)
             new == [k \in DOMAIN h |-> Forward(h[k])]
  <2>1. h \in Seq(Hops(p)) /\ \E f : Embeds(f, h, hops, At(r), Len(hops))
    BY FilteredIs
  <2>2. \A k \in 1..Len(h) : h[k] \in Hop /\ h[k].port = p /\ h[k] \in At(r)
    <3> HIDE DEF h, At
    <3>1. \A k \in 1..Len(h) : h[k] \in At(r)
      BY <2>1 DEF Embeds
    <3>2. \A k \in 1..Len(h) : h[k] \in Hops(p)
      BY <2>1
    <3>3. QED
      BY <3>1, <3>2 DEF Hops
  <2>3. \A k \in 1..Len(h) : \E i \in 1..Len(hops) : hops[i].router = r /\ h[k] = hops[i]
    <3> HIDE DEF h
    <3>1. DOMAIN hops = 1..Len(hops)
      OBVIOUS
    <3>2. QED
      BY <2>2, <3>1
  <2> HIDE DEF h
  <2>4. new \in Seq(Rule) /\ Len(new) = Len(h) /\ Len(h) \in Nat
    <3>1. \A k \in 1..Len(h) : Forward(h[k]) \in Rule
      BY <2>2, ForwardIsRule
    <3>2. QED
      BY <2>1, <3>1
  <2>5. \A k \in 1..Len(h) : new[k] = Forward(h[k]) /\ new[k].port = p
    BY <2>1, <2>2, ForwardIsRule
  <2>6. /\ new \in Seq(Rule) /\ Len(new) \in Nat
        /\ \A k \in 1..Len(new) :
             /\ new[k].port = p
             /\ \E i \in 1..Len(hops) : hops[i].router = r /\ new[k] = Forward(hops[i])
    <3> HIDE DEF new
    <3>1. QED
      BY <2>3, <2>4, <2>5
  <2>7. QED
    BY <2>6 DEF h
<1> HIDE DEF New
<1>2. \A r \in Routers : after[r] = rules[r] \o New(r)
  BY DEF ApplyRules, New
<1>3. after \in Rules
  <2>1. after = [r \in Routers |-> rules[r] \o New(r)]
    BY DEF ApplyRules, New
  <2>2. \A r \in Routers : rules[r] \o New(r) \in Seq(Rule)
    BY <1>1 DEF Rules
  <2> HIDE DEF after
  <2>3. QED
    BY <2>1, <2>2 DEF Rules
<1>4. ASSUME NEW r \in Routers
      PROVE  /\ Len(rules[r]) \in Nat /\ Len(after[r]) \in Nat
             /\ Len(rules[r]) <= Len(after[r])
             /\ \A k \in 1..Len(rules[r]) : after[r][k] = rules[r][k]
             /\ \A k \in 1..Len(after[r]) : k \notin 1..Len(rules[r]) =>
                  /\ after[r][k].port = p
                  /\ \E i \in 1..Len(hops) : hops[i].router = r /\ after[r][k] = Forward(hops[i])
  <2> DEFINE s == rules[r]
             u == after[r]
             new == New(r)
  <2>1. s \in Seq(Rule) /\ new \in Seq(Rule) /\ u = s \o new
    BY <1>1, <1>2 DEF Rules
  <2>2. \A k \in 1..Len(new) :
          /\ new[k].port = p
          /\ \E i \in 1..Len(hops) : hops[i].router = r /\ new[k] = Forward(hops[i])
    BY <1>1
  <2> HIDE DEF s, u, new
  <2>3. Len(u) = Len(s) + Len(new) /\ Len(s) \in Nat /\ Len(new) \in Nat
    BY <2>1
  <2>4. \A k \in 1..Len(u) : u[k] = IF k <= Len(s) THEN s[k] ELSE new[k - Len(s)]
    BY <2>1
  <2>5. \A k \in 1..Len(s) : u[k] = s[k]
    BY <2>3, <2>4
  <2>6. ASSUME NEW k \in 1..Len(u), k \notin 1..Len(s)
        PROVE  k - Len(s) \in 1..Len(new) /\ u[k] = new[k - Len(s)]
    BY <2>3, <2>4, <2>6
  <2>7. \A k \in 1..Len(u) : k \notin 1..Len(s) =>
          /\ u[k].port = p
          /\ \E i \in 1..Len(hops) : hops[i].router = r /\ u[k] = Forward(hops[i])
    BY <2>2, <2>6
  <2>8. QED
    BY <2>3, <2>5, <2>7 DEF s, u
<1> HIDE DEF after
<1>5. ASSUME NEW r \in Routers, NEW k \in 1..Len(after[r])
      PROVE  \/ HasRule(rules, r, after[r][k])
             \/ \E i \in 1..Len(hops) : hops[i].router = r /\ after[r][k] = Forward(hops[i])
  BY <1>4 DEF HasRule
<1>6. ASSUME NEW hop \in Hop, hop.port # p
      PROVE  Towards(after, hop) = Towards(rules, hop)
  <2> DEFINE s == rules[hop.router]
             u == after[hop.router]
             M == {rule \in Rule : rule.port = hop.port /\ rule.protocol = hop.protocol}
             f == [k \in 1..Len(s) |-> k]
  <2>1. hop.router \in Routers
    BY DEF Hop
  <2>2. s \in Seq(Rule) /\ u \in Seq(Rule)
    BY <1>3, <2>1 DEF Rules
  <2>3. Len(s) <= Len(u) /\ (\A k \in 1..Len(s) : u[k] = s[k])
        /\ \A k \in 1..Len(u) : k \notin 1..Len(s) => u[k].port = p
    BY <1>4, <2>1
  <2>4. Towards(after, hop) = First(u, M) /\ Towards(rules, hop) = First(s, M)
    BY <1>3, TowardsIsFirst
  <2>5. \A k \in 1..Len(u) : u[k] \in M => k \in 1..Len(s)
    BY <1>6, <2>3
  <2> HIDE DEF M, s, u
  <2>6. Picks(f, s, u, M)
    BY <2>2, <2>3, <2>5 DEF Picks
  <2> HIDE DEF f
  <2>7. First(s, M) = First(u, M)
    BY <2>6, FirstIsKept
  <2>8. QED
    BY <2>4, <2>7
<1>7. QED
  BY <1>3, <1>5, <1>6 DEF Effect, after

LEMMA Removing ==
  ASSUME NEW rules \in Rules, NEW p, NEW hops \in Seq(Hops(p))
  PROVE  /\ Effect(rules, RemoveRules(rules, hops), hops, p)
         /\ \A r \in Routers :
              /\ Len(RemoveRules(rules, hops)[r]) <= Len(rules[r])
              /\ \A k \in 1..Len(RemoveRules(rules, hops)[r]) :
                   /\ HasRule(rules, r, RemoveRules(rules, hops)[r][k])
                   /\ \A i \in 1..Len(hops) :
                        hops[i].router = r => ~Same(RemoveRules(rules, hops)[r][k], hops[i])
<1> DEFINE after == RemoveRules(rules, hops)
           Removed(r, rule) == \E i \in DOMAIN hops : hops[i].router = r /\ Same(rule, hops[i])
           Left(r) == {rule \in {rules[r][k] : k \in DOMAIN rules[r]} : ~Removed(r, rule)}
<1>1. after = [r \in Routers |-> Filtered(rules[r], Left(r))]
  BY DEF RemoveRules
<1>2. ASSUME NEW r \in Routers
      PROVE  /\ rules[r] \in Seq(Rule) /\ after[r] \in Seq(Rule)
             /\ Len(after[r]) <= Len(rules[r])
             /\ \E f : Embeds(f, after[r], rules[r], Left(r), Len(rules[r]))
  <2>1. rules[r] \in Seq(Rule)
    BY DEF Rules
  <2>2. after[r] = Filtered(rules[r], Left(r))
    BY <1>1
  <2> HIDE DEF after, Left
  <2>3. QED
    BY <2>1, <2>2, FilteredIs
<1>3. after \in Rules
  BY <1>1, <1>2 DEF Rules
<1> HIDE DEF after
<1>4. ASSUME NEW r \in Routers, NEW k \in 1..Len(after[r])
      PROVE  HasRule(rules, r, after[r][k]) /\ ~Removed(r, after[r][k])
  <2>1. after[r][k] \in Left(r)
    BY <1>2 DEF Embeds
  <2>2. DOMAIN rules[r] = 1..Len(rules[r])
    BY <1>2
  <2>3. QED
    BY <2>1, <2>2 DEF HasRule
<1>5. \A i \in 1..Len(hops) : hops[i] \in Hop /\ hops[i].port = p
  BY DEF Hops
<1>6. ASSUME NEW hop \in Hop, hop.port # p
      PROVE  Towards(after, hop) = Towards(rules, hop)
  <2> DEFINE s == rules[hop.router]
             t == after[hop.router]
             M == {rule \in Rule : rule.port = hop.port /\ rule.protocol = hop.protocol}
  <2>1. hop.router \in Routers
    BY DEF Hop
  <2>2. s \in Seq(Rule) /\ t \in Seq(Rule)
    BY <1>3, <2>1 DEF Rules
  <2>3. PICK f : Embeds(f, t, s, Left(hop.router), Len(s))
    BY <1>2, <2>1
  <2>4. Towards(after, hop) = First(t, M) /\ Towards(rules, hop) = First(s, M)
    BY <1>3, TowardsIsFirst
  <2>5. \A j \in 1..Len(s) : s[j] \in M => s[j] \in Left(hop.router)
    BY <1>5, <1>6, <2>2 DEF Same
  <2> HIDE DEF M, s, t, Left
  <2>6. Picks(f, t, s, M)
    BY <2>2, <2>3, <2>5 DEF Embeds, Picks
  <2>7. First(t, M) = First(s, M)
    BY <2>6, FirstIsKept
  <2>8. QED
    BY <2>4, <2>7
<1>7. Effect(rules, after, hops, p)
  BY <1>3, <1>4, <1>6 DEF Effect
<1>8. DOMAIN hops = 1..Len(hops)
  OBVIOUS
<1>9. QED
  BY <1>2, <1>4, <1>7, <1>8 DEF after

(* What is applied and removed again leaves no rule of its own.            *)
LEMMA Undoing ==
  ASSUME NEW rules \in Rules, NEW p, NEW hops \in Seq(Hops(p))
  PROVE  LET after == RemoveRules(ApplyRules(rules, hops), hops) IN
         /\ Effect(rules, after, hops, p)
         /\ \A r \in Routers : \A k \in 1..Len(after[r]) : HasRule(rules, r, after[r][k])
<1> DEFINE between == ApplyRules(rules, hops)
           after   == RemoveRules(between, hops)
<1>1. Effect(rules, between, hops, p)
  BY Applying
<1> HIDE DEF between
<1>2. between \in Rules
  BY <1>1 DEF Effect
<1>3. /\ Effect(between, after, hops, p)
      /\ \A r \in Routers : \A k \in 1..Len(after[r]) :
           /\ HasRule(between, r, after[r][k])
           /\ \A i \in 1..Len(hops) : hops[i].router = r => ~Same(after[r][k], hops[i])
  BY <1>2, Removing
<1> HIDE DEF after
<1>4. ASSUME NEW r \in Routers, NEW k \in 1..Len(after[r])
      PROVE  HasRule(rules, r, after[r][k])
  <2>1. PICK l \in 1..Len(between[r]) : between[r][l] = after[r][k]
    BY <1>3 DEF HasRule
  <2>2. ASSUME NEW i \in 1..Len(hops), hops[i].router = r, between[r][l] = Forward(hops[i])
        PROVE  FALSE
    <3>1. ~Same(after[r][k], hops[i])
      BY <1>3, <2>2
    <3>2. QED
      BY <2>1, <2>2, <3>1 DEF Forward, Same
  <2>3. QED
    BY <1>1, <2>1, <2>2 DEF Effect
<1>5. \A hop \in Hop : hop.port # p => Towards(after, hop) = Towards(rules, hop)
  BY <1>1, <1>3 DEF Effect
<1>6. Effect(rules, after, hops, p)
  BY <1>3, <1>4, <1>5 DEF Effect
<1>7. QED
  BY <1>4, <1>6 DEF after, between

-----------------------------------------------------------------------------
(* Plans.                                                                  *)

Outcome == {"none", "open", "unsure", "failed", "deleted"}

RoutersType ==
  /\ chain \in Seq(Routers) /\ plan \in [Deps -> Plans]
  /\ address \in Placed
  /\ forwards \in Rules /\ outcome \in [Deps -> Outcome]
  /\ opened \in [Deps -> Seq(Hop)] /\ moved \in SUBSET Deps

LEMMA PlanIs ==
  ASSUME RoutersType, NEW d \in Deps
  PROVE  /\ PlanExposure(d) \in Seq(Hops(plan[d].public))
         /\ Len(PlanExposure(d)) = Len(chain) /\ Len(chain) \in Nat
         /\ \A j \in 1..Len(chain) :
              /\ PlanExposure(d)[j].router = chain[j]
              /\ PlanExposure(d)[j].port = plan[d].public
              /\ PlanExposure(d)[j].target \in Routers \cup {address[d]}
<1> DEFINE p == plan[d].public
           hop(i) == [router |-> chain[i], port |-> p, protocol |-> plan[d].protocol,
                      target |-> IF i = 1 THEN address[d] ELSE chain[i - 1]]
<1>1. /\ chain \in Seq(Routers) /\ Len(chain) \in Nat /\ DOMAIN chain = 1..Len(chain)
      /\ p \in Port /\ plan[d].protocol \in Protocol
      /\ address[d] \in Target
  BY DEF RoutersType, Placed, Port, Protocol, Target
<1>2. PlanExposure(d) = [i \in 1..Len(chain) |-> hop(i)]
  BY <1>1 DEF PlanExposure
<1>3. ASSUME NEW i \in 1..Len(chain)
      PROVE  hop(i) \in Hops(p) /\ hop(i).target \in Routers \cup {address[d]}
  <2>1. chain[i] \in Routers
    BY <1>1
  <2>2. i # 1 => chain[i - 1] \in Routers
    <3>1. i # 1 => i - 1 \in 1..Len(chain)
      BY <1>1
    <3>2. QED
      BY <1>1, <3>1
  <2>3. (IF i = 1 THEN address[d] ELSE chain[i - 1]) \in Routers \cup {address[d]}
    BY <2>2
  <2>4. (IF i = 1 THEN address[d] ELSE chain[i - 1]) \in Target
    BY <1>1, <2>3 DEF Target
  <2> HIDE DEF p
  <2>5. QED
    BY <1>1, <2>1, <2>3, <2>4 DEF Hops, Hop
<1>4. \A i \in 1..Len(chain) : hop(i).router = chain[i] /\ hop(i).port = p
  OBVIOUS
<1> HIDE DEF hop
<1>5. [i \in 1..Len(chain) |-> hop(i)] \in Seq(Hops(p))
  BY <1>1, <1>3
<1>6. QED
  BY <1>1, <1>2, <1>3, <1>4, <1>5

(* A part of a plan has hops of the plan.                                  *)
LEMMA PartIs ==
  ASSUME RoutersType, NEW d \in Deps, NEW m \in 1..Len(chain) + 1, NEW n \in 0..Len(chain)
  PROVE  LET part == SubSeq(PlanExposure(d), m, n) IN
         /\ part \in Seq(Hops(plan[d].public))
         /\ \A i \in 1..Len(part) : \E j \in 1..Len(chain) : part[i] = PlanExposure(d)[j]
<1> DEFINE hops == PlanExposure(d)
           part == SubSeq(hops, m, n)
           H == Hops(plan[d].public)
<1>1. hops \in Seq(H) /\ Len(hops) = Len(chain) /\ Len(chain) \in Nat
  BY PlanIs
<1> HIDE DEF hops, H
<1>2. /\ Len(part) = (IF m <= n THEN (n - m) + 1 ELSE 0)
      /\ \A i \in 1..Len(part) : part[i] = hops[(m + i) - 1] /\ (m + i) - 1 \in 1..Len(chain)
  <2>1. m \in Int /\ n \in Int
    BY <1>1
  <2>2. Len(part) = (IF m <= n THEN (n - m) + 1 ELSE 0)
    BY <1>1, <2>1
  <2>3. ASSUME NEW i \in 1..Len(part)
        PROVE  part[i] = hops[(m + i) - 1] /\ (m + i) - 1 \in 1..Len(chain)
    BY <1>1, <2>1, <2>2
  <2>4. QED
    BY <2>2, <2>3
<1>3. part \in Seq(H)
  BY <1>1, <1>2
<1> HIDE DEF part
<1>4. \A i \in 1..Len(part) : \E j \in 1..Len(chain) : part[i] = hops[j]
  BY <1>2
<1>5. QED
  BY <1>3, <1>4 DEF part, hops, H

-----------------------------------------------------------------------------
(* Paying for chains.                                                      *)

LicenceInv ==
  /\ \A k \in keys : k.env \in {"production", "development"}
  /\ stored = {} \/ \E l \in Licences : stored = {l}
  /\ now \in Times

LEMMA MayOpenIsPaid ==
  ASSUME RoutersType, LicenceInv, MayOpen, NEW d \in Deps, CanPlan(d)
  PROVE  Len(chain) \in {1} \cup UNION {Paid(l, now) : l \in stored}
<1>1. Len(chain) \in Nat /\ Len(chain) # 0
  BY DEF RoutersType, CanPlan
<1>2. CASE Len(chain) = 1
  BY <1>2
<1>3. CASE Len(chain) # 1
  <2>1. /\ "multi_router_chains" \in Entitlements.features
        /\ Len(chain) >= 3 => "unlimited_router_hops" \in Entitlements.features
    <3>1. ~(Len(chain) <= 1)
      BY <1>1, <1>3
    <3>2. QED
      BY <3>1, Zenon DEF MayOpen
  <2>2. stored # {}
    BY <2>1 DEF Entitlements, ComputeEntitlements, Features
  <2>3. PICK l \in Licences : stored = {l}
    BY <2>2 DEF LicenceInv
  <2> DEFINE status == VerifyLicense(l, keys, now, AllowDev)
  <2>4. Entitlements = ComputeEntitlements(status)
    <3>1. (CHOOSE x \in stored : TRUE) = l
      BY <2>3
    <3>2. QED
      BY <2>2, <3>1 DEF Entitlements
  <2>5. /\ status.state \in {"active", "grace"}
        /\ status.tier \in {"advanced_user", "powerfullness"}
        /\ Len(chain) >= 3 => status.tier = "powerfullness"
    <3> HIDE DEF status
    <3>1. QED
      BY <2>1, <2>4 DEF ComputeEntitlements, Features
  <2>6. /\ l.fault = "none" /\ now >= l.issued
        /\ \E k \in keys : k.id = l.key /\ (k.env = "development" => AllowDev)
        /\ status = [state |-> IF now <= l.expires THEN "active"
                               ELSE IF now <= l.expires + l.grace * Day THEN "grace" ELSE "expired",
                     tier |-> IF now <= l.expires + l.grace * Day THEN l.tier ELSE "home"]
    <3>1. status.state # "invalid"
      BY <2>5
    <3>2. now \in Int /\ (l.fault = "none" => l.issued \in Int)
      BY PortsAssumption, LicencesAssumption DEF LicenceInv
    <3>3. QED
      BY <3>1, <3>2 DEF VerifyLicense, Invalid
  <2>7. l.tier \in Tiers /\ l.expires \in Int /\ l.grace \in Nat /\ now \in Int
        /\ l.grace * Day = l.grace
    BY <2>6, PortsAssumption, LicencesAssumption DEF LicenceInv, Day
  <2>8. now <= l.expires + l.grace /\ l.tier = status.tier
    BY <2>5, <2>6, <2>7
  <2>9. \E k \in keys : k.id = l.key /\ (AllowDev \/ k.env = "production")
    BY <2>6 DEF LicenceInv
  <2> HIDE DEF status
  <2>10. Paid(l, now) = CASE l.tier = "home" -> {1}
                          [] l.tier = "advanced_user" -> {1, 2}
                          [] l.tier = "powerfullness" -> Nat
    BY <2>6, <2>8, <2>9 DEF Paid
  <2>11. Len(chain) \in Paid(l, now)
    <3>1. CASE status.tier = "powerfullness"
      BY <1>1, <2>8, <2>10, <3>1
    <3>2. CASE status.tier = "advanced_user"
      <4>1. ~(Len(chain) >= 3)
        BY <2>5, <3>2
      <4>2. Len(chain) \in {1, 2}
        <5> DEFINE n == Len(chain)
        <5>1. n \in Nat /\ n # 0 /\ ~(n >= 3)
          BY <1>1, <4>1
        <5> HIDE DEF n
        <5>2. n = 1 \/ n = 2
          BY <5>1
        <5>3. QED
          BY <5>2 DEF n
      <4>3. QED
        BY <2>8, <2>10, <3>2, <4>2
    <3>3. QED
      BY <2>5, <3>1, <3>2
  <2>12. QED
    BY <2>3, <2>11
<1>4. QED
  BY <1>2, <1>3

-----------------------------------------------------------------------------
(* Ports.                                                                  *)

(* A rule with the port of d sends packets to a router or to the VM of d,  *)
(* and unless the chain was replaced under it, it is a rule of the plan    *)
(* with the chain as it is, which some request of d may have left.         *)
RuleFits(d, r, rule) ==
  /\ address[d] # NoAddress /\ rule.target \in Routers \cup {address[d]}
  /\ d \notin moved =>
       /\ MayHaveRules(d)
       /\ \E j \in 1..Len(chain) : chain[j] = r /\ rule = Forward(PlanExposure(d)[j])

RulesFit(d) ==
  \A r \in Routers : \A k \in 1..Len(forwards[r]) :
    forwards[r][k].port = plan[d].public => RuleFits(d, r, forwards[r][k])

(* A deployment is reached along the hops of its last exposure.            *)
IsReached(d) ==
  outcome[d] = "open" =>
    /\ opened[d] # <<>> /\ opened[d] \in Seq(Hops(plan[d].public))
    /\ Reached(forwards, opened[d]) = address[d]

PortsInv == RoutersType /\ \A d \in Deps : Alone(d) => RulesFit(d) /\ IsReached(d)

LEMMA ReachedIsKept ==
  ASSUME NEW rules, NEW after, NEW hops, Len(hops) \in Nat \ {0},
         \A i \in 1..Len(hops) : Towards(after, hops[i]) = Towards(rules, hops[i])
  PROVE  Reached(after, hops) = Reached(rules, hops)
<1>1. 1 \in 1..Len(hops) /\ \A i \in 2..Len(hops) : i \in 1..Len(hops)
  OBVIOUS
<1>2. Towards(after, hops[1]) = Towards(rules, hops[1])
  BY <1>1
<1>3. (\A i \in 2..Len(hops) : Towards(after, hops[i]) = hops[i - 1].router)
        <=> (\A i \in 2..Len(hops) : Towards(rules, hops[i]) = hops[i - 1].router)
  BY <1>1
<1>4. QED
  BY <1>2, <1>3, Zenon DEF Reached

(* What all the requests of d have in common, that of its hops being those *)
(* of its plan.                                                            *)
Request(d, hops) ==
  /\ CanPlan(d)
  /\ hops \in Seq(Hops(plan[d].public))
  /\ \A i \in 1..Len(hops) : \E j \in 1..Len(chain) : hops[i] = PlanExposure(d)[j]
  /\ Effect(forwards, forwards', hops, plan[d].public)
  /\ UNCHANGED <<chain, plan, address, moved, readdressed>>
  /\ outcome' \in [Deps -> Outcome] /\ opened' \in [Deps -> Seq(Hop)]
  /\ \A e \in Deps \ {d} : outcome'[e] = outcome[e] /\ opened'[e] = opened[e]
  /\ Alone(d) /\ d \notin moved /\ outcome'[d] \notin {"open", "unsure"} =>
       \A r \in Routers : \A k \in 1..Len(forwards'[r]) : forwards'[r][k].port # plan[d].public

LEMMA RulesComeFrom ==
  ASSUME NEW d \in Deps, NEW hops, Request(d, hops),
         NEW r \in Routers, NEW rule, HasRule(forwards', r, rule)
  PROVE  \/ HasRule(forwards, r, rule)
         \/ \E i \in 1..Len(hops) : hops[i].router = r /\ rule = Forward(hops[i])
<1>1. PICK k \in 1..Len(forwards'[r]) : rule = forwards'[r][k]
  BY DEF HasRule
<1>2. Effect(forwards, forwards', hops, plan[d].public)
  BY DEF Request
<1>3. \/ HasRule(forwards, r, forwards'[r][k])
      \/ \E i \in 1..Len(hops) : hops[i].router = r /\ forwards'[r][k] = Forward(hops[i])
  BY <1>2 DEF Effect
<1>4. QED
  BY <1>1, <1>3

(* A request keeps what other deployments have on the routers, and leaves  *)
(* rules of its plan.                                                      *)
LEMMA RequestKeeps ==
  ASSUME PortsInv, NEW d \in Deps, NEW hops, Request(d, hops), IsReached(d)' \/ ~Alone(d)
  PROVE  PortsInv'
<1>1. RoutersType'
  BY DEF PortsInv, RoutersType, Request, Effect
<1>2. /\ UNCHANGED <<chain, plan, address, moved, readdressed>>
      /\ forwards \in Rules /\ forwards' \in Rules
  BY DEF PortsInv, RoutersType, Request, Effect
<1>3. ASSUME NEW e \in Deps PROVE Alone(e)' = Alone(e) /\ PlanExposure(e)' = PlanExposure(e)
  BY <1>2 DEF Alone, PlanExposure
<1>4. ASSUME NEW e \in Deps \ {d}, Alone(e) PROVE RulesFit(e)'
  <2> SUFFICES ASSUME NEW r \in Routers, NEW rule, HasRule(forwards', r, rule),
                      rule.port = plan[e].public
               PROVE  RuleFits(e, r, rule)'
    BY <1>2 DEF RulesFit, HasRule
  <2>1. plan[e].public # plan[d].public
    BY <1>4 DEF Alone
  <2>2. HasRule(forwards, r, rule)
    <3>1. ASSUME NEW i \in 1..Len(hops), rule = Forward(hops[i]) PROVE FALSE
      <4>1. hops[i] \in Hops(plan[d].public)
        BY DEF Request
      <4>2. QED
        BY <2>1, <3>1, <4>1 DEF Forward, Hops
    <3>2. QED
      BY <3>1, RulesComeFrom
  <2>3. RuleFits(e, r, rule)
    BY <1>4, <2>2 DEF PortsInv, RulesFit, HasRule
  <2>4. outcome'[e] = outcome[e]
    BY DEF Request
  <2>5. QED
    BY <1>2, <1>3, <2>3, <2>4 DEF RuleFits, MayHaveRules
<1>5. ASSUME NEW e \in Deps \ {d}, Alone(e) PROVE IsReached(e)'
  <2> SUFFICES ASSUME outcome'[e] = "open"
               PROVE  /\ opened[e] # <<>> /\ opened[e] \in Seq(Hops(plan[e].public))
                      /\ Reached(forwards', opened[e]) = address[e]
    BY <1>2 DEF IsReached, Request
  <2>1. plan[e].public # plan[d].public /\ outcome[e] = "open"
    BY <1>5 DEF Alone, Request
  <2>2. /\ opened[e] # <<>> /\ opened[e] \in Seq(Hops(plan[e].public))
        /\ Reached(forwards, opened[e]) = address[e]
    BY <1>5, <2>1 DEF PortsInv, IsReached
  <2>3. \A i \in 1..Len(opened[e]) : Towards(forwards', opened[e][i]) = Towards(forwards, opened[e][i])
    <3>1. \A i \in 1..Len(opened[e]) : opened[e][i] \in Hops(plan[e].public)
      BY <2>2
    <3>2. QED
      BY <2>1, <3>1 DEF Hops, Request, Effect
  <2>4. Len(opened[e]) \in Nat \ {0}
    BY <2>2
  <2>5. Reached(forwards', opened[e]) = Reached(forwards, opened[e])
    BY <2>3, <2>4, ReachedIsKept
  <2>6. QED
    BY <2>2, <2>5
<1>6. ASSUME Alone(d) PROVE RulesFit(d)'
  <2> SUFFICES ASSUME NEW r \in Routers, NEW rule, HasRule(forwards', r, rule),
                      rule.port = plan[d].public
               PROVE  RuleFits(d, r, rule)'
    BY <1>2 DEF RulesFit, HasRule
  <2>1. d \notin moved => outcome'[d] \in {"open", "unsure"}
    BY <1>6 DEF Request, HasRule
  <2> DEFINE Fits ==
        /\ address[d] # NoAddress /\ rule.target \in Routers \cup {address[d]}
        /\ d \notin moved => \E j \in 1..Len(chain) : chain[j] = r /\ rule = Forward(PlanExposure(d)[j])
  <2>2. Fits
    <3>1. CASE HasRule(forwards, r, rule)
      BY <1>6, <3>1 DEF PortsInv, RulesFit, RuleFits, HasRule
    <3>2. ASSUME NEW i \in 1..Len(hops), hops[i].router = r, rule = Forward(hops[i])
          PROVE  Fits
      <4>1. PICK j \in 1..Len(chain) : hops[i] = PlanExposure(d)[j]
        BY DEF Request
      <4>2. chain[j] = r /\ PlanExposure(d)[j].target \in Routers \cup {address[d]}
        BY <3>2, <4>1, PlanIs DEF PortsInv
      <4>3. rule.target = PlanExposure(d)[j].target /\ rule = Forward(PlanExposure(d)[j])
        BY <3>2, <4>1 DEF Forward
      <4>4. address[d] # NoAddress
        BY DEF Request, CanPlan
      <4>5. QED
        BY <4>2, <4>3, <4>4
    <3>3. QED
      BY <3>1, <3>2, RulesComeFrom
  <2>3. QED
    BY <1>2, <1>3, <2>1, <2>2 DEF RuleFits, MayHaveRules
<1>7. QED
  BY <1>1, <1>3, <1>4, <1>5, <1>6 DEF PortsInv

(* Where a packet for a port ends is what some rule for the port says.     *)
LEMMA ReachedIsATarget ==
  ASSUME NEW rules \in Rules, NEW p, NEW hops \in Seq(Hops(p)), hops # <<>>,
         Reached(rules, hops) # NoAddress
  PROVE  \E r \in Routers, rule \in Rule :
           HasRule(rules, r, rule) /\ rule.port = p /\ Reached(rules, hops) = rule.target
<1> DEFINE hop == hops[1]
           r == hop.router
           s == rules[r]
           M == {rule \in Rule : rule.port = hop.port /\ rule.protocol = hop.protocol}
           hits == {k \in DOMAIN s : s[k] \in M}
<1>1. hop \in Hop /\ hop.port = p /\ r \in Routers
  BY DEF Hops, Hop
<1>2. s \in Seq(Rule) /\ DOMAIN s = 1..Len(s)
  BY <1>1 DEF Rules
<1>3. Reached(rules, hops) = Towards(rules, hop)
  BY DEF Reached
<1>4. Towards(rules, hop) = First(s, M)
  BY <1>1, TowardsIsFirst
<1>5. hits \in SUBSET Nat
  BY <1>2
<1>6. First(s, M) = IF hits = {} THEN NoAddress
                    ELSE s[CHOOSE k \in hits : \A l \in hits : k <= l].target
  BY DEF First
<1>7. hits # {}
  BY <1>3, <1>4, <1>6
<1>8. \E k \in hits : \A l \in hits : k <= l
  <2> HIDE DEF hits
  <2>1. QED
    BY <1>5, <1>7, Least
<1>9. PICK k \in hits : Reached(rules, hops) = s[k].target
  BY <1>3, <1>4, <1>6, <1>7, <1>8
<1>10. s[k] \in Rule /\ HasRule(rules, r, s[k]) /\ s[k].port = p
  BY <1>1, <1>2 DEF HasRule
<1>11. QED
  BY <1>1, <1>9, <1>10

LEMMA ExposeKeeps ==
  ASSUME PortsInv, NEW d \in Deps, Expose(d)
  PROVE  PortsInv'
<1> DEFINE hops == PlanExposure(d)
           p == plan[d].public
<1>1. /\ hops \in Seq(Hops(p)) /\ Len(hops) = Len(chain) /\ Len(chain) \in Nat
      /\ hops \in Seq(Hop)
  <2>1. hops \in Seq(Hops(p)) /\ Len(hops) = Len(chain) /\ Len(chain) \in Nat
    BY PlanIs DEF PortsInv
  <2> HIDE DEF hops
  <2>2. QED
    BY <2>1 DEF Hops
<1>2. /\ CanPlan(d) /\ UNCHANGED <<chain, plan, address, moved, readdressed>>
      /\ forwards' = ApplyRules(forwards, hops) /\ Reached(forwards', hops) = NatVm
      /\ opened' = [opened EXCEPT ![d] = hops]
      /\ outcome' = [outcome EXCEPT ![d] = "open"]
  BY DEF Expose, config, machines, Probe
<1>3. RoutersType
  BY DEF PortsInv
<1>4. hops # <<>>
  BY <1>1, <1>2 DEF CanPlan, RoutersType, PortsInv
<1> HIDE DEF hops
<1>5. Effect(forwards, forwards', hops, p)
  BY <1>1, <1>2, <1>3, Applying DEF RoutersType
<1>6. /\ opened' \in [Deps -> Seq(Hop)] /\ opened'[d] = hops
      /\ outcome' \in [Deps -> Outcome] /\ outcome'[d] = "open"
      /\ \A e \in Deps \ {d} : outcome'[e] = outcome[e] /\ opened'[e] = opened[e]
  BY <1>1, <1>2, <1>3 DEF RoutersType, Outcome
<1>7. \A i \in 1..Len(hops) : \E j \in 1..Len(chain) : hops[i] = PlanExposure(d)[j]
  BY <1>1 DEF hops
<1>8. Request(d, hops)
  BY <1>1, <1>2, <1>5, <1>6, <1>7 DEF Request
<1>9. ASSUME Alone(d) PROVE IsReached(d)'
  <2>1. NatVm # NoAddress /\ NatVm \notin Routers
    <3>1. TwoTo[Bits] \in Nat
      BY BitsAssumption, TwoToGrows
    <3>2. NatVm \in Int
      BY <3>1, PortsAssumption DEF Address
    <3>3. QED
      BY <3>2, BitsAssumption, PortsAssumption
  <2>2. PICK r \in Routers, rule \in Rule :
          HasRule(forwards', r, rule) /\ rule.port = p /\ NatVm = rule.target
    <3>1. forwards' \in Rules
      BY <1>5 DEF Effect
    <3>2. QED
      BY <1>1, <1>2, <1>4, <2>1, <3>1, ReachedIsATarget
  <2>3. rule.target \in Routers \cup {address[d]}
    <3>1. CASE HasRule(forwards, r, rule)
      BY <1>9, <2>2, <3>1 DEF PortsInv, RulesFit, RuleFits, HasRule
    <3>2. ASSUME NEW i \in 1..Len(hops), rule = Forward(hops[i])
          PROVE  rule.target \in Routers \cup {address[d]}
      <4>1. hops[i].target \in Routers \cup {address[d]}
        BY <1>1, <1>3, PlanIs DEF hops
      <4>2. QED
        BY <3>2, <4>1 DEF Forward
    <3>3. QED
      BY <1>8, <2>2, <3>1, <3>2, RulesComeFrom
  <2>4. address[d] = NatVm
    BY <2>1, <2>2, <2>3
  <2>5. QED
    BY <1>1, <1>2, <1>4, <1>6, <2>4 DEF IsReached
<1>10. QED
  BY <1>8, <1>9, RequestKeeps

LEMMA ExposeFailsKeeps ==
  ASSUME PortsInv, NEW d \in Deps, ExposeFails(d)
  PROVE  PortsInv'
<1> DEFINE p == plan[d].public
<1>1. PICK n \in 0..Len(chain) :
        forwards' = RemoveRules(ApplyRules(forwards, SubSeq(PlanExposure(d), 1, n)),
                                SubSeq(PlanExposure(d), 1, n))
  BY PlanIs DEF ExposeFails, PortsInv
<1> DEFINE hops == SubSeq(PlanExposure(d), 1, n)
<1>2. /\ CanPlan(d) /\ UNCHANGED <<chain, plan, address, moved, readdressed, opened>>
      /\ outcome' = [outcome EXCEPT ![d] = IF MayHaveRules(d) THEN "unsure" ELSE "failed"]
  BY DEF ExposeFails, config, machines
<1>3. RoutersType
  BY DEF PortsInv
<1>4. /\ hops \in Seq(Hops(p))
      /\ \A i \in 1..Len(hops) : \E j \in 1..Len(chain) : hops[i] = PlanExposure(d)[j]
  <2>1. Len(chain) \in Nat
    BY <1>3, PlanIs
  <2>2. 1 \in 1..Len(chain) + 1
    BY <2>1
  <2>3. QED
    BY <1>3, <2>2, PartIs
<1> HIDE DEF hops
<1>5. /\ Effect(forwards, forwards', hops, p)
      /\ \A r \in Routers : \A k \in 1..Len(forwards'[r]) : HasRule(forwards, r, forwards'[r][k])
  BY <1>1, <1>3, <1>4, Undoing DEF RoutersType, hops
<1>6. /\ outcome' \in [Deps -> Outcome] /\ outcome'[d] # "open"
      /\ outcome'[d] = "unsure" \/ ~MayHaveRules(d)
      /\ \A e \in Deps \ {d} : outcome'[e] = outcome[e]
  BY <1>2, <1>3 DEF RoutersType, Outcome
<1>7. ASSUME Alone(d), d \notin moved, outcome'[d] \notin {"open", "unsure"},
             NEW r \in Routers, NEW k \in 1..Len(forwards'[r]), forwards'[r][k].port = p
      PROVE  FALSE
  BY <1>5, <1>6, <1>7 DEF PortsInv, RulesFit, RuleFits, HasRule
<1>8. Request(d, hops)
  BY <1>2, <1>3, <1>4, <1>5, <1>6, <1>7 DEF Request, RoutersType
<1>9. IsReached(d)'
  BY <1>6 DEF IsReached
<1>10. QED
  BY <1>8, <1>9, RequestKeeps

LEMMA ExposeThrowsKeeps ==
  ASSUME PortsInv, NEW d \in Deps, ExposeThrows(d)
  PROVE  PortsInv'
<1> DEFINE p == plan[d].public
<1>1. PICK n \in 0..Len(chain) - 1 : forwards' = ApplyRules(forwards, SubSeq(PlanExposure(d), 1, n))
  BY DEF ExposeThrows
<1> DEFINE hops == SubSeq(PlanExposure(d), 1, n)
<1>2. /\ CanPlan(d) /\ UNCHANGED <<chain, plan, address, moved, readdressed, opened>>
      /\ outcome' = [outcome EXCEPT ![d] = "unsure"]
  BY DEF ExposeThrows, config, machines
<1>3. RoutersType
  BY DEF PortsInv
<1>4. /\ hops \in Seq(Hops(p))
      /\ \A i \in 1..Len(hops) : \E j \in 1..Len(chain) : hops[i] = PlanExposure(d)[j]
  <2>1. Len(chain) \in Nat
    BY <1>3, PlanIs
  <2>2. 1 \in 1..Len(chain) + 1 /\ n \in 0..Len(chain)
    BY <2>1
  <2>3. QED
    BY <1>3, <2>2, PartIs
<1> HIDE DEF hops
<1>5. Effect(forwards, forwards', hops, p)
  BY <1>1, <1>3, <1>4, Applying DEF RoutersType, hops
<1>6. /\ outcome' \in [Deps -> Outcome] /\ outcome'[d] = "unsure"
      /\ \A e \in Deps \ {d} : outcome'[e] = outcome[e]
  BY <1>2, <1>3 DEF RoutersType, Outcome
<1>7. Request(d, hops)
  BY <1>2, <1>3, <1>4, <1>5, <1>6 DEF Request, RoutersType
<1>8. IsReached(d)'
  BY <1>6 DEF IsReached
<1>9. QED
  BY <1>7, <1>8, RequestKeeps

LEMMA DeleteKeeps ==
  ASSUME PortsInv, NEW d \in Deps, Delete(d)
  PROVE  PortsInv'
<1> DEFINE p == plan[d].public
           hops == PlanExposure(d)
<1>1. /\ CanPlan(d) /\ UNCHANGED <<chain, plan, address, moved, readdressed, opened>>
      /\ forwards' = RemoveRules(forwards, hops)
      /\ outcome' = [outcome EXCEPT ![d] = "deleted"]
  BY DEF Delete, config
<1>2. RoutersType
  BY DEF PortsInv
<1>3. /\ hops \in Seq(Hops(p)) /\ Len(hops) = Len(chain)
      /\ \A j \in 1..Len(chain) : hops[j].router = chain[j]
      /\ \A i \in 1..Len(hops) : \E j \in 1..Len(chain) : hops[i] = PlanExposure(d)[j]
  BY <1>2, PlanIs
<1> HIDE DEF hops
<1>4. /\ Effect(forwards, forwards', hops, p)
      /\ \A r \in Routers : \A k \in 1..Len(forwards'[r]) :
           /\ HasRule(forwards, r, forwards'[r][k])
           /\ \A i \in 1..Len(hops) : hops[i].router = r => ~Same(forwards'[r][k], hops[i])
  BY <1>1, <1>2, <1>3, Removing DEF RoutersType
<1>5. /\ outcome' \in [Deps -> Outcome] /\ outcome'[d] = "deleted"
      /\ \A e \in Deps \ {d} : outcome'[e] = outcome[e]
  BY <1>1, <1>2 DEF RoutersType, Outcome
<1>6. ASSUME Alone(d), d \notin moved,
             NEW r \in Routers, NEW k \in 1..Len(forwards'[r]), forwards'[r][k].port = p
      PROVE  FALSE
  <2>1. RuleFits(d, r, forwards'[r][k])
    BY <1>4, <1>6 DEF PortsInv, RulesFit, HasRule
  <2>2. PICK j \in 1..Len(chain) : chain[j] = r /\ forwards'[r][k] = Forward(hops[j])
    BY <1>6, <2>1 DEF RuleFits, hops
  <2>3. hops[j].router = r /\ Same(forwards'[r][k], hops[j])
    <3>1. Same(Forward(hops[j]), hops[j])
      BY DEF Forward, Same
    <3>2. QED
      BY <1>3, <2>2, <3>1
  <2>4. QED
    BY <1>3, <1>4, <2>3
<1>7. Request(d, hops)
  BY <1>1, <1>2, <1>3, <1>4, <1>5, <1>6 DEF Request, RoutersType
<1>8. IsReached(d)'
  BY <1>5 DEF IsReached
<1>9. QED
  BY <1>7, <1>8, RequestKeeps

LEMMA DeleteThrowsKeeps ==
  ASSUME PortsInv, NEW d \in Deps, DeleteThrows(d)
  PROVE  PortsInv'
<1> DEFINE p == plan[d].public
<1>1. PICK n \in 1..Len(chain) :
        forwards' = RemoveRules(forwards, SubSeq(PlanExposure(d), n + 1, Len(chain)))
  BY DEF DeleteThrows
<1> DEFINE hops == SubSeq(PlanExposure(d), n + 1, Len(chain))
<1>2. /\ CanPlan(d) /\ UNCHANGED <<chain, plan, address, moved, readdressed, opened>>
      /\ outcome' = [outcome EXCEPT ![d] = "unsure"]
  BY DEF DeleteThrows, config, machines
<1>3. RoutersType
  BY DEF PortsInv
<1>4. /\ hops \in Seq(Hops(p))
      /\ \A i \in 1..Len(hops) : \E j \in 1..Len(chain) : hops[i] = PlanExposure(d)[j]
  <2>1. Len(chain) \in Nat
    BY <1>3, PlanIs
  <2>2. n + 1 \in 1..Len(chain) + 1 /\ Len(chain) \in 0..Len(chain)
    BY <2>1
  <2>3. QED
    BY <1>3, <2>2, PartIs
<1> HIDE DEF hops
<1>5. Effect(forwards, forwards', hops, p)
  BY <1>1, <1>3, <1>4, Removing DEF RoutersType, hops
<1>6. /\ outcome' \in [Deps -> Outcome] /\ outcome'[d] = "unsure"
      /\ \A e \in Deps \ {d} : outcome'[e] = outcome[e]
  BY <1>2, <1>3 DEF RoutersType, Outcome
<1>7. Request(d, hops)
  BY <1>2, <1>3, <1>4, <1>5, <1>6 DEF Request, RoutersType
<1>8. IsReached(d)'
  BY <1>6 DEF IsReached
<1>9. QED
  BY <1>7, <1>8, RequestKeeps

LEMMA PlaceKeeps ==
  ASSUME PortsInv, MachinesInv', NEW d \in Deps, Place(d)
  PROVE  PortsInv'
<1>1. /\ UNCHANGED <<chain, plan, forwards, outcome, opened, moved, readdressed>>
      /\ address[d] = NoAddress /\ outcome[d] = "none"
      /\ \A e \in Deps \ {d} : address'[e] = address[e]
  BY DEF Place, config, PortsInv, RoutersType, Placed
<1>2. RoutersType'
  BY <1>1 DEF PortsInv, RoutersType, MachinesInv
<1>3. ASSUME NEW e \in Deps, Alone(e)' PROVE RulesFit(e)' /\ IsReached(e)'
  <2>1. Alone(e)
    BY <1>1, <1>3 DEF Alone
  <2>2. RulesFit(e) /\ IsReached(e)
    BY <2>1 DEF PortsInv
  <2>3. CASE e = d
    <3>1. RulesFit(d)'
      BY <1>1, <2>2, <2>3 DEF RulesFit, RuleFits
    <3>2. IsReached(d)'
      BY <1>1 DEF IsReached
    <3>3. QED
      BY <2>3, <3>1, <3>2
  <2>4. CASE e # d
    <3>1. address'[e] = address[e] /\ PlanExposure(e)' = PlanExposure(e)
      BY <1>1, <2>4 DEF PlanExposure
    <3>2. RulesFit(e)'
      BY <1>1, <2>2, <3>1 DEF RulesFit, RuleFits, MayHaveRules
    <3>3. IsReached(e)'
      BY <1>1, <2>2, <3>1 DEF IsReached
    <3>4. QED
      BY <3>2, <3>3
  <2>5. QED
    BY <2>3, <2>4
<1>4. QED
  BY <1>2, <1>3 DEF PortsInv

(* An address that changes puts a deployment that may have rules among the *)
(* readdressed; no other has a rule for its port.                          *)
LEMMA PlaceAgainKeeps ==
  ASSUME PortsInv, MachinesInv', NEW d \in Deps, PlaceAgain(d)
  PROVE  PortsInv'
<1>1. /\ UNCHANGED <<chain, plan, forwards, outcome, opened, moved>>
      /\ readdressed \subseteq readdressed'
      /\ \A e \in Deps \ {d} : address'[e] = address[e]
      /\ address' # address /\ (MayHaveRules(d) \/ d \in moved) => d \in readdressed'
  BY DEF PlaceAgain, config, PortsInv, RoutersType, Placed
<1>2. RoutersType'
  BY <1>1 DEF PortsInv, RoutersType, MachinesInv
<1>3. ASSUME NEW e \in Deps, Alone(e)' PROVE RulesFit(e)' /\ IsReached(e)'
  <2>1. Alone(e)
    BY <1>1, <1>3 DEF Alone
  <2>2. RulesFit(e) /\ IsReached(e)
    BY <2>1 DEF PortsInv
  <2>3. CASE e = d /\ address' # address
    <3>1. ~MayHaveRules(d) /\ d \notin moved
      BY <1>1, <1>3, <2>3 DEF Alone
    <3>2. RulesFit(d)'
      BY <1>1, <2>2, <2>3, <3>1 DEF RulesFit, RuleFits
    <3>3. IsReached(d)'
      BY <1>1, <3>1 DEF IsReached, MayHaveRules
    <3>4. QED
      BY <2>3, <3>2, <3>3
  <2>4. CASE e # d \/ address' = address
    <3>1. address'[e] = address[e] /\ PlanExposure(e)' = PlanExposure(e)
      BY <1>1, <2>4 DEF PlanExposure
    <3>2. RulesFit(e)'
      BY <1>1, <2>2, <3>1 DEF RulesFit, RuleFits, MayHaveRules
    <3>3. IsReached(e)'
      BY <1>1, <2>2, <3>1 DEF IsReached
    <3>4. QED
      BY <3>2, <3>3
  <2>5. QED
    BY <2>3, <2>4
<1>4. QED
  BY <1>2, <1>3 DEF PortsInv

(* A new chain puts every deployment that may have rules among the moved;  *)
(* no other has a rule for its port.                                       *)
LEMMA SaveRouterChainKeeps ==
  ASSUME PortsInv, SaveRouterChain
  PROVE  PortsInv'
<1>1. /\ UNCHANGED <<plan, address, forwards, outcome, opened, readdressed>>
      /\ chain' \in Seq(Routers)
      /\ moved' = IF chain' = chain THEN moved ELSE moved \cup {d \in Deps : MayHaveRules(d)}
  BY PortsAssumption DEF SaveRouterChain, config, machines
<1>2. RoutersType'
  BY <1>1 DEF PortsInv, RoutersType
<1>3. ASSUME NEW d \in Deps, Alone(d)' PROVE RulesFit(d)' /\ IsReached(d)'
  <2>1. Alone(d)
    BY <1>1, <1>3 DEF Alone
  <2>2. RulesFit(d) /\ IsReached(d)
    BY <2>1 DEF PortsInv
  <2>3. IsReached(d)'
    BY <1>1, <2>2 DEF IsReached
  <2>4. CASE chain' = chain
    <3>1. PlanExposure(d)' = PlanExposure(d) /\ moved' = moved
      BY <1>1, <2>4 DEF PlanExposure
    <3>2. RulesFit(d)'
      BY <1>1, <2>2, <2>4, <3>1 DEF RulesFit, RuleFits, MayHaveRules
    <3>3. QED
      BY <2>3, <3>2
  <2>5. CASE chain' # chain
    <3>1. d \in moved \/ MayHaveRules(d) => d \in moved'
      BY <1>1, <2>5
    <3>2. RulesFit(d)'
      BY <1>1, <2>2, <3>1 DEF RulesFit, RuleFits
    <3>3. QED
      BY <2>3, <3>2
  <2>6. QED
    BY <2>4, <2>5
<1>4. QED
  BY <1>2, <1>3 DEF PortsInv

LEMMA PortsStep == PortsInv /\ MachinesInv' /\ [Next]_vars => PortsInv'
<1> SUFFICES ASSUME PortsInv, MachinesInv', [Next]_vars PROVE PortsInv'
  OBVIOUS
<1>1. CASE UNCHANGED <<chain, plan, address, forwards, outcome, opened, moved, readdressed>>
  <2>1. \A d \in Deps : PlanExposure(d)' = PlanExposure(d) /\ Alone(d)' = Alone(d)
    BY <1>1 DEF PlanExposure, Alone
  <2>2. RoutersType'
    BY <1>1 DEF PortsInv, RoutersType
  <2>3. ASSUME NEW d \in Deps, Alone(d) PROVE RulesFit(d)' /\ IsReached(d)'
    <3>1. RulesFit(d) /\ IsReached(d)
      BY <2>3 DEF PortsInv
    <3>2. RulesFit(d)'
      BY <1>1, <2>1, <3>1 DEF RulesFit, RuleFits, MayHaveRules
    <3>3. IsReached(d)'
      BY <1>1, <3>1 DEF IsReached
    <3>4. QED
      BY <3>2, <3>3
  <2>4. QED
    BY <2>1, <2>2, <2>3 DEF PortsInv
<1>2. ASSUME NEW d \in Deps, Place(d) PROVE PortsInv'
  BY <1>2, PlaceKeeps
<1>3. ASSUME NEW d \in Deps, Expose(d) PROVE PortsInv'
  BY <1>3, ExposeKeeps
<1>4. ASSUME NEW d \in Deps, ExposeFails(d) PROVE PortsInv'
  BY <1>4, ExposeFailsKeeps
<1>5. ASSUME NEW d \in Deps, ExposeThrows(d) PROVE PortsInv'
  BY <1>5, ExposeThrowsKeeps
<1>6. ASSUME NEW d \in Deps, Delete(d) PROVE PortsInv'
  BY <1>6, DeleteKeeps
<1>7. ASSUME NEW d \in Deps, DeleteThrows(d) PROVE PortsInv'
  BY <1>7, DeleteThrowsKeeps
<1>8. CASE SaveRouterChain
  BY <1>8, SaveRouterChainKeeps
<1>9. ASSUME NEW d \in Deps, PlaceAgain(d) PROVE PortsInv'
  BY <1>9, PlaceAgainKeeps
<1>10. CASE (\E d \in Deps : CloneFails(d)) \/ InstallLicense \/ Clock \/ UNCHANGED vars
  BY <1>1, <1>10 DEF CloneFails, InstallLicense, Clock, vars, config, machines
<1>11. QED
  BY <1>2, <1>3, <1>4, <1>5, <1>6, <1>7, <1>8, <1>9, <1>10 DEF Next

LEMMA PortsInit == Init => PortsInv
<1> SUFFICES ASSUME Init PROVE PortsInv
  OBVIOUS
<1>1. /\ chain \in Seq(Routers) /\ plan \in [Deps -> Plans] /\ moved = {}
      /\ address = [d \in Deps |-> NoAddress] /\ forwards = [r \in Routers |-> <<>>]
      /\ outcome = [d \in Deps |-> "none"] /\ opened = [d \in Deps |-> <<>>]
  BY PortsAssumption DEF Init
<1>2. RoutersType
  BY <1>1 DEF RoutersType, Placed, Rules, Outcome
<1>3. \A d \in Deps : RulesFit(d) /\ IsReached(d)
  BY <1>1 DEF RulesFit, IsReached
<1>4. QED
  BY <1>2, <1>3 DEF PortsInv

LEMMA PortsAlways == Spec => []PortsInv
<1>1. PortsInv /\ MachinesInv /\ [Next]_vars => PortsInv' /\ MachinesInv'
  BY PortsStep, MachinesStep
<1>2. QED
  BY <1>1, PortsInit, MachinesInit, PTL DEF Spec

(* A deployment that has its port for itself, and one address while it has *)
(* rules, is reached at its public address once its exposure went well,    *)
(* and has no rule left once it failed or was deleted: with any number of  *)
(* deployments on the same routers, chains of any length and any sequence  *)
(* of their requests.                                                      *)
THEOREM PortsCorrect == Spec => []PortsMatchOutcome
<1>1. PortsInv => PortsMatchOutcome
  <2> SUFFICES ASSUME PortsInv, NEW d \in Deps, Alone(d)
               PROVE  /\ outcome[d] = "open" => Reached(forwards, opened[d]) = address[d]
                      /\ outcome[d] \in {"none", "failed", "deleted"} /\ d \notin moved => Untouched(d)
    BY DEF PortsMatchOutcome
  <2>1. RulesFit(d) /\ IsReached(d)
    BY DEF PortsInv
  <2>2. \A r \in Routers : DOMAIN forwards[r] = 1..Len(forwards[r])
    BY DEF PortsInv, RoutersType, Rules
  <2>3. outcome[d] \in {"none", "failed", "deleted"} => ~MayHaveRules(d)
    BY DEF MayHaveRules
  <2>4. QED
    BY <2>1, <2>2, <2>3 DEF RulesFit, RuleFits, IsReached, Untouched
<1>2. QED
  BY <1>1, PortsAlways, PTL

-----------------------------------------------------------------------------
(* Longer chains.                                                          *)

LEMMA LicenceAlways == Spec => []LicenceInv
<1>1. Init => LicenceInv
  <2> SUFFICES ASSUME Init PROVE LicenceInv
    OBVIOUS
  <2>1. PICK file \in KeySources, inline \in KeySources : keys = LoadPublicLicenseKeys(file, inline)
    BY DEF Init
  <2>2. \A k \in keys : k.env \in {"production", "development"}
    BY <2>1 DEF LoadPublicLicenseKeys, ValidateKey, Valid
  <2>3. QED
    BY <2>2 DEF Init, LicenceInv
<1>2. LicenceInv /\ [Next]_vars => LicenceInv'
  <2> SUFFICES ASSUME LicenceInv, [Next]_vars PROVE LicenceInv'
    OBVIOUS
  <2>1. CASE UNCHANGED <<keys, stored, now>>
    BY <2>1 DEF LicenceInv
  <2>2. CASE InstallLicense
    BY <2>2 DEF InstallLicense, config, LicenceInv
  <2>3. CASE Clock
    BY <2>3 DEF Clock, config, LicenceInv
  <2>4. QED
    BY <2>1, <2>2, <2>3 DEF Next, vars, config, licensing, Place, CloneFails, PlaceAgain,
                            Expose, ExposeFails, ExposeThrows, Delete, DeleteThrows, SaveRouterChain
<1>3. QED
  BY <1>1, <1>2, PTL DEF Spec

LEMMA LongerIsPaid ==
  ASSUME PortsInv, LicenceInv, [Next]_vars,
         NEW r \in Routers, Len(forwards'[r]) > Len(forwards[r])
  PROVE  Len(chain) \in {1} \cup UNION {Paid(l, now) : l \in stored}
<1>1. RoutersType /\ Len(forwards[r]) \in Nat
  BY DEF PortsInv, RoutersType, Rules
<1>2. forwards' # forwards
  BY <1>1
<1>3. ASSUME NEW d \in Deps, Expose(d) \/ ExposeFails(d) \/ ExposeThrows(d)
      PROVE  Len(chain) \in {1} \cup UNION {Paid(l, now) : l \in stored}
  <2>1. MayOpen /\ CanPlan(d)
    BY <1>3 DEF Expose, ExposeFails, ExposeThrows
  <2>2. QED
    BY <1>1, <2>1, MayOpenIsPaid
<1>4. ASSUME NEW d \in Deps, Delete(d) PROVE FALSE
  <2>1. forwards' = RemoveRules(forwards, PlanExposure(d))
    BY <1>4 DEF Delete
  <2>2. PlanExposure(d) \in Seq(Hops(plan[d].public))
    BY <1>1, PlanIs
  <2>3. Len(forwards'[r]) <= Len(forwards[r])
    BY <1>1, <2>1, <2>2, Removing DEF RoutersType
  <2>4. QED
    BY <1>1, <2>3
<1>5. ASSUME NEW d \in Deps, DeleteThrows(d) PROVE FALSE
  <2>1. PICK n \in 1..Len(chain) :
          forwards' = RemoveRules(forwards, SubSeq(PlanExposure(d), n + 1, Len(chain)))
    BY <1>5 DEF DeleteThrows
  <2>2. SubSeq(PlanExposure(d), n + 1, Len(chain)) \in Seq(Hops(plan[d].public))
    <3>1. Len(chain) \in Nat
      BY <1>1, PlanIs
    <3>2. n + 1 \in 1..Len(chain) + 1 /\ Len(chain) \in 0..Len(chain)
      BY <3>1
    <3>3. QED
      BY <1>1, <3>2, PartIs
  <2>3. Len(forwards'[r]) <= Len(forwards[r])
    BY <1>1, <2>1, <2>2, Removing DEF RoutersType
  <2>4. QED
    BY <1>1, <2>3
<1>6. QED
  BY <1>2, <1>3, <1>4, <1>5 DEF Next, vars, Place, CloneFails, PlaceAgain, SaveRouterChain,
                                  InstallLicense, Clock

(* A rule is added along a chain only if the licence pays for its length   *)
(* when it is added: for any licences, keys and times.                     *)
THEOREM LongChainsCorrect == Spec => LongChainsArePaid
<1>1. PortsInv /\ LicenceInv /\ [Next]_vars =>
        [(\E r \in Routers : Len(forwards'[r]) > Len(forwards[r])) =>
           Len(chain) \in {1} \cup UNION {Paid(l, now) : l \in stored}]_vars
  BY LongerIsPaid
<1>2. QED
  BY <1>1, PortsAlways, LicenceAlways, PTL DEF Spec, LongChainsArePaid
=============================================================================
