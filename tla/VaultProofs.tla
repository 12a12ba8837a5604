----------------------------- MODULE VaultProofs ------------------------------
(***************************************************************************)
(* Proofs about module Vault, for any number of clients, references,       *)
(* secrets, keys, calls, rotations and crashes: its types, that the vault  *)
(* file is not torn and its records can be decrypted as long as no calls   *)
(* share a temporary file, and that what the vault acknowledged is in it.  *)
(***************************************************************************)
EXTENDS Vault, TLAPS

Writing == {"create", "write", "rename"}

(* What the handlers rely on at each await.                                *)
CallOK(c) ==
  /\ call[c].pc = "idle" => call[c] = NoCall
  /\ call[c].pc # "idle" => mode = "open"
  /\ call[c].pc \in Writing => call[c].snap \in Records
  /\ call[c].pc \in {"reencrypt", "promote", "unstage"} => call[c].op = "rotate"
  /\ call[c].op = "rotate" => call[c].new \in Keys

VaultInv ==
  /\ VaultTypeOK
  /\ mode # "down" => key \in Keys
  /\ \A c \in Clients : CallOK(c)

-----------------------------------------------------------------------------
(* Records and the keys they are encrypted with.                           *)

LEMMA EmptyRecords == Empty \in Records /\ KeysOf(Empty) = {}
  BY ContentAssumption DEF Empty, Records, KeysOf

LEMMA KeysOfRecords == \A f \in Records : KeysOf(f) \subseteq Keys
  BY DEF Records, Record, KeysOf

(* A record put into the vault adds its key only.                          *)
LEMMA RecordPut ==
  ASSUME NEW f \in Records, NEW r \in Refs, NEW k \in Keys, NEW x \in Values
  PROVE  LET g == [f EXCEPT ![r] = [key |-> k, value |-> x]]
         IN  g \in Records /\ KeysOf(g) \subseteq KeysOf(f) \cup {k}
<1> DEFINE g == [f EXCEPT ![r] = [key |-> k, value |-> x]]
<1>1. g \in Records
  BY DEF Records, Record
<1>2. ASSUME NEW s \in Refs, g[s] # None PROVE g[s].key \in KeysOf(f) \cup {k}
  BY <1>2 DEF Records, KeysOf
<1>3. QED
  BY <1>1, <1>2 DEF KeysOf

LEMMA RecordRemoved ==
  ASSUME NEW f \in Records, NEW r \in Refs
  PROVE  LET g == [f EXCEPT ![r] = None]
         IN  g \in Records /\ KeysOf(g) \subseteq KeysOf(f)
  BY DEF Records, KeysOf

(* A rotation leaves no record of another key.                             *)
LEMMA RecordsReencrypted ==
  ASSUME NEW f \in Records, NEW k \in Keys
  PROVE  Reencrypted(f, k) \in Records /\ KeysOf(Reencrypted(f, k)) \subseteq {k}
<1> DEFINE g == Reencrypted(f, k)
<1>1. ASSUME NEW s \in Refs
      PROVE  g[s] \in Record \cup {None} /\ (g[s] # None => g[s].key = k)
  <2>1. CASE f[s] = None
    BY <2>1 DEF Reencrypted
  <2>2. CASE f[s] # None
    <3>1. f[s] \in Record
      BY <2>2 DEF Records
    <3>2. g[s] = [f[s] EXCEPT !.key = k]
      BY <2>2 DEF Reencrypted
    <3>3. QED
      BY <3>1, <3>2 DEF Record
  <2>3. QED
    BY <2>1, <2>2
<1>2. g = [s \in Refs |-> g[s]]
  BY DEF Reencrypted
<1>3. QED
  BY <1>1, <1>2 DEF Records, KeysOf

LEMMA StoredRecords == disk \in Content /\ disk # Torn => Stored \in Records
  BY EmptyRecords DEF Stored, Content

-----------------------------------------------------------------------------
(* The types of the vault, and the phase of each call.                     *)

USE DEF history, names

LEMMA InitVaultInv == VaultInit => VaultInv
<1> SUFFICES ASSUME VaultInit PROVE VaultInv
  OBVIOUS
<1>1. \A c \in Clients : call[c] = NoCall /\ NoCall.pc = "idle" /\ NoCall.op = "none"
  BY DEF VaultInit, NoCall
<1>2. VaultTypeOK
  <2>1. /\ keychain \in Keychain /\ disk \in Content /\ tmp \in [Clients -> Content]
        /\ temp \in [Clients -> Clients] /\ handle \in [Clients -> Handles]
    BY DEF VaultInit, Keychain, Content, Handles
  <2>2. call \in [Clients -> [pc : {"idle", "reencrypt", "create", "write", "rename",
                                   "promote", "unstage"},
                             op : {"none", "put", "remove", "rotate"},
                             snap : Records \cup {None}, new : Keys \cup {None}]]
    BY DEF VaultInit, NoCall
  <2>3. QED
    <3>1. ~Busy
      BY <1>1 DEF Busy
    <3>2. calls \in 0..MaxCalls /\ rotations \in 0..MaxRotations /\ crashes \in 0..MaxCrashes
      BY VaultBounds DEF VaultInit
    <3>3. QED
      BY <2>1, <2>2, <3>1, <3>2 DEF VaultInit, VaultTypeOK
<1>3. \A c \in Clients : CallOK(c)
  BY <1>1 DEF CallOK, Writing
<1>4. QED
  BY <1>2, <1>3 DEF VaultInit, VaultInv

(* The parts of the invariant that a step of handler c in an open vault    *)
(* may disturb.                                                            *)
Stepped(c, k) ==
  /\ mode = "open" /\ mode' = mode
  /\ call' = [call EXCEPT ![c] = k]
  /\ k \in [pc : {"idle", "reencrypt", "create", "write", "rename", "promote", "unstage"},
            op : {"none", "put", "remove", "rotate"},
            snap : Records \cup {None}, new : Keys \cup {None}]
  /\ k.pc = "idle" => k = NoCall
  /\ k.pc \in Writing => k.snap \in Records
  /\ k.pc \in {"reencrypt", "promote", "unstage"} => k.op = "rotate"
  /\ k.op = "rotate" => k.new \in Keys

LEMMA SteppedOK ==
  ASSUME NEW c \in Clients, NEW k, VaultInv, Stepped(c, k),
         keychain' \in Keychain, key' \in Keys, file' \in Records,
         disk' \in Content, tmp' \in [Clients -> Content],
         temp' \in [Clients -> Clients], handle' \in [Clients -> Handles],
         shared' \in BOOLEAN,
         alone' \in BOOLEAN, replaced' \in BOOLEAN, calls' \in 0..MaxCalls,
         rotations' \in 0..MaxRotations, crashes' \in 0..MaxCrashes
  PROVE  VaultInv'
<1>1. call' \in [Clients -> [pc : {"idle", "reencrypt", "create", "write", "rename",
                                  "promote", "unstage"},
                            op : {"none", "put", "remove", "rotate"},
                            snap : Records \cup {None}, new : Keys \cup {None}]]
  BY DEF VaultInv, VaultTypeOK, Stepped
<1>2. VaultTypeOK'
  BY <1>1 DEF VaultInv, VaultTypeOK, Stepped
<1>3. CallOK(c)'
  BY DEF VaultInv, VaultTypeOK, Stepped, CallOK
<1>4. ASSUME NEW d \in Clients \ {c} PROVE CallOK(d)'
  <2>1. call'[d] = call[d] /\ mode' = mode /\ CallOK(d)
    BY DEF VaultInv, VaultTypeOK, Stepped
  <2>2. QED
    BY <2>1 DEF CallOK
<1>5. QED
  BY <1>2, <1>3, <1>4 DEF VaultInv

(* A handler that only goes on keeps the rest of its call.                 *)
At(c, p) == [pc |-> p, op |-> call[c].op, snap |-> call[c].snap, new |-> call[c].new]

LEMMA GotoCall ==
  ASSUME VaultTypeOK, NEW c \in Clients, NEW p, Goto(c, p)
  PROVE  call' = [call EXCEPT ![c] = At(c, p)]
<1>1. [call[c] EXCEPT !.pc = p] = At(c, p)
  BY DEF VaultTypeOK, At
<1>2. call' = [call EXCEPT ![c] = [call[c] EXCEPT !.pc = p]]
  BY DEF Goto
<1>3. QED
  BY <1>1, <1>2

(* Every step keeps the types and the phase of each call.                  *)
LEMMA StepVaultInv == VaultInv /\ [VaultNext]_vaultVars => VaultInv'
<1> SUFFICES ASSUME VaultInv, [VaultNext]_vaultVars PROVE VaultInv'
  OBVIOUS
<1> USE DEF NoCall
<1>1. /\ keychain \in Keychain /\ disk \in Content /\ tmp \in [Clients -> Content]
      /\ key \in Keys \cup {None} /\ file \in Records \cup {None}
      /\ alone \in BOOLEAN /\ replaced \in BOOLEAN /\ calls \in 0..MaxCalls
      /\ rotations \in 0..MaxRotations /\ crashes \in 0..MaxCrashes
      /\ temp \in [Clients -> Clients] /\ handle \in [Clients -> Handles]
      /\ shared \in BOOLEAN
      /\ mode = "open" => key \in Keys /\ file \in Records
  BY DEF VaultInv, VaultTypeOK
<1>2. ASSUME NEW c \in Clients
      PROVE  /\ CallOK(c)
             /\ call[c].pc \in {"idle", "reencrypt", "create", "write", "rename",
                                "promote", "unstage"}
             /\ call[c].op \in {"none", "put", "remove", "rotate"}
             /\ call[c].snap \in Records \cup {None}
             /\ call[c].new \in Keys \cup {None}
             /\ call[c] = [pc |-> call[c].pc, op |-> call[c].op, snap |-> call[c].snap,
                           new |-> call[c].new]
  BY DEF VaultInv, VaultTypeOK
<1>3. CASE UnlockKey
  <2>1. Unused \subseteq Keys /\ KeptKey \in Keys \cup {None}
    BY <1>1 DEF Unused, KeptKey, Keychain
  <2>2. PICK k \in Keys : /\ key' = k
                          /\ keychain' = IF keychain.main # None THEN keychain
                                         ELSE [main |-> k, next |-> None]
    BY <1>3, <2>1, <1>1 DEF UnlockKey
  <2>3. keychain' \in Keychain
    BY <1>1, <2>2 DEF Keychain
  <2>4. \A c \in Clients : CallOK(c)' /\ call'[c] = call[c]
    BY <1>2, <1>3 DEF UnlockKey, CallOK
  <2>5. QED
    BY <1>1, <1>3, <2>2, <2>3, <2>4 DEF UnlockKey, VaultInv, VaultTypeOK
<1>4. CASE OpenFile
  <2>1. file' \in Records /\ disk' = file'
    BY <1>1, <1>4, EmptyRecords DEF OpenFile, Content
  <2>2. \A c \in Clients : CallOK(c)'
    BY <1>2, <1>4 DEF OpenFile, CallOK
  <2>3. disk' \in Content /\ key' \in Keys
    BY <2>1, <1>4 DEF Content, OpenFile, VaultInv
  <2>4. QED
    BY <1>1, <1>4, <2>1, <2>2, <2>3
    DEF OpenFile, VaultInv, VaultTypeOK
<1>5. CASE KillServer
  <2>1. \A c \in Clients : call'[c] = NoCall /\ call'[c].pc = "idle"
    BY <1>5 DEF KillServer
  <2>2. /\ ~Busy' /\ tmp' \in [Clients -> Content]
        /\ temp' \in [Clients -> Clients] /\ handle' \in [Clients -> Handles]
    BY <1>5, <2>1 DEF KillServer, Busy, Content, Handles
  <2>3. \A c \in Clients : CallOK(c)'
    BY <2>1 DEF CallOK, Writing
  <2>4. VaultTypeOK'
    <3>1. call' \in [Clients -> [pc : {"idle", "reencrypt", "create", "write", "rename",
                                    "promote", "unstage"},
                              op : {"none", "put", "remove", "rotate"},
                              snap : Records \cup {None}, new : Keys \cup {None}]]
      BY <1>5 DEF KillServer
    <3>2. crashes' \in 0..MaxCrashes
      BY <1>1, <1>5, VaultBounds DEF KillServer
    <3>3. QED
      BY <1>1, <1>5, <2>2, <3>1, <3>2 DEF KillServer, VaultTypeOK
  <2>5. QED
    BY <1>1, <1>5, <2>3, <2>4 DEF KillServer, VaultInv
<1>6. ASSUME NEW c \in Clients, NEW r \in Refs, Remove(c, r) PROVE VaultInv'
  <2>1. [file EXCEPT ![r] = None] \in Records
    BY <1>1, <1>6, RecordRemoved DEF Remove, Starts
  <2>2. Stepped(c, [pc |-> "create", op |-> "remove", snap |-> file', new |-> None])
    BY <1>6, <2>1, ContentAssumption DEF Remove, Starts, Persist, Stepped, Writing
  <2>3. file' \in Records /\ calls' \in 0..MaxCalls /\ alone' \in BOOLEAN
    BY <1>1, <1>6, <2>1, VaultBounds DEF Remove, Starts, Persist
  <2>4. QED
    BY <1>1, <1>6, <2>2, <2>3, SteppedOK DEF Remove, Starts
<1>7. ASSUME NEW c \in Clients, NEW r \in Refs, NEW x \in Values, Put(c, r, x)
      PROVE  VaultInv'
  <2>1. [file EXCEPT ![r] = [key |-> key, value |-> x]] \in Records
    BY <1>1, <1>7, RecordPut DEF Put, Starts
  <2>2. Stepped(c, [pc |-> "create", op |-> "put", snap |-> file', new |-> None])
    BY <1>7, <2>1, ContentAssumption DEF Put, Starts, Persist, Stepped, Writing
  <2>3. file' \in Records /\ calls' \in 0..MaxCalls /\ alone' \in BOOLEAN
    BY <1>1, <1>7, <2>1, VaultBounds DEF Put, Starts, Persist
  <2>4. QED
    BY <1>1, <1>7, <2>2, <2>3, SteppedOK DEF Put, Starts
<1>8. ASSUME NEW c \in Clients, StageKey(c) PROVE VaultInv'
  <2>1. Unused \subseteq Keys
    BY DEF Unused
  <2>2. PICK k \in Keys :
          /\ keychain' = [keychain EXCEPT !.next = k]
          /\ call' = [call EXCEPT ![c] = [pc |-> "reencrypt", op |-> "rotate",
                                         snap |-> None, new |-> k]]
    BY <1>8, <2>1 DEF StageKey
  <2>3. Stepped(c, [pc |-> "reencrypt", op |-> "rotate", snap |-> None, new |-> k])
    BY <1>8, <2>2 DEF StageKey, Starts, Stepped, Writing
  <2>4. keychain' \in Keychain /\ rotations' \in 0..MaxRotations /\ calls' \in 0..MaxCalls
    BY <1>1, <1>8, <2>2, VaultBounds DEF StageKey, Starts, Keychain
  <2>5. alone' \in BOOLEAN /\ replaced' \in BOOLEAN
    BY <1>1, <1>8 DEF StageKey, Starts
  <2>6. QED
    BY <1>1, <1>8, <2>3, <2>4, <2>5, SteppedOK DEF StageKey, Starts
<1>9. ASSUME NEW c \in Clients, Reencrypt(c) PROVE VaultInv'
  <2>1. mode = "open" /\ call[c].new \in Keys
    BY <1>2, <1>9 DEF Reencrypt, CallOK
  <2>2. Reencrypted(file, call[c].new) \in Records
    BY <1>1, <2>1, RecordsReencrypted
  <2>3. Stepped(c, [pc |-> "create", op |-> "rotate", snap |-> file', new |-> call[c].new])
    BY <1>9, <2>1, <2>2 DEF Reencrypt, Persist, Stepped, Writing
  <2>4. QED
    BY <1>1, <1>9, <2>1, <2>2, <2>3, SteppedOK DEF Reencrypt, Persist
<1>10. ASSUME NEW c \in Clients, Throws(c) PROVE VaultInv'
  <2>1. mode = "open"
    BY <1>2, <1>10 DEF Throws, CallOK
  <2>2. Stepped(c, NoCall)
    BY <1>10, <2>1 DEF Throws, Stepped, Writing
  <2>3. QED
    BY <1>1, <1>10, <2>1, <2>2, SteppedOK DEF Throws
<1>11. ASSUME NEW c \in Clients, CreateTemp(c) PROVE VaultInv'
  <2>1. /\ mode = "open" /\ tmp' \in [Clients -> Content]
        /\ temp' \in [Clients -> Clients] /\ shared' \in BOOLEAN
    <3>1. PICK n \in Clients : /\ tmp' = [tmp EXCEPT ![n] = Torn]
                               /\ temp' = [temp EXCEPT ![c] = n]
                               /\ shared' \in BOOLEAN
      BY <1>1, <1>11 DEF CreateTemp
    <3>2. QED
      BY <1>1, <1>2, <1>11, <3>1 DEF CreateTemp, CallOK, Content
  <2>2. handle' \in [Clients -> Handles]
    <3>1. PICK S : handle' = [b \in Clients |->
                                IF b \in S \/ (b = c /\ S # {}) THEN "shared"
                                ELSE IF b = c THEN "own" ELSE handle[b]]
      BY <1>11 DEF CreateTemp
    <3>2. QED
      BY <1>1, <3>1 DEF Handles
  <2>3. Stepped(c, At(c, "write"))
    <3>1. call' = [call EXCEPT ![c] = At(c, "write")]
      BY <1>11, GotoCall DEF CreateTemp, VaultInv
    <3>2. QED
      BY <1>2, <1>11, <2>1, <3>1 DEF CreateTemp, Stepped, CallOK, Writing, At
  <2>4. QED
    BY <1>1, <1>11, <2>1, <2>2, <2>3, SteppedOK DEF CreateTemp
<1>12. ASSUME NEW c \in Clients, WriteTemp(c) PROVE VaultInv'
  <2>1. mode = "open" /\ call[c].snap \in Records
    BY <1>2, <1>12 DEF WriteTemp, CallOK, Writing
  <2>2. PICK x \in {call[c].snap, Torn} :
          /\ tmp' = IF handle[c] \in {"own", "shared"} THEN [tmp EXCEPT ![temp[c]] = x] ELSE tmp
          /\ disk' = IF handle[c] = "vault" THEN x ELSE disk
    BY <1>12 DEF WriteTemp
  <2>3. tmp' \in [Clients -> Content] /\ disk' \in Content
    BY <1>1, <2>1, <2>2 DEF Content
  <2>4. Stepped(c, At(c, "rename"))
    <3>1. call' = [call EXCEPT ![c] = At(c, "rename")]
      BY <1>12, GotoCall DEF WriteTemp, VaultInv
    <3>2. QED
      BY <1>1, <1>2, <1>12, <2>1, <3>1 DEF WriteTemp, Stepped, CallOK, Writing, At
  <2>5. QED
    BY <1>1, <1>12, <2>1, <2>3, <2>4, SteppedOK DEF WriteTemp
<1>13. ASSUME NEW c \in Clients, Rename(c) PROVE VaultInv'
  <2>1. mode = "open" /\ temp[c] \in Clients
    BY <1>1, <1>2, <1>13 DEF Rename, CallOK
  <2>2. disk' \in Content /\ tmp' \in [Clients -> Content]
    BY <1>1, <1>13, <2>1 DEF Rename, Content
  <2>3. handle' \in [Clients -> Handles]
    BY <1>1, <1>13 DEF Rename, Handles
  <2>4. Stepped(c, IF call[c].op = "rotate" THEN At(c, "promote") ELSE NoCall)
    <3>1. CASE call[c].op = "rotate"
      <4>1. call' = [call EXCEPT ![c] = At(c, "promote")]
        BY <1>13, <3>1, GotoCall DEF Rename, VaultInv
      <4>2. QED
        BY <1>1, <1>2, <1>13, <2>1, <3>1, <4>1 DEF Rename, Stepped, CallOK, Writing, At
    <3>2. CASE call[c].op # "rotate"
      BY <1>1, <1>13, <2>1, <3>2 DEF Rename, Stepped, Writing
    <3>3. QED
      BY <3>1, <3>2
  <2>5. QED
    BY <1>1, <1>13, <2>1, <2>2, <2>3, <2>4, SteppedOK DEF Rename
<1>14. ASSUME NEW c \in Clients, PromoteKey(c) PROVE VaultInv'
  <2>1. mode = "open" /\ call[c].new \in Keys /\ keychain' \in Keychain
    BY <1>1, <1>2, <1>14 DEF PromoteKey, CallOK, Keychain
  <2>2. Stepped(c, At(c, "unstage"))
    <3>1. call' = [call EXCEPT ![c] = At(c, "unstage")]
      BY <1>14, GotoCall DEF PromoteKey, VaultInv
    <3>2. QED
      BY <1>2, <1>14, <2>1, <3>1 DEF PromoteKey, Stepped, CallOK, Writing, At
  <2>3. QED
    BY <1>1, <1>14, <2>1, <2>2, SteppedOK DEF PromoteKey
<1>15. ASSUME NEW c \in Clients, UnstageKey(c) PROVE VaultInv'
  <2>1. mode = "open" /\ call[c].new \in Keys /\ keychain' \in Keychain
    BY <1>1, <1>2, <1>15 DEF UnstageKey, CallOK, Keychain
  <2>2. Stepped(c, NoCall)
    BY <1>15, <2>1 DEF UnstageKey, Stepped, Writing
  <2>3. QED
    BY <1>1, <1>15, <2>1, <2>2, SteppedOK DEF UnstageKey
<1>16. CASE UNCHANGED vaultVars
  BY <1>16 DEF vaultVars, VaultInv, VaultTypeOK, CallOK, Busy
<1>17. QED
  BY <1>3, <1>4, <1>5, <1>6, <1>7, <1>8, <1>9, <1>10, <1>11, <1>12, <1>13, <1>14, <1>15,
     <1>16 DEF VaultNext

(* The vault keeps its types: an open vault has its key and its records.   *)
THEOREM TypeCorrect == VaultSpec => []VaultTypeOK
<1>1. VaultInv => VaultTypeOK
  BY DEF VaultInv
<1>2. QED
  BY <1>1, InitVaultInv, StepVaultInv, PTL DEF VaultSpec

-----------------------------------------------------------------------------
(* A whole vault file.                                                     *)

(* As long as no two calls share a temporary file, everybody who writes    *)
(* one has it to himself, and it is complete when it is renamed.           *)
Using(c) == call[c].pc \in {"write", "rename"}

FilesOK ==
  /\ disk # Torn
  /\ \A c, d \in Clients : Using(c) /\ Using(d) /\ temp[c] = temp[d] => c = d
  /\ \A c \in Clients : call[c].pc = "write" => handle[c] = "own"
  /\ \A c \in Clients : call[c].pc = "rename" => tmp[temp[c]] = call[c].snap

WholeInv == ~shared => FilesOK

(* A call that is not at its temporary file leaves all of them alone.      *)
LEMMA FilesStay ==
  ASSUME VaultInv, FilesOK, disk' # Torn, UNCHANGED <<tmp, temp, handle>>,
         \A c \in Clients : call'[c] = call[c] \/ ~Using(c)'
  PROVE  FilesOK'
  BY DEF FilesOK, Using

LEMMA StepWhole == VaultInv /\ WholeInv /\ [VaultNext]_vaultVars => WholeInv'
<1> SUFFICES ASSUME VaultInv, WholeInv, [VaultNext]_vaultVars, ~shared' PROVE FilesOK'
  BY DEF WholeInv
<1> USE DEF NoCall
<1>1. /\ VaultTypeOK /\ \A c \in Clients : CallOK(c)
      /\ temp \in [Clients -> Clients] /\ handle \in [Clients -> Handles]
      /\ tmp \in [Clients -> Content]
      /\ DOMAIN call = Clients /\ call = [c \in Clients |-> call[c]]
  BY DEF VaultInv, VaultTypeOK
<1>2. FilesOK
  <2>1. ~shared
    BY DEF VaultNext, UnlockKey, OpenFile, KillServer, Remove, Put, StageKey, Reencrypt, Throws,
           CreateTemp, WriteTemp, Rename, PromoteKey, UnstageKey, vaultVars
  <2>2. QED
    BY <2>1 DEF WholeInv
<1>3. CASE UnlockKey \/ UNCHANGED vaultVars
  BY <1>2, <1>3, FilesStay DEF UnlockKey, vaultVars, FilesOK
<1>4. CASE OpenFile
  <2>1. disk' # Torn
    BY <1>1, <1>4, EmptyRecords, ContentAssumption DEF OpenFile, VaultTypeOK, Content
  <2>2. QED
    BY <1>2, <1>4, <2>1, FilesStay DEF OpenFile
<1>5. CASE KillServer
  BY <1>2, <1>5 DEF KillServer, FilesOK, Using
<1>6. ASSUME NEW c \in Clients, NEW k, call' = [call EXCEPT ![c] = k],
             k.pc \notin {"write", "rename"}, UNCHANGED <<disk, tmp, temp, handle>>
      PROVE  FilesOK'
  BY <1>1, <1>2, <1>6, FilesStay DEF FilesOK, Using
<1>7. ASSUME NEW c \in Clients,
             \/ \E r \in Refs : Remove(c, r) \/ \E x \in Values : Put(c, r, x)
             \/ StageKey(c) \/ Reencrypt(c) \/ Throws(c) \/ UnstageKey(c)
      PROVE  FilesOK'
  BY <1>6, <1>7 DEF Remove, Put, StageKey, Reencrypt, Throws, UnstageKey, Persist
<1>8. ASSUME NEW c \in Clients, PromoteKey(c) PROVE FilesOK'
  <2>1. call' = [call EXCEPT ![c] = At(c, "unstage")]
    BY <1>1, <1>8, GotoCall DEF PromoteKey
  <2>2. QED
    BY <1>6, <1>8, <2>1 DEF PromoteKey, At
<1>9. ASSUME NEW c \in Clients, CreateTemp(c) PROVE FilesOK'
  <2>1. call' = [call EXCEPT ![c] = At(c, "write")]
    BY <1>1, <1>9, GotoCall DEF CreateTemp
  <2>2. /\ call'[c].pc = "write" /\ \A b \in Clients \ {c} : call'[b] = call[b]
        /\ disk' = disk
    BY <1>1, <1>9, <2>1 DEF CreateTemp, At
  <2>3. PICK n \in Clients :
          LET users   == {b \in Clients \ {c} : call[b].pc \in {"write", "rename"} /\ temp[b] = n}
              writers == {b \in users : call[b].pc = "write" /\ handle[b] \in {"own", "shared"}}
          IN  /\ tmp' = [tmp EXCEPT ![n] = Torn]
              /\ temp' = [temp EXCEPT ![c] = n]
              /\ handle' = [b \in Clients |->
                              IF b \in writers \/ (b = c /\ writers # {}) THEN "shared"
                              ELSE IF b = c THEN "own" ELSE handle[b]]
              /\ shared' = (shared \/ users # {})
    BY <1>9 DEF CreateTemp
  <2>4. \A b \in Clients \ {c} : Using(b) => temp[b] # n
    BY <2>3 DEF Using
  <2>5. /\ handle'[c] = "own" /\ \A b \in Clients \ {c} : handle'[b] = handle[b]
        /\ temp'[c] = n /\ \A b \in Clients \ {c} : temp'[b] = temp[b]
        /\ \A m \in Clients \ {n} : tmp'[m] = tmp[m]
    BY <1>1, <2>3
  <2>6. QED
    BY <1>1, <1>2, <2>2, <2>4, <2>5 DEF FilesOK, Using
<1>10. ASSUME NEW c \in Clients, WriteTemp(c) PROVE FilesOK'
  <2>1. call' = [call EXCEPT ![c] = At(c, "rename")]
    BY <1>1, <1>10, GotoCall DEF WriteTemp
  <2>2. handle[c] = "own" /\ call[c].pc = "write"
    BY <1>2, <1>10 DEF WriteTemp, FilesOK
  <2>3. tmp' = [tmp EXCEPT ![temp[c]] = call[c].snap] /\ UNCHANGED <<disk, temp, handle>>
    BY <1>10, <2>2 DEF WriteTemp
  <2>4. /\ call'[c].pc = "rename" /\ call'[c].snap = call[c].snap
        /\ \A b \in Clients \ {c} : call'[b] = call[b]
    BY <1>1, <2>1 DEF At
  <2>5. /\ tmp'[temp[c]] = call[c].snap
        /\ \A b \in Clients \ {c} : Using(b) => tmp'[temp[b]] = tmp[temp[b]]
    BY <1>1, <1>2, <2>2, <2>3 DEF FilesOK, Using
  <2>6. QED
    BY <1>2, <2>2, <2>3, <2>4, <2>5 DEF FilesOK, Using
<1>11. ASSUME NEW c \in Clients, Rename(c) PROVE FilesOK'
  <2>1. call[c].pc = "rename" /\ disk' = call[c].snap /\ disk' # Torn
    BY <1>1, <1>2, <1>11, ContentAssumption DEF Rename, FilesOK, CallOK, Writing
  <2>2. ~Using(c)' /\ \A b \in Clients \ {c} : call'[b] = call[b]
    <3>1. CASE call[c].op = "rotate"
      <4>1. call' = [call EXCEPT ![c] = At(c, "promote")]
        BY <1>1, <1>11, <3>1, GotoCall DEF Rename
      <4>2. QED
        BY <1>1, <4>1 DEF At, Using
    <3>2. CASE call[c].op # "rotate"
      BY <1>1, <1>11, <3>2 DEF Rename, Using
    <3>3. QED
      BY <3>1, <3>2
  <2>3. \A b \in Clients \ {c} : Using(b) =>
          temp[b] # temp[c] /\ tmp'[temp[b]] = tmp[temp[b]]
    BY <1>1, <1>2, <1>11, <2>1 DEF Rename, FilesOK, Using
  <2>4. \A b \in Clients \ {c} : call[b].pc = "write" => handle'[b] = handle[b]
    <3>1. ASSUME NEW b \in Clients \ {c}, call[b].pc = "write" PROVE handle'[b] = handle[b]
      <4>1. handle[b] = "own" /\ temp[b] # temp[c]
        BY <1>2, <2>3, <3>1 DEF FilesOK, Using
      <4>2. QED
        BY <1>11, <3>1, <4>1 DEF Rename
    <3>2. QED
      BY <3>1
  <2>5. temp' = temp
    BY <1>11 DEF Rename
  <2>6. QED
    BY <1>2, <2>1, <2>2, <2>3, <2>4, <2>5 DEF FilesOK, Using
<1>12. QED
  BY <1>3, <1>4, <1>5, <1>7, <1>8, <1>9, <1>10, <1>11 DEF VaultNext

LEMMA InitWhole == VaultInit => WholeInv
  BY ContentAssumption DEF VaultInit, WholeInv, FilesOK, NoCall, Using

(* A crash, a failed write or an overlapping call never leaves a partially *)
(* written vault file, unless two calls named their temporary files in the *)
(* same millisecond.                                                       *)
THEOREM NeverTorn == VaultSpec => []VaultIsWhole
<1>1. WholeInv => VaultIsWhole
  BY DEF WholeInv, FilesOK, VaultIsWhole
<1>2. QED
  BY <1>1, InitVaultInv, StepVaultInv, InitWhole, StepWhole, PTL DEF VaultSpec

-----------------------------------------------------------------------------
(* Records that can be decrypted.                                          *)

Kept == {keychain.main, keychain.next}

(* A rotation runs alone; it knows the staged key, and from the moment     *)
(* memory is re-encrypted no other key is in memory, then none in its      *)
(* snapshot and in the file.                                               *)
RotationOK(c) ==
  /\ \A d \in Clients \ {c} : call[d].pc = "idle"
  /\ keychain.next = call[c].new
  /\ call[c].pc # "reencrypt" => KeysOf(file) \subseteq {call[c].new}
  /\ call[c].pc \in Writing => KeysOf(call[c].snap) \subseteq {call[c].new}
  /\ call[c].pc \in {"promote", "unstage"} => KeysOf(Stored) \subseteq {call[c].new}
  /\ call[c].pc = "unstage" => keychain.main = call[c].new

(* Until a staged key is replaced, every record - of the file, of memory   *)
(* and of a snapshot on its way to the file - has a key of the keychain,   *)
(* and the vault encrypts with the main key but for the last step of a     *)
(* rotation.                                                               *)
Recoverable ==
  /\ KeysOf(Stored) \subseteq Kept
  /\ mode = "open" => KeysOf(file) \subseteq Kept
  /\ \A c \in Clients : call[c].pc \in Writing => KeysOf(call[c].snap) \subseteq Kept
  /\ \A c \in Clients : call[c].op = "rotate" => RotationOK(c)
  /\ mode # "down" /\ key # keychain.main => \E c \in Clients : call[c].pc = "unstage"

RecoverInv == ~replaced /\ ~shared => Recoverable

LEMMA InitRecover == VaultInit => RecoverInv
  BY EmptyRecords DEF VaultInit, RecoverInv, Recoverable, Stored, NoCall, Writing

(* The steps between two unlocks of a vault that is not open.              *)
LEMMA ClosedRecover ==
  ASSUME VaultInv, FilesOK, Recoverable, UnlockKey \/ OpenFile \/ KillServer
  PROVE  Recoverable'
<1> USE DEF NoCall
<1>1. VaultTypeOK /\ disk # Torn /\ \A c \in Clients : CallOK(c)
  BY DEF VaultInv, FilesOK
<1>2. Stored \in Records /\ KeysOf(Stored) \subseteq Keys
  BY <1>1, StoredRecords, KeysOfRecords DEF VaultTypeOK
<1>3. ASSUME \A c \in Clients : call'[c].pc = "idle" /\ call'[c].op = "none"
      PROVE  \A c \in Clients : /\ call'[c].pc \notin Writing
                                /\ call'[c].op # "rotate"
  BY <1>3 DEF Writing
<1>4. CASE UnlockKey
  <2>1. \A c \in Clients : call'[c].pc = "idle" /\ call'[c].op = "none"
    BY <1>1, <1>4 DEF UnlockKey, CallOK
  <2>2. Stored' = Stored /\ KeysOf(Stored)' = KeysOf(Stored) /\ mode' = "opening"
    BY <1>4 DEF UnlockKey, Stored, KeysOf
  <2>3. CASE keychain.main # None
    BY <1>3, <1>4, <2>1, <2>2, <2>3 DEF UnlockKey, KeptKey, Recoverable, Kept
  <2>4. CASE keychain.main = None
    <3>1. KeysOf(Stored) \subseteq {keychain.next} \ {None}
      BY <1>2, <2>4, NoneAssumption DEF Recoverable, Kept
    <3>2. key' = keychain'.main /\ (keychain.next # None => keychain'.main = keychain.next)
      BY <1>4, <2>4 DEF UnlockKey, KeptKey
    <3>3. KeysOf(Stored)' \subseteq Kept'
      BY <2>2, <3>1, <3>2 DEF Kept
    <3>4. QED
      BY <1>3, <2>1, <2>2, <3>2, <3>3 DEF Recoverable
  <2>5. QED
    BY <2>3, <2>4
<1>5. CASE OpenFile
  <2>1. \A c \in Clients : call[c].pc = "idle" /\ call'[c].pc = "idle" /\ call'[c].op = "none"
    BY <1>1, <1>5 DEF OpenFile, CallOK
  <2>2. file' = Stored /\ disk' = Stored /\ Stored # None /\ Kept' = Kept
    BY <1>2, <1>5, ContentAssumption DEF OpenFile, Stored, Kept
  <2>3. KeysOf(file)' = KeysOf(Stored) /\ KeysOf(Stored)' = KeysOf(Stored)
    BY <2>2 DEF Stored, KeysOf
  <2>4. key' = keychain'.main
    BY <1>5, <2>1 DEF OpenFile, Recoverable
  <2>5. QED
    BY <1>3, <2>1, <2>2, <2>3, <2>4 DEF Recoverable
<1>6. CASE KillServer
  <2>1. \A c \in Clients : call'[c].pc = "idle" /\ call'[c].op = "none"
    BY <1>6 DEF KillServer
  <2>2. Stored' = Stored /\ KeysOf(Stored)' = KeysOf(Stored) /\ Kept' = Kept /\ mode' = "down"
    BY <1>6 DEF KillServer, Stored, KeysOf, Kept
  <2>3. QED
    BY <1>3, <2>1, <2>2 DEF Recoverable
<1>7. QED
  BY <1>4, <1>5, <1>6

(* A change of the records, which finds no rotation under way, adds no key *)
(* but the main key.                                                       *)
LEMMA ChangeRecover ==
  ASSUME VaultInv, FilesOK, Recoverable, NEW c \in Clients, NEW op \in {"put", "remove"},
         mode = "open", ~Rotating, Persist(c, op, file', None),
         KeysOf(file') \subseteq KeysOf(file) \cup {key},
         UNCHANGED <<keychain, key, disk, mode>>
  PROVE  Recoverable'
<1>1. VaultTypeOK /\ \A d \in Clients : CallOK(d)
  BY DEF VaultInv
<1>2. /\ call'[c] = [pc |-> "create", op |-> op, snap |-> file', new |-> None]
      /\ \A d \in Clients \ {c} : call'[d] = call[d]
  BY <1>1 DEF Persist, VaultTypeOK
<1>3. key = keychain.main
  BY <1>1 DEF Recoverable, Rotating, CallOK
<1>4. KeysOf(file') \subseteq Kept /\ Kept' = Kept
  BY <1>3 DEF Recoverable, Kept
<1>5. KeysOf(Stored)' = KeysOf(Stored) /\ KeysOf(file)' = KeysOf(file')
  BY DEF KeysOf, Stored
<1>6. \A d \in Clients : call'[d].op # "rotate"
  BY <1>2 DEF Rotating
<1>7. \A d \in Clients : call'[d].pc \in Writing => KeysOf(call'[d].snap) \subseteq Kept
  BY <1>2, <1>4 DEF Recoverable
<1>8. \A d \in Clients : KeysOf(call[d].snap)' = KeysOf(call'[d].snap)
  BY DEF KeysOf
<1>9. QED
  BY <1>3, <1>4, <1>5, <1>6, <1>7, <1>8 DEF Recoverable

LEMMA StageRecover ==
  ASSUME RotateAlone, VaultInv, FilesOK, Recoverable, NEW c \in Clients, StageKey(c), ~replaced'
  PROVE  Recoverable'
<1>1. VaultTypeOK /\ disk # Torn /\ \A d \in Clients : CallOK(d)
  BY DEF VaultInv, FilesOK
<1>2. PICK k : /\ keychain' = [keychain EXCEPT !.next = k]
               /\ call' = [call EXCEPT ![c] = [pc |-> "reencrypt", op |-> "rotate",
                                              snap |-> None, new |-> k]]
  BY DEF StageKey
<1>3. keychain.next = None /\ keychain'.main = keychain.main /\ keychain'.next = k
  BY <1>1, <1>2 DEF StageKey, VaultTypeOK, Keychain
<1>4. /\ call'[c].pc = "reencrypt" /\ call'[c].op = "rotate" /\ call'[c].new = k
      /\ \A d \in Clients \ {c} : /\ call'[d] = call[d]
                                  /\ call[d].pc = "idle" /\ call[d].op = "none"
  BY <1>1, <1>2 DEF VaultTypeOK, StageKey, Busy, CallOK, NoCall
<1>5. key = keychain.main /\ mode = "open"
  BY DEF Recoverable, StageKey, Starts, Busy
<1>6. KeysOf(Stored) \subseteq Keys /\ KeysOf(file) \subseteq Keys
  BY <1>1, <1>5, StoredRecords, KeysOfRecords DEF VaultTypeOK
<1>7. KeysOf(Stored) \subseteq {keychain.main} /\ KeysOf(file) \subseteq {keychain.main}
  BY <1>3, <1>5, <1>6, NoneAssumption DEF Recoverable, Kept
<1>8. KeysOf(Stored)' = KeysOf(Stored) /\ KeysOf(file)' = KeysOf(file)
  BY DEF StageKey, Stored, KeysOf
<1>9. RotationOK(c)'
  BY <1>3, <1>4 DEF RotationOK, Writing
<1>10. key' = keychain'.main
  BY <1>3, <1>5 DEF StageKey
<1>11. \A d \in Clients : call'[d].pc \notin Writing /\ (call'[d].op = "rotate" => d = c)
  BY <1>4 DEF Writing
<1>12. QED
  BY <1>3, <1>7, <1>8, <1>9, <1>10, <1>11 DEF Recoverable, Kept

(* A rotation that goes on.                                                *)
LEMMA RotationRecover ==
  ASSUME VaultInv, FilesOK, Recoverable, NEW c \in Clients,
         Reencrypt(c) \/ PromoteKey(c) \/ UnstageKey(c)
  PROVE  Recoverable'
<1>1. VaultTypeOK /\ disk # Torn /\ \A d \in Clients : CallOK(d)
  BY DEF VaultInv, FilesOK
<1>2. /\ call[c].op = "rotate" /\ call[c].new \in Keys /\ mode = "open" /\ mode' = mode
      /\ RotationOK(c)
  BY <1>1 DEF Reencrypt, PromoteKey, UnstageKey, CallOK, Recoverable
<1>3. \A d \in Clients \ {c} : /\ call'[d] = call[d]
                               /\ call[d].pc = "idle" /\ call[d].op = "none"
  BY <1>1, <1>2
  DEF Reencrypt, PromoteKey, UnstageKey, Persist, Goto, VaultTypeOK, RotationOK, CallOK, NoCall
<1>4. CASE Reencrypt(c)
  <2>1. call'[c] = [pc |-> "create", op |-> "rotate", snap |-> file', new |-> call[c].new]
    BY <1>1, <1>4 DEF Reencrypt, Persist, VaultTypeOK
  <2>2. KeysOf(file') \subseteq {call[c].new}
    BY <1>1, <1>2, <1>4, RecordsReencrypted DEF Reencrypt, Persist, VaultTypeOK
  <2>3. keychain.next = call[c].new /\ keychain' = keychain /\ Kept' = Kept
    BY <1>2, <1>4 DEF RotationOK, Reencrypt, Kept
  <2>4. /\ KeysOf(Stored)' = KeysOf(Stored) /\ KeysOf(file)' = KeysOf(file')
        /\ KeysOf(call[c].snap)' = KeysOf(file')
    BY <1>4, <2>1 DEF Reencrypt, Stored, KeysOf
  <2>5. RotationOK(c)'
    BY <1>3, <2>1, <2>2, <2>3, <2>4 DEF RotationOK
  <2>6. key' = keychain'.main
    BY <1>2, <1>3, <1>4, <2>3 DEF Reencrypt, Recoverable
  <2>7. \A d \in Clients : /\ call'[d].pc \in Writing => d = c
                           /\ call'[d].op = "rotate" => d = c
    BY <1>3 DEF Writing
  <2>8. QED
    <3>1. KeysOf(Stored)' \subseteq Kept' /\ KeysOf(file)' \subseteq Kept'
      BY <2>2, <2>3, <2>4 DEF Recoverable, Kept
    <3>2. ASSUME NEW d \in Clients, call'[d].pc \in Writing
          PROVE  KeysOf(call[d].snap)' \subseteq Kept'
      <4>1. d = c /\ KeysOf(call[d].snap)' = KeysOf(call'[d].snap)
        BY <2>7, <3>2 DEF KeysOf
      <4>2. QED
        BY <2>1, <2>4, <3>1, <4>1
    <3>3. ASSUME NEW d \in Clients, call'[d].op = "rotate" PROVE RotationOK(d)'
      <4>1. d = c
        BY <2>7, <3>3
      <4>2. QED
        BY <2>5, <4>1 DEF RotationOK
    <3>4. QED
      BY <2>6, <3>1, <3>2, <3>3 DEF Recoverable
<1>5. CASE PromoteKey(c)
  <2>1. call'[c] = At(c, "unstage")
    BY <1>1, <1>5, GotoCall DEF PromoteKey, VaultTypeOK
  <2>2. keychain'.main = call[c].new /\ keychain'.next = call[c].new
    BY <1>1, <1>2, <1>5 DEF PromoteKey, RotationOK, VaultTypeOK, Keychain
  <2>3. KeysOf(Stored)' = KeysOf(Stored) /\ KeysOf(file)' = KeysOf(file)
    BY <1>5 DEF PromoteKey, Stored, KeysOf
  <2>4. KeysOf(Stored) \subseteq {call[c].new} /\ KeysOf(file) \subseteq {call[c].new}
    BY <1>2, <1>5 DEF PromoteKey, RotationOK
  <2>5. RotationOK(c)'
    BY <1>3, <2>1, <2>2, <2>3, <2>4 DEF RotationOK, At, Writing
  <2>6. \A d \in Clients : /\ call'[d].pc \notin Writing
                           /\ call'[d].op = "rotate" => d = c
    BY <1>3, <2>1 DEF Writing, At
  <2>7. call'[c].pc = "unstage"
    BY <2>1 DEF At
  <2>8. QED
    <3>1. KeysOf(Stored)' \subseteq Kept' /\ KeysOf(file)' \subseteq Kept'
      BY <2>2, <2>3, <2>4 DEF Kept
    <3>2. \E d \in Clients : call'[d].pc = "unstage"
      BY <2>7
    <3>3. QED
      <4>1. ASSUME NEW d \in Clients, call'[d].op = "rotate" PROVE RotationOK(d)'
        <5>1. d = c
          BY <2>6, <4>1
        <5>2. QED
          BY <2>5, <5>1 DEF RotationOK
      <4>2. QED
        <5>1. \A d \in Clients : call'[d].pc \notin Writing
          BY <2>6
        <5>2. QED
          BY <3>1, <3>2, <4>1, <5>1 DEF Recoverable
<1>6. CASE UnstageKey(c)
  <2>1. call'[c].pc = "idle" /\ call'[c].op = "none"
    BY <1>1, <1>6 DEF UnstageKey, VaultTypeOK, NoCall
  <2>2. keychain'.main = call[c].new /\ key' = call[c].new
    BY <1>1, <1>2, <1>6 DEF UnstageKey, RotationOK, VaultTypeOK, Keychain
  <2>3. KeysOf(Stored)' = KeysOf(Stored) /\ KeysOf(file)' = KeysOf(file)
    BY <1>6 DEF UnstageKey, Stored, KeysOf
  <2>4. KeysOf(Stored) \subseteq {call[c].new} /\ KeysOf(file) \subseteq {call[c].new}
    BY <1>2, <1>6 DEF UnstageKey, RotationOK
  <2>5. \A d \in Clients : call'[d].pc \notin Writing /\ call'[d].op # "rotate"
    BY <1>3, <2>1 DEF Writing
  <2>6. QED
    <3>1. KeysOf(Stored)' \subseteq Kept' /\ KeysOf(file)' \subseteq Kept'
      BY <2>2, <2>3, <2>4 DEF Kept
    <3>2. key' = keychain'.main
      BY <2>2
    <3>3. QED
      BY <2>5, <3>1, <3>2 DEF Recoverable
<1>7. QED
  BY <1>4, <1>5, <1>6

(* A call that writes its snapshot, or throws.                             *)
LEMMA WrittenRecover ==
  ASSUME VaultInv, FilesOK, Recoverable, NEW c \in Clients,
         CreateTemp(c) \/ WriteTemp(c) \/ Rename(c) \/ Throws(c),
         NEW k, call' = [call EXCEPT ![c] = k],
         \/ k = NoCall
         \/ k = At(c, "write") /\ call[c].pc = "create"
         \/ k = At(c, "rename") /\ call[c].pc = "write"
         \/ k = At(c, "promote") /\ call[c].pc = "rename"
  PROVE  Recoverable'
<1>1. VaultTypeOK /\ disk # Torn /\ \A d \in Clients : CallOK(d)
  BY DEF VaultInv, FilesOK
<1>2. /\ k.pc \in Writing => call[c].pc \in Writing
      /\ k.op = "rotate" => k.pc # "unstage" /\ call[c].pc # "reencrypt"
  BY DEF At, NoCall, Writing
<1>3. call'[c] = k /\ \A d \in Clients \ {c} : call'[d] = call[d]
  BY <1>1, <1>2 DEF VaultTypeOK
<1>4. /\ keychain' = keychain /\ key' = key /\ file' = file /\ mode' = mode /\ Kept' = Kept
      /\ call[c].pc # "unstage"
  BY DEF CreateTemp, WriteTemp, Rename, Throws, Kept, Writing
<1>5. k.pc \in Writing => k.snap = call[c].snap
  BY <1>2 DEF At, NoCall, Writing
<1>6. k.op = "rotate" => call[c].op = "rotate" /\ k.new = call[c].new
  BY <1>2 DEF At, NoCall
<1>7. KeysOf(file)' = KeysOf(file) /\ \A d \in Clients : KeysOf(call[d].snap)' = KeysOf(call'[d].snap)
  BY <1>4 DEF KeysOf
<1>8. \/ Rename(c) /\ KeysOf(Stored)' = KeysOf(call[c].snap) /\ call[c].pc = "rename"
      \/ KeysOf(Stored)' = KeysOf(Stored) /\ disk' = disk /\ k.pc # "promote"
  <2>1. CASE Rename(c)
    <3>1. disk' = call[c].snap /\ disk' # None
      BY <1>1, <2>1, ContentAssumption DEF Rename, FilesOK, CallOK, Writing
    <3>2. KeysOf(Stored)' = KeysOf(call[c].snap)
      BY <3>1 DEF Stored, KeysOf
    <3>3. QED
      BY <2>1, <3>2 DEF Rename
  <2>2. CASE CreateTemp(c) \/ WriteTemp(c)
    <3>1. disk' = disk /\ call'[c].pc \in {"write", "rename"}
      BY <1>1, <2>2 DEF CreateTemp, WriteTemp, FilesOK, Goto, VaultTypeOK
    <3>2. QED
      BY <1>3, <3>1 DEF Stored, KeysOf
  <2>3. CASE Throws(c)
    <3>1. disk' = disk /\ call'[c].pc = "idle"
      BY <1>1, <2>3 DEF Throws, VaultTypeOK, NoCall
    <3>2. QED
      BY <1>3, <3>1 DEF Stored, KeysOf
  <2>4. QED
    BY <2>1, <2>2, <2>3
<1>9. KeysOf(Stored)' \subseteq Kept
  BY <1>8 DEF Recoverable, Writing
<1>10. \A d \in Clients : call'[d].pc \in Writing => KeysOf(call'[d].snap) \subseteq Kept
  BY <1>2, <1>3, <1>5 DEF Recoverable
<1>11. ASSUME NEW d \in Clients, call'[d].op = "rotate" PROVE RotationOK(d)'
  <2>1. CASE d = c
    <3>1. RotationOK(c) /\ k.op = "rotate" /\ call[c].pc # "reencrypt"
      BY <1>2, <1>3, <1>6, <1>11, <2>1 DEF Recoverable
    <3>2. k.pc \in Writing => KeysOf(k.snap) \subseteq {k.new}
      BY <1>2, <1>5, <1>6, <3>1 DEF RotationOK
    <3>3. k.pc \in {"promote", "unstage"} => KeysOf(Stored)' \subseteq {k.new}
      BY <1>2, <1>6, <1>8, <3>1 DEF RotationOK, Writing
    <3>4. QED
      BY <1>2, <1>3, <1>4, <1>6, <1>7, <2>1, <3>1, <3>2, <3>3 DEF RotationOK
  <2>2. CASE d # c
    <3>1. RotationOK(d) /\ call[c].pc = "idle"
      BY <1>3, <1>11, <2>2 DEF Recoverable, RotationOK
    <3>2. QED
      BY <3>1 DEF CreateTemp, WriteTemp, Rename, Throws
  <2>3. QED
    BY <2>1, <2>2
<1>12. mode' # "down" /\ key' # keychain'.main => \E d \in Clients : call'[d].pc = "unstage"
  BY <1>3, <1>4 DEF Recoverable
<1>13. QED
  BY <1>4, <1>7, <1>9, <1>10, <1>11, <1>12 DEF Recoverable

LEMMA WriteRecover ==
  ASSUME VaultInv, FilesOK, Recoverable, NEW c \in Clients,
         CreateTemp(c) \/ WriteTemp(c) \/ Rename(c) \/ Throws(c)
  PROVE  Recoverable'
<1>1. VaultTypeOK
  BY DEF VaultInv
<1>2. CASE CreateTemp(c)
  <2>1. call[c].pc = "create" /\ call' = [call EXCEPT ![c] = At(c, "write")]
    BY <1>1, <1>2, GotoCall DEF CreateTemp
  <2>2. QED
    BY <2>1, WrittenRecover
<1>3. CASE WriteTemp(c)
  <2>1. call[c].pc = "write" /\ call' = [call EXCEPT ![c] = At(c, "rename")]
    BY <1>1, <1>3, GotoCall DEF WriteTemp
  <2>2. QED
    BY <2>1, WrittenRecover
<1>4. CASE Rename(c) /\ call[c].op = "rotate"
  <2>1. call[c].pc = "rename" /\ call' = [call EXCEPT ![c] = At(c, "promote")]
    BY <1>1, <1>4, GotoCall DEF Rename
  <2>2. QED
    BY <2>1, WrittenRecover
<1>5. CASE Throws(c) \/ (Rename(c) /\ call[c].op # "rotate")
  <2>1. call' = [call EXCEPT ![c] = NoCall]
    BY <1>5 DEF Throws, Rename
  <2>2. QED
    BY <2>1, WrittenRecover
<1>6. QED
  BY <1>2, <1>3, <1>4, <1>5

LEMMA StepRecover ==
  ASSUME RotateAlone, VaultInv, WholeInv, RecoverInv, [VaultNext]_vaultVars
  PROVE  RecoverInv'
<1> SUFFICES ASSUME ~replaced', ~shared' PROVE Recoverable'
  BY DEF RecoverInv
<1>1. Recoverable /\ FilesOK
  <2>1. ~shared
    BY DEF VaultNext, UnlockKey, OpenFile, KillServer, Remove, Put, StageKey, Reencrypt, Throws,
           CreateTemp, WriteTemp, Rename, PromoteKey, UnstageKey, vaultVars
  <2>2. ~replaced
    BY DEF VaultNext, UnlockKey, OpenFile, KillServer, Remove, Put, StageKey, Reencrypt, Throws,
           CreateTemp, WriteTemp, Rename, PromoteKey, UnstageKey, vaultVars
  <2>3. QED
    BY <2>1, <2>2 DEF RecoverInv, WholeInv
<1>2. ASSUME NEW c \in Clients, NEW r \in Refs, Remove(c, r) PROVE Recoverable'
  <2>1. file \in Records
    BY <1>2 DEF Remove, Starts, VaultInv, VaultTypeOK
  <2>2. KeysOf(file') \subseteq KeysOf(file)
    BY <1>2, <2>1, RecordRemoved DEF Remove, Persist
  <2>3. Persist(c, "remove", file', None)
    BY <1>2 DEF Remove, Persist
  <2>4. QED
    BY <1>1, <1>2, <2>2, <2>3, ChangeRecover DEF Remove, Starts
<1>3. ASSUME NEW c \in Clients, NEW r \in Refs, NEW x \in Values, Put(c, r, x)
      PROVE  Recoverable'
  <2>1. file \in Records /\ key \in Keys
    BY <1>3 DEF Put, Starts, VaultInv, VaultTypeOK
  <2>2. KeysOf(file') \subseteq KeysOf(file) \cup {key}
    BY <1>3, <2>1, RecordPut DEF Put, Persist
  <2>3. Persist(c, "put", file', None)
    BY <1>3 DEF Put, Persist
  <2>4. QED
    BY <1>1, <1>3, <2>2, <2>3, ChangeRecover DEF Put, Starts
<1>4. CASE UNCHANGED vaultVars
  <2>1. UNCHANGED <<call, key, keychain, file, mode>>
    BY <1>4 DEF vaultVars
  <2>2. /\ KeysOf(Stored)' = KeysOf(Stored) /\ KeysOf(file)' = KeysOf(file) /\ Kept' = Kept
        /\ \A c \in Clients : KeysOf(call[c].snap)' = KeysOf(call[c].snap)
    BY <1>4 DEF vaultVars, KeysOf, Stored, Kept
  <2>3. \A c \in Clients : RotationOK(c) => RotationOK(c)'
    BY <2>1, <2>2 DEF RotationOK
  <2>4. QED
    BY <1>1, <2>1, <2>2, <2>3 DEF Recoverable
<1>5. QED
  BY <1>1, <1>2, <1>3, <1>4, ClosedRecover, StageRecover, RotationRecover, WriteRecover
  DEF VaultNext

(* Where rotations overlap no other call, every record of the vault file   *)
(* decrypts with a key of the keychain at every step of a rotation, after  *)
(* any crash and any failed write, until a staged key is replaced or two   *)
(* calls share a temporary file.                                           *)
THEOREM AlwaysRecoverable == RotateAlone => (VaultSpec => []RecordsRecoverable)
<1> SUFFICES ASSUME RotateAlone PROVE VaultSpec => []RecordsRecoverable
  OBVIOUS
<1>1. VaultInv /\ RecoverInv => RecordsRecoverable
  BY DEF RecoverInv, Recoverable, RecordsRecoverable, Kept
<1>2. VaultInv /\ WholeInv /\ RecoverInv /\ [VaultNext]_vaultVars => RecoverInv'
  BY StepRecover
<1>3. QED
  BY <1>1, <1>2, InitRecover, InitVaultInv, StepVaultInv, InitWhole, StepWhole, PTL
  DEF VaultSpec

-----------------------------------------------------------------------------
(* What is acknowledged is in the file.                                    *)

(* While calls neither overlap nor throw, at most one is under way, and    *)
(* the file says what memory says, or the snapshot on its way does.        *)
Settled ==
  /\ \A c, d \in Clients : call[c].pc # "idle" /\ call[d].pc # "idle" => c = d
  /\ ~Busy => disk = file
  /\ \A c \in Clients :
       /\ call[c].pc \in Writing => call[c].snap = file
       /\ call[c].pc = "write" => handle[c] = "own"
       /\ call[c].pc = "rename" => tmp[temp[c]] = file
       /\ call[c].pc \in {"promote", "unstage"} => disk = file

SettledInv == mode = "open" /\ alone => Settled

(* It is enough to look at the one call that is under way.                 *)
LEMMA OneCall ==
  ASSUME VaultTypeOK, NEW c \in Clients, NEW k, call' = [call EXCEPT ![c] = k],
         \A d \in Clients \ {c} : call[d].pc = "idle",
         k.pc \in Writing => k.snap = file',
         k.pc = "write" => handle'[c] = "own", k.pc = "rename" => tmp'[temp'[c]] = file',
         k.pc \in {"idle", "promote", "unstage"} => disk' = file'
  PROVE  Settled'
<1>1. call'[c] = k /\ \A d \in Clients \ {c} : call'[d].pc = "idle"
  BY DEF VaultTypeOK
<1>2. ~Busy' => k.pc = "idle"
  BY <1>1 DEF Busy
<1>3. QED
  BY <1>1, <1>2 DEF Settled, Writing

LEMMA StepSettled == VaultInv /\ SettledInv /\ [VaultNext]_vaultVars => SettledInv'
<1> SUFFICES ASSUME VaultInv, SettledInv, [VaultNext]_vaultVars, mode' = "open", alone'
             PROVE  Settled'
  BY DEF SettledInv
<1> USE DEF NoCall
<1>1. VaultTypeOK /\ \A c \in Clients : CallOK(c)
  BY DEF VaultInv
<1>2. CASE UnlockKey \/ KillServer \/ \E c \in Clients : Throws(c)
  BY <1>2 DEF UnlockKey, KillServer, Throws
<1>3. CASE OpenFile
  <2>1. disk' = file' /\ \A c \in Clients : call'[c].pc = "idle"
    BY <1>1, <1>3 DEF OpenFile, CallOK
  <2>2. QED
    BY <2>1 DEF Settled, Writing
(* A call that starts is alone.                                            *)
<1>4. ASSUME NEW c \in Clients, Starts(c)
      PROVE  \A d \in Clients \ {c} : call[d].pc = "idle"
  BY <1>4 DEF Starts, Busy
<1>5. ASSUME NEW c \in Clients, NEW r \in Refs, Remove(c, r) PROVE Settled'
  BY <1>1, <1>4, <1>5, OneCall DEF Remove, Persist
<1>6. ASSUME NEW c \in Clients, NEW r \in Refs, NEW x \in Values, Put(c, r, x)
      PROVE  Settled'
  BY <1>1, <1>4, <1>6, OneCall DEF Put, Persist
<1>7. ASSUME NEW c \in Clients, StageKey(c) PROVE Settled'
  <2>1. PICK k : call' = [call EXCEPT ![c] = [pc |-> "reencrypt", op |-> "rotate",
                                            snap |-> None, new |-> k]]
    BY <1>7 DEF StageKey
  <2>2. QED
    BY <1>1, <1>4, <1>7, <2>1, OneCall DEF StageKey, Writing
(* A call that goes on was alone.                                          *)
<1>8. ASSUME NEW c \in Clients, call[c].pc # "idle", alone' = alone
      PROVE  Settled /\ \A d \in Clients \ {c} : call[d].pc = "idle"
  BY <1>1, <1>8 DEF CallOK, SettledInv, Settled
<1>9. ASSUME NEW c \in Clients, Reencrypt(c) PROVE Settled'
  <2>1. \A d \in Clients \ {c} : call[d].pc = "idle"
    BY <1>8, <1>9 DEF Reencrypt
  <2>2. QED
    BY <1>1, <1>9, <2>1, OneCall DEF Reencrypt, Persist
<1>10. ASSUME NEW c \in Clients, CreateTemp(c) PROVE Settled'
  <2>1. Settled /\ \A d \in Clients \ {c} : call[d].pc = "idle"
    BY <1>8, <1>10 DEF CreateTemp
  <2>2. call' = [call EXCEPT ![c] = At(c, "write")]
    BY <1>1, <1>10, GotoCall DEF CreateTemp
  <2>3. handle'[c] = "own"
    <3>1. {b \in Clients \ {c} : call[b].pc \in {"write", "rename"}} = {}
      BY <2>1
    <3>2. QED
      BY <1>10, <3>1 DEF CreateTemp
  <2>4. QED
    BY <1>1, <1>10, <2>1, <2>2, <2>3, OneCall DEF CreateTemp, At, Settled, Writing
<1>11. ASSUME NEW c \in Clients, WriteTemp(c) PROVE Settled'
  <2>1. Settled /\ \A d \in Clients \ {c} : call[d].pc = "idle"
    BY <1>8, <1>11 DEF WriteTemp
  <2>2. call' = [call EXCEPT ![c] = At(c, "rename")]
    BY <1>1, <1>11, GotoCall DEF WriteTemp
  <2>3. /\ tmp' = [tmp EXCEPT ![temp[c]] = call[c].snap] /\ UNCHANGED <<disk, file, temp>>
        /\ call[c].pc = "write" /\ call[c].snap = file
    BY <1>11, <2>1 DEF WriteTemp, Settled, Writing
  <2>4. tmp'[temp'[c]] = file'
    BY <1>1, <2>3 DEF VaultTypeOK
  <2>5. QED
    BY <1>1, <2>1, <2>2, <2>3, <2>4, OneCall DEF At, Writing
<1>12. ASSUME NEW c \in Clients, Rename(c) PROVE Settled'
  <2>1. Settled /\ \A d \in Clients \ {c} : call[d].pc = "idle"
    BY <1>8, <1>12 DEF Rename
  <2>2. disk' = file'
    BY <1>1, <1>12, <2>1 DEF Rename, CallOK, Settled, Writing
  <2>3. CASE call[c].op = "rotate"
    <3>1. call' = [call EXCEPT ![c] = At(c, "promote")]
      BY <1>1, <1>12, <2>3, GotoCall DEF Rename
    <3>2. QED
      BY <1>1, <2>1, <2>2, <3>1, OneCall DEF At, Writing
  <2>4. CASE call[c].op # "rotate"
    BY <1>1, <1>12, <2>1, <2>2, <2>4, OneCall DEF Rename, Writing
  <2>5. QED
    BY <2>3, <2>4
<1>13. ASSUME NEW c \in Clients, PromoteKey(c) PROVE Settled'
  <2>1. Settled /\ \A d \in Clients \ {c} : call[d].pc = "idle"
    BY <1>8, <1>13 DEF PromoteKey
  <2>2. call' = [call EXCEPT ![c] = At(c, "unstage")]
    BY <1>1, <1>13, GotoCall DEF PromoteKey
  <2>3. QED
    BY <1>1, <1>13, <2>1, <2>2, OneCall DEF PromoteKey, At, Settled, Writing
<1>14. ASSUME NEW c \in Clients, UnstageKey(c) PROVE Settled'
  <2>1. Settled /\ \A d \in Clients \ {c} : call[d].pc = "idle"
    BY <1>8, <1>14 DEF UnstageKey
  <2>2. QED
    BY <1>1, <1>14, <2>1, OneCall DEF UnstageKey, Settled, Writing
<1>15. CASE UNCHANGED vaultVars
  BY <1>15 DEF vaultVars, SettledInv, Settled, Busy
<1>16. QED
  BY <1>2, <1>3, <1>5, <1>6, <1>7, <1>9, <1>10, <1>11, <1>12, <1>13, <1>14, <1>15
  DEF VaultNext

(* What put and remove acknowledged is in the vault file once no call is   *)
(* under way, if those that were neither overlapped nor threw.             *)
THEOREM AcknowledgedIsDurable == VaultSpec => []SettledIsDurable
<1>1. VaultInit => SettledInv
  BY DEF VaultInit, SettledInv
<1>2. VaultInv /\ SettledInv => SettledIsDurable
  BY DEF SettledInv, Settled, SettledIsDurable
<1>3. QED
  BY <1>1, <1>2, InitVaultInv, StepVaultInv, StepSettled, PTL DEF VaultSpec
=============================================================================
