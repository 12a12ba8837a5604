-------------------------------- MODULE Vault --------------------------------
(***************************************************************************)
(* The encrypted vault (packages/vault): its records in memory, the vault  *)
(* file that every change rewrites as a whole (temporary file, fsync,      *)
(* rename), and the master key in the keychain, which a rotation replaces  *)
(* in three steps.  Handlers of the server share the one vault object and  *)
(* interleave at every await; the process can be killed anywhere.          *)
(*                                                                         *)
(* A temporary file is named by the process id and the millisecond, so     *)
(* calls that overlap may share one.  FileKeychain writes a key in one     *)
(* step.                                                                   *)
(***************************************************************************)
EXTENDS Naturals

CONSTANTS
  Clients,      \* handlers that use the vault
  Refs,         \* references of secrets
  Values,       \* secrets
  Keys,         \* master keys
  None,         \* no record, no key, no file
  Torn,         \* the content of a file that is not completely written
  RotateAlone,  \* whether a rotation overlaps no other call
  IoErrors,     \* whether writing the file can fail
  MaxCalls,     \* bound: calls
  MaxRotations, \* bound: rotations
  MaxCrashes    \* bound: crashes

ASSUME NoneAssumption == None \notin Keys
ASSUME FlagsAssumption == RotateAlone \in BOOLEAN /\ IoErrors \in BOOLEAN
ASSUME VaultBounds ==
  MaxCalls \in Nat /\ MaxRotations \in Nat /\ MaxCrashes \in Nat

VARIABLES
  keychain,  \* the accounts frolo-master-key (main) and -next
  key,       \* this.key
  file,      \* this.file, the records in memory
  disk,      \* the content of the vault file
  tmp,       \* tmp[n]: the temporary file with name n; no more than clients
  temp,      \* temp[c]: the name c has given its temporary file
  handle,    \* handle[c]: what the file that c has opened for writing is now
  call,      \* call[c]: where handler c is in put, remove or rotateKey
  mode,      \* "down", "opening" (unlock has the key) or "open"
  alone,     \* history: the calls since nothing ran did not overlap, none threw
  replaced,  \* history: a rotation has replaced the staged key of another
  shared,    \* history: two calls gave a temporary file the same name
  calls, rotations, crashes

vaultVars == <<keychain, key, file, disk, tmp, temp, handle, call, mode, alone,
               replaced, shared, calls, rotations, crashes>>

names   == <<temp, handle, shared>>
history == <<replaced, calls, rotations, crashes>>

Handles == {"own",     \* a temporary file nobody else writes
            "shared",  \* a temporary file that somebody else has opened too
            "vault",   \* the vault file: somebody has renamed it meanwhile
            "lost"}    \* a vault file that has been replaced since

Record  == [key : Keys, value : Values]
Records == [Refs -> Record \cup {None}]
Empty   == [r \in Refs |-> None]

(* FileKeychain: a file for each account.                                  *)
Keychain == [main : Keys \cup {None}, next : Keys \cup {None}]

(* The records of a vault are neither a missing nor a torn file.           *)
ASSUME ContentAssumption ==
  /\ None \notin Record /\ None \notin Records
  /\ Torn \notin Records /\ Torn # None

Content == Records \cup {None, Torn}
NoCall  == [pc |-> "idle", op |-> "none", snap |-> None, new |-> None]

Busy == \E c \in Clients : call[c].pc # "idle"

(* What ensureUnlocked relies on, with the types: an open vault has its    *)
(* key and its records.                                                    *)
VaultTypeOK ==
  /\ keychain \in Keychain
  /\ key \in Keys \cup {None}
  /\ file \in Records \cup {None}
  /\ disk \in Content
  /\ tmp \in [Clients -> Content]
  /\ temp \in [Clients -> Clients]
  /\ handle \in [Clients -> Handles]
  /\ call \in [Clients -> [pc : {"idle", "reencrypt", "create", "write", "rename",
                                 "promote", "unstage"},
                           op : {"none", "put", "remove", "rotate"},
                           snap : Records \cup {None}, new : Keys \cup {None}]]
  /\ mode \in {"down", "opening", "open"}
  /\ mode = "open" => key \in Keys /\ file \in Records
  /\ mode = "down" => key = None /\ file = None /\ ~Busy
  /\ alone \in BOOLEAN /\ replaced \in BOOLEAN /\ shared \in BOOLEAN
  /\ calls \in 0..MaxCalls
  /\ rotations \in 0..MaxRotations
  /\ crashes \in 0..MaxCrashes

VaultInit ==
  /\ keychain = [main |-> None, next |-> None]
  /\ key = None /\ file = None
  /\ disk = None
  /\ tmp = [c \in Clients |-> None]
  /\ temp = [c \in Clients |-> c]
  /\ handle = [c \in Clients |-> "own"]
  /\ call = [c \in Clients |-> NoCall]
  /\ mode = "down"
  /\ alone = TRUE /\ replaced = FALSE /\ shared = FALSE
  /\ calls = 0 /\ rotations = 0 /\ crashes = 0

-----------------------------------------------------------------------------
(* unlock.                                                                 *)

KeysOf(f)   == {f[r].key : r \in {s \in Refs : f[s] # None}}
KeysInFiles == UNION {KeysOf(f) : f \in {file, disk} \ {None, Torn}}
Unused      == Keys \ ({keychain.main, keychain.next, key} \cup KeysInFiles)

(* The key unlock takes when there is one: main, else an interrupted next. *)
KeptKey == IF keychain.main # None THEN keychain.main ELSE keychain.next

UnlockKey ==
  /\ mode = "down"
  /\ \E k \in IF KeptKey # None THEN {KeptKey} ELSE Unused :
       /\ key' = k
       /\ keychain' = IF keychain.main # None THEN keychain
                      ELSE [main |-> k, next |-> None]
  /\ mode' = "opening"
  /\ UNCHANGED <<file, disk, tmp, call, alone, history, names>>

(* Mutant: the records of a missing file are not made.                     *)
OpenMissing ==
  /\ mode = "opening"
  /\ disk # Torn
  /\ file' = disk
  /\ mode' = "open"
  /\ alone' = TRUE
  /\ UNCHANGED <<keychain, key, disk, tmp, call, history, names>>

(* A file that is not there is made; one that is torn is refused.          *)
OpenFile ==
  /\ mode = "opening"
  /\ disk # Torn
  /\ file' = IF disk = None THEN Empty ELSE disk
  /\ disk' = file'
  /\ mode' = "open"
  /\ alone' = TRUE
  /\ UNCHANGED <<keychain, key, tmp, call, history, names>>

-----------------------------------------------------------------------------
(* put, remove and the first step of rotateKey.                            *)

Rotating == \E c \in Clients : call[c].op = "rotate"

Starts(c) ==
  /\ mode = "open" /\ call[c].pc = "idle"
  /\ calls < MaxCalls
  /\ calls' = calls + 1
  /\ alone' = ~Busy

(* persist() takes its snapshot of the records at once.                    *)
Persist(c, op, f, k) ==
  /\ file' = f
  /\ call' = [call EXCEPT ![c] = [pc |-> "create", op |-> op, snap |-> f, new |-> k]]

(* Mutant: the record is put into memory only.                             *)
PutInMemory(c, r, x) ==
  /\ Starts(c)
  /\ RotateAlone => ~Rotating
  /\ file' = [file EXCEPT ![r] = [key |-> key, value |-> x]]
  /\ call' = [call EXCEPT ![c] = [pc |-> "create", op |-> "put", snap |-> file,
                                   new |-> None]]
  /\ UNCHANGED <<keychain, key, disk, tmp, mode, replaced, rotations, crashes, names>>

Put(c, r, x) ==
  /\ Starts(c)
  /\ RotateAlone => ~Rotating
  /\ Persist(c, "put", [file EXCEPT ![r] = [key |-> key, value |-> x]], None)
  /\ UNCHANGED <<keychain, key, disk, tmp, mode, replaced, rotations, crashes, names>>

(* Removing what is not there does nothing at all.                         *)
Remove(c, r) ==
  /\ Starts(c)
  /\ RotateAlone => ~Rotating
  /\ file[r] # None
  /\ Persist(c, "remove", [file EXCEPT ![r] = None], None)
  /\ UNCHANGED <<keychain, key, disk, tmp, mode, replaced, rotations, crashes, names>>

(* Mutant: the new key is not staged.                                      *)
StageNothing(c) ==
  /\ Starts(c)
  /\ RotateAlone => ~Busy
  /\ rotations < MaxRotations
  /\ rotations' = rotations + 1
  /\ \E k \in Unused :
       call' = [call EXCEPT ![c] = [pc |-> "reencrypt", op |-> "rotate",
                                     snap |-> None, new |-> k]]
  /\ UNCHANGED <<keychain, key, file, disk, tmp, mode, replaced, crashes, names>>

(* rotateKey stages the new key.                                           *)
StageKey(c) ==
  /\ Starts(c)
  /\ RotateAlone => ~Busy
  /\ rotations < MaxRotations
  /\ rotations' = rotations + 1
  /\ replaced' = (replaced \/ keychain.next # None)
  /\ \E k \in Unused :
       /\ keychain' = [keychain EXCEPT !.next = k]
       /\ call' = [call EXCEPT ![c] = [pc |-> "reencrypt", op |-> "rotate",
                                        snap |-> None, new |-> k]]
  /\ UNCHANGED <<key, file, disk, tmp, mode, crashes, names>>

Reencrypted(f, k) == [r \in Refs |-> IF f[r] = None THEN None
                                     ELSE [f[r] EXCEPT !.key = k]]

Reencrypt(c) ==
  /\ call[c].pc = "reencrypt"
  /\ KeysOf(file) \subseteq {key}
  /\ Persist(c, "rotate", Reencrypted(file, call[c].new), call[c].new)
  /\ UNCHANGED <<keychain, key, disk, tmp, mode, alone, history, names>>

(* A call throws: a record that does not decrypt, the file not written, or *)
(* the temporary file gone under the name that another call has given it.  *)
Throws(c) ==
  /\ \/ call[c].pc = "reencrypt" /\ ~(KeysOf(file) \subseteq {key})
     \/ call[c].pc \in {"create", "write", "rename"} /\ IoErrors
     \/ call[c].pc = "rename" /\ tmp[temp[c]] = None
  /\ call' = [call EXCEPT ![c] = NoCall]
  /\ alone' = FALSE
  /\ UNCHANGED <<keychain, key, file, disk, tmp, mode, history, names>>

-----------------------------------------------------------------------------
(* writeAtomic, and the rest of rotateKey.                                 *)

Goto(c, p) == call' = [call EXCEPT ![c].pc = p]

(* The name is one that nobody uses, or in the same millisecond that of    *)
(* another call; a file that is there is emptied.                          *)
CreateTemp(c) ==
  /\ call[c].pc = "create"
  /\ \E n \in Clients :
       LET users   == {b \in Clients \ {c} : call[b].pc \in {"write", "rename"} /\ temp[b] = n}
           writers == {b \in users : call[b].pc = "write" /\ handle[b] \in {"own", "shared"}}
       IN  /\ tmp' = [tmp EXCEPT ![n] = Torn]
           /\ temp' = [temp EXCEPT ![c] = n]
           /\ handle' = [b \in Clients |->
                           IF b \in writers \/ (b = c /\ writers # {}) THEN "shared"
                           ELSE IF b = c THEN "own" ELSE handle[b]]
           /\ shared' = (shared \/ users # {})
  /\ Goto(c, "write")
  /\ UNCHANGED <<keychain, key, file, disk, mode, alone, history>>

(* Mutant: the vault file is replaced before the bytes are written.        *)
RenameBeforeWrite(c) ==
  /\ call[c].pc = "write"
  /\ disk' = tmp[temp[c]]
  /\ Goto(c, "rename")
  /\ tmp' = [tmp EXCEPT ![temp[c]] = call[c].snap]
  /\ UNCHANGED <<keychain, key, file, mode, alone, names, history>>

(* Two that write one file may leave a mixture of both.                    *)
WriteTemp(c) ==
  /\ call[c].pc = "write"
  /\ \E x \in {call[c].snap} \cup (IF handle[c] = "own" THEN {} ELSE {Torn}) :
       /\ tmp' = IF handle[c] \in {"own", "shared"} THEN [tmp EXCEPT ![temp[c]] = x] ELSE tmp
       /\ disk' = IF handle[c] = "vault" THEN x ELSE disk
  /\ Goto(c, "rename")
  /\ UNCHANGED <<keychain, key, file, mode, alone, names, history>>

(* put and remove return here; rotateKey goes on.  Who still writes the    *)
(* file that is renamed writes the vault file from here on.                *)
Rename(c) ==
  /\ call[c].pc = "rename"
  /\ tmp[temp[c]] # None
  /\ disk' = tmp[temp[c]]
  /\ tmp' = [tmp EXCEPT ![temp[c]] = None]
  /\ handle' = [b \in Clients |->
                  IF call[b].pc # "write" THEN handle[b]
                  ELSE IF handle[b] = "vault" THEN "lost"
                  ELSE IF handle[b] # "lost" /\ temp[b] = temp[c] THEN "vault"
                  ELSE handle[b]]
  /\ IF call[c].op = "rotate" THEN Goto(c, "promote")
     ELSE call' = [call EXCEPT ![c] = NoCall]
  /\ UNCHANGED <<keychain, key, file, temp, shared, mode, alone, history>>

PromoteKey(c) ==
  /\ call[c].pc = "promote"
  /\ keychain' = [keychain EXCEPT !.main = call[c].new]
  /\ Goto(c, "unstage")
  /\ UNCHANGED <<key, file, disk, tmp, mode, alone, names, history>>

UnstageKey(c) ==
  /\ call[c].pc = "unstage"
  /\ keychain' = [keychain EXCEPT !.next = None]
  /\ key' = call[c].new
  /\ call' = [call EXCEPT ![c] = NoCall]
  /\ UNCHANGED <<file, disk, tmp, mode, alone, names, history>>

(* The process is killed; what it left in temporary files is never read.   *)
KillServer ==
  /\ mode # "down"
  /\ crashes < MaxCrashes
  /\ crashes' = crashes + 1
  /\ mode' = "down"
  /\ key' = None /\ file' = None
  /\ tmp' = [c \in Clients |-> None]
  /\ temp' = [c \in Clients |-> c]
  /\ handle' = [c \in Clients |-> "own"]
  /\ call' = [c \in Clients |-> NoCall]
  /\ alone' = FALSE
  /\ UNCHANGED <<keychain, disk, replaced, shared, calls, rotations>>

VaultNext ==
  \/ UnlockKey \/ OpenFile \/ KillServer
  \/ \E c \in Clients, r \in Refs : Remove(c, r) \/ \E x \in Values : Put(c, r, x)
  \/ \E c \in Clients :
       \/ StageKey(c) \/ Reencrypt(c) \/ Throws(c)
       \/ CreateTemp(c) \/ WriteTemp(c) \/ Rename(c)
       \/ PromoteKey(c) \/ UnstageKey(c)

VaultSpec == VaultInit /\ [][VaultNext]_vaultVars

-----------------------------------------------------------------------------
(* Properties.                                                             *)

(* No crash, failed write or overlap of calls leaves a partially written   *)
(* vault file, as long as no two calls named their temporary files in the  *)
(* same millisecond.                                                       *)
VaultIsWhole == ~shared => disk # Torn

Stored == IF disk = None THEN Empty ELSE disk

(* Every record of the vault file decrypts with a key of the keychain, at  *)
(* every point of a rotation and after any crash or failed write, until a  *)
(* rotation that follows an interrupted one replaces the staged key; but   *)
(* for what calls that share a temporary file make of the vault file.      *)
RecordsRecoverable ==
  ~replaced /\ ~shared => KeysOf(Stored) \subseteq {keychain.main, keychain.next}

(* When no call is under way, and those that were did not overlap and did  *)
(* not throw, the vault file says what memory says: what put and remove    *)
(* acknowledged survives a restart.                                        *)
SettledIsDurable == mode = "open" /\ ~Busy /\ alone => disk = file
=============================================================================
