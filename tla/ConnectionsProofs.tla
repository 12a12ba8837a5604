-------------------------- MODULE ConnectionsProofs ---------------------------
(***************************************************************************)
(* Proofs about module Connections, for any number of connections and      *)
(* requests and any number of failed writes and stops: the types, that the *)
(* desired real mode never dangles, and that a restart keeps what the      *)
(* panel promised.                                                         *)
(***************************************************************************)
EXTENDS Connections, TLAPS

USE ConnectionsAssumption

(* A write of the vault file that starts.                                  *)
LEMMA PersistTypes ==
  ASSUME ConnTypeOK, NEW r \in Requests, NEW t \in SUBSET Conns, Persist(r, t)
  PROVE  writing' \in [Requests -> [on : BOOLEAN, tokens : SUBSET Conns]] /\ lossy' \in BOOLEAN
<1>1. lossy' \in BOOLEAN
  BY DEF Persist
<1>2. [on |-> TRUE, tokens |-> t] \in [on : BOOLEAN, tokens : SUBSET Conns]
  OBVIOUS
<1>3. writing' \in [Requests -> [on : BOOLEAN, tokens : SUBSET Conns]]
  BY <1>2 DEF Persist, ConnTypeOK
<1>4. QED
  BY <1>1, <1>3

(* Every step, with what it leaves alone spelled out.                      *)
LEMMA TypePreserved == ConnTypeOK /\ [Next]_vars => ConnTypeOK'
<1> SUFFICES ASSUME ConnTypeOK, [Next]_vars PROVE ConnTypeOK'
  OBVIOUS
<1> USE DEF ConnTypeOK, process, deployment, bounds, Free, Places,
           GetConnection, SaveConnection, DeleteConnection
<1>1. ASSUME NEW r \in Requests, WriteLands(r) PROVE ConnTypeOK'
  BY <1>1 DEF WriteLands
<1>2. ASSUME NEW r \in Requests, WriteFails(r) PROVE ConnTypeOK'
  BY <1>2 DEF WriteFails
<1>3. ASSUME NEW r \in Requests, NEW c \in Conns, Save(r, c) PROVE ConnTypeOK'
  <2>1. row' \in SUBSET Conns /\ token' \in SUBSET Conns /\ Persist(r, token')
    BY <1>3 DEF Save
  <2>2. QED
    BY <1>3, <2>1, PersistTypes DEF Save
<1>4. ASSUME NEW r \in Requests, NEW c \in Conns, Delete(r, c) PROVE ConnTypeOK'
  <2>1. row' \in SUBSET Conns /\ token' \in SUBSET Conns
    BY <1>4 DEF Delete
  <2>2. CASE Persist(r, token')
    BY <1>4, <2>1, <2>2, PersistTypes DEF Delete
  <2>3. CASE UNCHANGED <<token, writing, lossy>>
    BY <1>4, <2>1, <2>3 DEF Delete
  <2>4. QED
    BY <1>4, <2>2, <2>3 DEF Delete
<1>5. ASSUME NEW c \in Conns, SaveMetadata(c) PROVE ConnTypeOK'
  BY <1>5 DEF SaveMetadata
<1>6. ASSUME NEW c \in Conns, EnableReal(c) PROVE ConnTypeOK'
  BY <1>6 DEF EnableReal, Modes
<1>7. CASE DisableReal
  BY <1>7 DEF DisableReal, Modes
<1>8. CASE Stop
  <2>1. lossy' \in BOOLEAN
    BY <1>8 DEF Stop
  <2>2. faults' \in 0..MaxFaults /\ writing' \in [Requests -> [on : BOOLEAN, tokens : SUBSET Conns]]
    BY <1>8 DEF Stop
  <2>3. QED
    BY <1>8, <2>1, <2>2 DEF Stop
<1>9. ASSUME NEW isReady \in BOOLEAN, Boot(isReady) PROVE ConnTypeOK'
  BY <1>9 DEF Boot, Bound, Modes
<1>10. effective.at \in Places
  BY DEF Modes, Mock, Real
<1>11. CASE Run
  BY <1>10, <1>11 DEF Run
<1>12. CASE ConfirmAndDelete
  BY <1>10, <1>12 DEF ConfirmAndDelete
<1>13. CASE UNCHANGED vars
  BY <1>13 DEF vars
<1>14. QED
  BY <1>1, <1>2, <1>3, <1>4, <1>5, <1>6, <1>7, <1>8, <1>9, <1>11, <1>12, <1>13 DEF Next

(* The sets, modes and requests keep their types, whatever the routes do.  *)
THEOREM ConnTypeCorrect == Spec => []ConnTypeOK
<1>1. ASSUME Init PROVE ConnTypeOK
  <2>1. /\ vm \in [Places -> {"none", "own", "other"}]
        /\ writing \in [Requests -> [on : BOOLEAN, tokens : SUBSET Conns]]
    BY <1>1 DEF Init, Free, Places
  <2>2. config \in Modes /\ effective \in Modes /\ faults \in 0..MaxFaults
    BY <1>1 DEF Init, Modes
  <2>3. QED
    BY <1>1, <2>1, <2>2 DEF Init, ConnTypeOK
<1>2. QED
  BY <1>1, TypePreserved, PTL DEF Spec

-----------------------------------------------------------------------------
(* The desired mode and the rows need nothing of the vault: EnableReal     *)
(* looks at the row, and Delete refuses the active connection, in the same *)
(* step as it writes.                                                      *)
LEMMA NoDanglingPreserved ==
  ConnTypeOK /\ NoDanglingReal /\ [Next]_vars => NoDanglingReal'
<1> SUFFICES ASSUME ConnTypeOK, NoDanglingReal, [Next]_vars PROVE NoDanglingReal'
  OBVIOUS
<1> USE DEF NoDanglingReal, process, deployment, bounds,
           GetConnection, SaveConnection, DeleteConnection
<1>1. ASSUME NEW r \in Requests, NEW c \in Conns, Delete(r, c) PROVE NoDanglingReal'
  <2>1. config.mode = "real" => config = Real(config.at)
    BY DEF ConnTypeOK, Modes, Mock, Real
  <2>2. config' = config /\ config # Real(c) /\ row' = row \ {c}
    BY <1>1 DEF Delete
  <2>3. QED
    BY <2>1, <2>2
<1>2. ASSUME NEW r \in Requests, NEW c \in Conns, Save(r, c) PROVE NoDanglingReal'
  BY <1>2 DEF Save
<1>3. ASSUME NEW c \in Conns, SaveMetadata(c) PROVE NoDanglingReal'
  BY <1>3 DEF SaveMetadata
<1>4. ASSUME NEW c \in Conns, EnableReal(c) PROVE NoDanglingReal'
  BY <1>4 DEF EnableReal, Real
<1>5. CASE DisableReal
  BY <1>5 DEF DisableReal, Mock
<1>6. ASSUME NEW r \in Requests, WriteLands(r) \/ WriteFails(r) PROVE NoDanglingReal'
  BY <1>6 DEF WriteLands, WriteFails
<1>7. ASSUME NEW isReady \in BOOLEAN, Boot(isReady) PROVE NoDanglingReal'
  BY <1>7 DEF Boot
<1>8. CASE Stop \/ Run \/ ConfirmAndDelete \/ UNCHANGED vars
  BY <1>8 DEF Stop, Run, ConfirmAndDelete, vars
<1>9. QED
  BY <1>1, <1>2, <1>3, <1>4, <1>5, <1>6, <1>7, <1>8 DEF Next

(* The configured real mode points to a connection that is there.          *)
THEOREM NoDanglingCorrect == Spec => []NoDanglingReal
<1>1. Init => NoDanglingReal
  BY DEF Init, NoDanglingReal, Mock
<1>2. QED
  BY <1>1, ConnTypeCorrect, NoDanglingPreserved, PTL DEF Spec

-----------------------------------------------------------------------------
(* What holds between the rows, the memory and the file of the vault while *)
(* writes come one at a time and end well: the memory has tokens of rows   *)
(* only and that of the enabled connection, and the file has the memory    *)
(* but for the one write that is on its way.                               *)
InStep ==
  /\ token \subseteq row
  /\ config.mode = "real" => config.at \in token
  /\ \A r \in Pending : Pending = {r} /\ writing[r].tokens = token
  /\ Pending = {} => disk = token
  /\ ~up => Pending = {}
VaultInv == ~lossy => InStep

(* A write that starts when none is under way is the only one.             *)
LEMMA PersistPending ==
  ASSUME ConnTypeOK, NEW r \in Requests, NEW t \in SUBSET Conns, Persist(r, t), ~lossy'
  PROVE  Pending = {} /\ Pending' = {r} /\ writing'[r].tokens = t
<1>1. Pending = {} /\ writing' = [writing EXCEPT ![r] = [on |-> TRUE, tokens |-> t]]
  BY DEF Persist, ConnTypeOK
<1>2. writing'[r].on /\ writing'[r].tokens = t
  BY <1>1 DEF ConnTypeOK
<1>3. \A q \in Requests \ {r} : writing'[q] = writing[q] /\ ~writing[q].on
  BY <1>1 DEF ConnTypeOK, Pending
<1>4. QED
  BY <1>1, <1>2, <1>3 DEF Pending

LEMMA VaultPreserved == ConnTypeOK /\ VaultInv /\ [Next]_vars => VaultInv'
<1> SUFFICES ASSUME ConnTypeOK, VaultInv, [Next]_vars, ~lossy' PROVE InStep'
  BY DEF VaultInv
<1>0. ~lossy => InStep
  BY DEF VaultInv
<1> USE DEF process, deployment, bounds,
           GetConnection, SaveConnection, DeleteConnection
<1>1. ASSUME NEW r \in Requests, WriteLands(r) PROVE InStep'
  <2>1. ~lossy /\ InStep /\ r \in Pending /\ Pending = {r} /\ disk' = token
    BY <1>0, <1>1 DEF WriteLands, InStep, Pending
  <2>2. Pending' = {}
    <3>1. ~writing'[r].on /\ \A q \in Requests \ {r} : writing'[q] = writing[q]
      BY <1>1 DEF WriteLands, ConnTypeOK, Free
    <3>2. QED
      BY <2>1, <3>1 DEF Pending
  <2>3. QED
    BY <1>1, <2>1, <2>2 DEF WriteLands, InStep
<1>2. ASSUME NEW r \in Requests, WriteFails(r) PROVE InStep'
  BY <1>2 DEF WriteFails
<1>3. ASSUME NEW r \in Requests, NEW c \in Conns, Save(r, c) PROVE InStep'
  <2>1. ~lossy /\ Persist(r, token') /\ token' \in SUBSET Conns /\ up' = up /\ up
    BY <1>3 DEF Save, Persist, ConnTypeOK
  <2>2. Pending' = {r} /\ writing'[r].tokens = token'
    BY <2>1, PersistPending
  <2>3. QED
    BY <1>0, <1>3, <2>1, <2>2 DEF Save, InStep
<1>4. ASSUME NEW r \in Requests, NEW c \in Conns, Delete(r, c) PROVE InStep'
  <2>1. config' = config /\ config # Real(c) /\ row' = row \ {c} /\ up' = up /\ up
    BY <1>4 DEF Delete
  <2>2. config.mode = "real" => config.at # c
    BY <2>1 DEF ConnTypeOK, Modes, Mock, Real
  <2>3. CASE c \in token
    <3>1. ~lossy /\ Persist(r, token') /\ token' \in SUBSET Conns /\ token' = token \ {c}
      BY <1>4, <2>3 DEF Delete, Persist, ConnTypeOK
    <3>2. Pending' = {r} /\ writing'[r].tokens = token'
      BY <3>1, PersistPending
    <3>3. QED
      BY <1>0, <2>1, <2>2, <3>1, <3>2 DEF InStep
  <2>4. CASE c \notin token
    <3>1. UNCHANGED <<token, writing, lossy, disk>>
      BY <1>4, <2>4 DEF Delete
    <3>2. Pending' = Pending
      BY <3>1 DEF Pending
    <3>3. QED
      BY <1>0, <2>1, <2>2, <2>4, <3>1, <3>2 DEF InStep
  <2>5. QED
    BY <2>3, <2>4
<1>5. ASSUME NEW c \in Conns, SaveMetadata(c) PROVE InStep'
  BY <1>0, <1>5 DEF SaveMetadata, InStep, Pending
<1>6. ASSUME NEW c \in Conns, EnableReal(c) PROVE InStep'
  BY <1>0, <1>6 DEF EnableReal, Real, InStep, Pending
<1>7. CASE DisableReal
  BY <1>0, <1>7 DEF DisableReal, Mock, InStep, Pending
<1>8. CASE Stop
  <2>1. ~lossy /\ Pending = {} /\ Pending' = {}
    BY <1>8 DEF Stop, Pending, Free, ConnTypeOK
  <2>2. QED
    BY <1>0, <1>8, <2>1 DEF Stop, InStep
<1>9. ASSUME NEW isReady \in BOOLEAN, Boot(isReady) PROVE InStep'
  BY <1>0, <1>9 DEF Boot, InStep, Pending
<1>10. CASE Run \/ ConfirmAndDelete \/ UNCHANGED vars
  BY <1>0, <1>10 DEF Run, ConfirmAndDelete, vars, InStep, Pending
<1>11. QED
  BY <1>1, <1>2, <1>3, <1>4, <1>5, <1>6, <1>7, <1>8, <1>9, <1>10 DEF Next

(* After any restart the enabled connection finds its token in the vault   *)
(* file, and the file has no token of a connection that is gone.           *)
THEOREM RestartCorrect == Spec => []RestartKeepsPromises
<1>1. Init => VaultInv
  BY DEF Init, VaultInv, InStep, Pending, Free, Mock
<1>2. VaultInv => RestartKeepsPromises
  BY DEF VaultInv, InStep, RestartKeepsPromises
<1>3. QED
  BY <1>1, <1>2, ConnTypeCorrect, VaultPreserved, PTL DEF Spec
=============================================================================
