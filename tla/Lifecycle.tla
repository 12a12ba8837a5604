------------------------------ MODULE Lifecycle ------------------------------
(***************************************************************************)
(* The deployment state machine of packages/core/src/state-machine.ts: its *)
(* transition table and, as a specification of its own, the lifecycle the  *)
(* table promises for the states that are persisted: a run starts at       *)
(* Cloning, goes forward along the table and may fail, and only a new run  *)
(* leaves the state it ended in.  Module Deployment implements it.         *)
(***************************************************************************)
EXTENDS Naturals, Sequences

CONSTANT Deps      \* deployment ids

VARIABLE state     \* state[d]: the persisted state of deployment d

States == {"Queued", "Cloning", "Configuring", "Booting", "Installing",
           "Checking", "Exposing", "Ready", "Failed"}

(* FORWARD.                                                                *)
Forward ==
  [Queued      |-> {"Cloning", "Failed"},
   Cloning     |-> {"Configuring", "Failed"},
   Configuring |-> {"Booting", "Failed"},
   Booting     |-> {"Installing", "Failed"},
   Installing  |-> {"Checking", "Failed"},
   Checking    |-> {"Exposing", "Ready", "Failed"},
   Exposing    |-> {"Ready", "Failed"},
   Ready       |-> {},
   Failed      |-> {}]

CanTransition(from, to) == to \in Forward[from]

IsTerminal(s) == s \in {"Ready", "Failed"}

(* The steps of a deployment; without an exposure all but the last.        *)
StepOrder == <<"Cloning", "Configuring", "Booting", "Installing", "Checking", "Exposing">>
Steps(hasExposure) == IF hasExposure THEN StepOrder ELSE SubSeq(StepOrder, 1, 5)

(* The step after the last confirmed one, Ready after all of them, and the *)
(* first for a state that is not a step.                                   *)
NextState(lastConfirmed, hasExposure) ==
  LET steps == Steps(hasExposure)
      after == {i \in 2..Len(steps) : steps[i - 1] = lastConfirmed}
  IN  IF lastConfirmed = steps[Len(steps)] THEN "Ready"
      ELSE IF after # {} THEN steps[CHOOSE i \in after : TRUE]
      ELSE steps[1]

(* The earliest step that is not confirmed.                                *)
ComputeRetryState(confirmedSteps, hasExposure) ==
  LET steps == Steps(hasExposure)
      open  == {i \in DOMAIN steps : steps[i] \notin confirmedSteps}
  IN  IF open = {} THEN "Ready" ELSE steps[CHOOSE i \in open : \A j \in open : i <= j]

-----------------------------------------------------------------------------
Init == state = [d \in Deps |-> "Queued"]

Advance(d) == \E to \in Forward[state[d]] : state' = [state EXCEPT ![d] = to]

(* A run, the retry of a failed one or another run after a restart.        *)
Rerun(d) == state' = [state EXCEPT ![d] = "Cloning"]

Next == \E d \in Deps : Advance(d) \/ Rerun(d)

Spec == Init /\ [][Next]_state
=============================================================================
