------------------------------ MODULE FirstRun ------------------------------
(***************************************************************************)
(* What the first-run setup of the panel promises, whatever browsers,      *)
(* requests, crashes and lost answers do: setup is finished only under an  *)
(* administrator, it stays finished, and only the reset command of the     *)
(* local terminal takes both away (server/routes/setup-routes.ts:10-11).   *)
(***************************************************************************)
VARIABLES admin,   \* an administrator account exists
          done,    \* setup is marked complete: the panel shows the login
          wiping   \* the reset command is between its two statements

vars == <<admin, done, wiping>>

Init == ~admin /\ ~done /\ ~wiping

Create == admin' /\ UNCHANGED <<done, wiping>>

Complete == admin /\ done' /\ UNCHANGED <<admin, wiping>>

Wipe == ~wiping /\ wiping' /\ ~admin' /\ UNCHANGED done

Reopen == wiping /\ ~wiping' /\ ~done' /\ UNCHANGED admin

Next == Create \/ Complete \/ Wipe \/ Reopen

Spec == Init /\ [][Next]_vars

\* A finished setup has somebody who can log in, except while a reset is on
\* its way; otherwise the panel would ask for a login nobody has.
DoneHasAdmin == done /\ ~wiping => admin
=============================================================================
