------------------------------ MODULE MCJournal ------------------------------
(* Values of the constants of module Journal for TLC.                      *)
EXTENDS Journal, TLC

CONSTANTS d1, v1, c1, c2

OwnVm == d1 :> v1
Both  == [c \in {c1, c2} |-> {d1} \X Actions]
Alone == c1 :> {d1} \X Actions
=============================================================================
