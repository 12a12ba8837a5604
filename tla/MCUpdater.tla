------------------------------ MODULE MCUpdater -------------------------------
(* Values of the constants of module Updater for TLC.                      *)
EXTENDS Updater

CONSTANTS p1, s1

Release(a, b, pre) == [core |-> <<a, b, 0>>, pre |-> pre]

Beta2  == Release(1, 0, <<Word(1), Number(2)>>)
Beta10 == Release(1, 0, <<Word(1), Number(10)>>)
New    == Release(1, 0, <<>>)

AllTags == {Beta2, Beta10, New}
AllGood == {Beta2, Beta10}
=============================================================================
