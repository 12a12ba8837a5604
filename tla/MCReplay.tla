------------------------------- MODULE MCReplay -------------------------------
(* Symmetry of module Replay for TLC: neither deployments nor replays are      *)
(* told apart.                                                                *)
EXTENDS Replay, TLC

EitherWay == Permutations(Deps) \cup Permutations(Replays)
=============================================================================
