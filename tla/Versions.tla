------------------------------- MODULE Versions -------------------------------
(***************************************************************************)
(* Release versions as the updater compares them (compareVersions of       *)
(* packages/server/src/updater.ts), and the precedence of semantic         *)
(* versioning, defined on its own, that the comparison is to compute.      *)
(*                                                                         *)
(* A version is three numbers and the identifiers of its prerelease part,  *)
(* none for a release proper.  An identifier is a number, or a word whose  *)
(* rank is its place in the alphabetical order of words.  Identifiers that *)
(* mix the two ("2a") and versions with two hyphens are left out.          *)
(***************************************************************************)
EXTENDS Integers, Sequences, FiniteSetsExt

Number(n) == [kind |-> "number", rank |-> n]
Word(n)   == [kind |-> "word", rank |-> n]

Identifier == [kind : {"number", "word"}, rank : Nat]
Version    == [core : {s \in Seq(Nat) : Len(s) = 3}, pre : Seq(Identifier)]

-----------------------------------------------------------------------------
(* compareVersions: negative, zero or positive.                            *)

(* Two numbers are compared as numbers, anything else as text, in which    *)
(* digits come before letters.                                             *)
CompareIds(x, y) ==
  IF x.kind = y.kind THEN x.rank - y.rank
  ELSE IF x.kind = "number" THEN -1 ELSE 1

(* The first place at which the two differ decides; the one that has no    *)
(* identifier there is the lesser.                                         *)
ComparePre(a, b) ==
  LET differ == {i \in 1..Max({Len(a), Len(b)}) :
                   i > Len(a) \/ i > Len(b) \/ CompareIds(a[i], b[i]) # 0}
      first  == Min(differ)
  IN  IF differ = {} THEN 0
      ELSE IF first > Len(a) THEN -1
      ELSE IF first > Len(b) THEN 1
      ELSE CompareIds(a[first], b[first])

(* Mutant: a prerelease is compared as if it were a release.               *)
CompareCore(v, w) ==
  LET differ == {i \in 1..3 : v.core[i] # w.core[i]}
  IN  IF differ = {} THEN ComparePre(v.pre, w.pre)
      ELSE v.core[Min(differ)] - w.core[Min(differ)]

CompareVersions(v, w) ==
  LET differ == {i \in 1..3 : v.core[i] # w.core[i]}
  IN  CASE differ # {}                    -> v.core[Min(differ)] - w.core[Min(differ)]
        [] differ = {} /\ v.pre = w.pre   -> 0
        [] differ = {} /\ v.pre = <<>> /\ w.pre # <<>> -> 1
        [] differ = {} /\ v.pre # <<>> /\ w.pre = <<>> -> -1
        [] OTHER                          -> ComparePre(v.pre, w.pre)

-----------------------------------------------------------------------------
(* Precedence, as semantic versioning defines it.                          *)

LessId(x, y) == \/ x.kind = "number" /\ y.kind = "word"
                \/ x.kind = y.kind /\ x.rank < y.rank

(* s is less than t: they agree up to a place where s ends or is less.     *)
Below(s, t, Less(_, _)) ==
  \E n \in 0..Len(s) :
    /\ n < Len(t)
    /\ \A i \in 1..n : s[i] = t[i]
    /\ n = Len(s) \/ Less(s[n + 1], t[n + 1])

LessNumber(m, n) == m < n

Precedes(v, w) ==
  \/ Below(v.core, w.core, LessNumber)
  \/ /\ v.core = w.core
     /\ v.pre # <<>>
     /\ w.pre = <<>> \/ Below(v.pre, w.pre, LessId)
=============================================================================
