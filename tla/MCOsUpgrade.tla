---------------------------- MODULE MCOsUpgrade ----------------------------
(* Model-checking instances of OsUpgrade.                                  *)
EXTENDS OsUpgrade, TLC

Symmetry == Permutations(Commits)
====
