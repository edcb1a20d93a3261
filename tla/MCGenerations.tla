---------------------------- MODULE MCGenerations ----------------------------
(***************************************************************************)
(* Two exporter handles compete for one type while a plain sink of another  *)
(* type comes and goes, and a thread dispatches for both.                  *)
(***************************************************************************)
EXTENDS Generations, TLC

CONSTANTS R1, R2, h1, h2, h3, g1, g2, g3

MCTypeOf == [h \in Handle |-> IF h = h3 THEN R2 ELSE R1]
Symmetric == Permutations(Callback) \cup Permutations(Exporter)
=============================================================================
