------------------------------- MODULE MCApps -------------------------------
(* The files the process starts with, and the symmetry of its applications. *)
EXTENDS Apps, TLC

CONSTANTS stdin

MCInherited == [n \in Fd |-> IF n = 0 THEN stdin ELSE NULL]

AppSymmetry == Permutations(App)
=============================================================================
