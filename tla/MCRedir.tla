------------------------------ MODULE MCRedir ------------------------------
(* Model values for RedirProperties. *)
EXTENDS RedirProperties, TLC

\* The files are interchangeable: none has a name, and Init takes any three.
Symmetry == Permutations(Files)
=============================================================================
