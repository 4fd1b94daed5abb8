------------------------------ MODULE MCSigchld ------------------------------
(* Model values for SigchldProperties. *)
EXTENDS SigchldProperties, TLC

\* Children and trap commands are interchangeable: no definition names one.
Symmetry == Permutations(Children) \cup Permutations(Strings)
=============================================================================
