------------------------------ MODULE MCReport -------------------------------
(* A small instance of ReportAccess for TLC. *)
EXTENDS ReportAccess, TLC

\* The packs a customer is sold, and a form that takes every role its packs.
SomePresets == {{"contacts"}}
NoCells == {{}}

Symmetry == Permutations(Requests) \cup Permutations(Installers) \cup Permutations(LoginStates)
==============================================================================
