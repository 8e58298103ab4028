----------------------------- MODULE MCNotebooks -----------------------------
(* An instance of Notebooks for TLC: two notebooks and two incidences, both  *)
(* in the first.                                                             *)
EXTENDS Notebooks, TLC

mcNotebookOf == [i \in Incidence |-> "n1"]

\* The incidences have the same notebook and no order.
Symmetry == Permutations(Incidence)
=============================================================================
