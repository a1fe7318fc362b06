----------------------------- MODULE MCDispatch -----------------------------
(* Instances of Dispatch for TLC.                                          *)
EXTENDS DispatchLifecycle, TLC

\* Tests and workers are interchangeable.
Symmetry == Permutations(Tests) \cup Permutations(Workers)
=============================================================================
