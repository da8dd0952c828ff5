----------------------------- MODULE MCLauncher -----------------------------
(***************************************************************************)
(* Launcher on small instances.                                            *)
(***************************************************************************)
EXTENDS Launcher, TLC

\* Jobs are interchangeable: no property names one.
JobSymmetry == Permutations(Jobs)

=============================================================================
