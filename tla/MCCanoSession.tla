----------------------------- MODULE MCCanoSession -----------------------------
(* Instances of CanoSession.                                                *)
EXTENDS CanoSession, TLC

\* The table does not matter here: ages are arbitrary.
MCBackoff == <<1>>

MCSymmetry == Permutations(Procs) \cup Permutations(Jobs)
=============================================================================
