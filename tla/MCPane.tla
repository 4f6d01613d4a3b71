-------------------------------- MODULE MCPane --------------------------------
(***************************************************************************)
(* Instances of Pane.                                                        *)
(***************************************************************************)
EXTENDS Pane, TLC

AnyViews == Permutations(Views) \cup Permutations(Windows)
=============================================================================
