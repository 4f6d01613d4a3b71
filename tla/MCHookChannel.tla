---------------------------- MODULE MCHookChannel ----------------------------
(* Instances of HookChannel.                                                *)
EXTENDS HookChannel, TLC

MCSymmetry == Permutations(Servers) \cup Permutations(Hooks)
=============================================================================
