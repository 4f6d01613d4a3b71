--------------------------- MODULE MCApprovalGate ---------------------------
(* Instances of ApprovalGate small enough for TLC.                          *)
EXTENDS ApprovalGate, TLC

CONSTANTS build, push, trunk, list

\* One command of each class: `cargo build` is yellow, `git push origin x` red,
\* `git push origin main` red and refused by the core, `ls` green.
MCRisk == [c \in Commands |-> IF c = list THEN "green"
                              ELSE IF c = build THEN "yellow" ELSE "red"]
MCRefused == Commands \cap {trunk}

MCSymmetry == Permutations(Hooks) \cup Permutations(Sessions)
=============================================================================
