------------------------------ MODULE MCWorktree ------------------------------
(* One file that differs on two branches; the two command lines are            *)
(* interchangeable.                                                            *)
EXTENDS Worktree, TLC

CONSTANTS main, dev, m, d

Heads == main :> [p \in Path |-> m] @@ dev :> [p \in Path |-> d]

Symmetry == Permutations(Client)
==============================================================================
