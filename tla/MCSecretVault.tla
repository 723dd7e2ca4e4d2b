---------------------------- MODULE MCSecretVault -----------------------------
(* Two commands at a time.  One content, so that a blob can be adopted; the    *)
(* clients are interchangeable, and so are the branches.                       *)
EXTENDS SecretVault, TLC

Symmetry == Permutations(Client) \cup Permutations(Branch)
==============================================================================
