---------------------------- MODULE MCStakeVault ----------------------------
(* Small instances of the stake vault for TLC.                             *)
EXTENDS StakeVault, TLC

\* Owners are interchangeable, and so are lock identifiers and the keys that can
\* become controller.
Symmetric == Permutations(Users) \cup Permutations(LockIds) \cup Permutations(Signers)
=============================================================================
