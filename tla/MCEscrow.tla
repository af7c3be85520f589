------------------------------ MODULE MCEscrow ------------------------------
(* Small instances of the escrow for TLC.                                  *)
EXTENDS Escrow, TLC

\* Open and bounded terms, with and without a second party, and terms the
\* handlers refuse (an inverted range, a delegate who is the depositor).
MCTerms ==
  UNION {{[depositor |-> u, delegate |-> NoOne, guardian |-> NoOne, min |-> 1, max |-> 2],
          [depositor |-> u, delegate |-> v, guardian |-> v, min |-> 1, max |-> 1],
          [depositor |-> u, delegate |-> NoOne, guardian |-> u, min |-> 2, max |-> 1]}
         : u, v \in Users}

\* Two caps, dust sweeping on and off, a pause, and settings that are refused.
MCEscrowSettings ==
  {[paused |-> FALSE, maxIntents |-> n, period |-> 1, dustThreshold |-> n - 1] : n \in 1..2}
  \cup {[paused |-> TRUE, maxIntents |-> 1, period |-> MaxLifetime, dustThreshold |-> 0]}
  \cup {[paused |-> FALSE, maxIntents |-> n, period |-> l, dustThreshold |-> 0]
          : n \in {0, 1}, l \in {0, MaxLifetime + 1}}

MCOrchestratorSettings ==
  {[paused |-> p, allowMultiple |-> ~p, policy |-> "WhitelistAndDispute"] : p \in BOOLEAN}

\* Wallets are interchangeable, and so are payment nullifiers.
Symmetric == Permutations(Users) \cup Permutations(Payments)
=============================================================================
