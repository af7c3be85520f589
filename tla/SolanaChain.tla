---------------------------- MODULE SolanaChain -----------------------------
(***************************************************************************)
(* What every component takes from the chain: account keys, token amounts  *)
(* and the cluster clock that handlers read with Clock::get().             *)
(***************************************************************************)
EXTENDS Integers, FiniteSets

\* Wallet keys (makers, takers, stake owners, guardians), and None in an
\* Option<Pubkey>.
CONSTANTS Users, NoOne

\* Token amounts callers pass, and a bound on the tokens that one custody
\* account can hold (the supply of a mint fits a u64, so sums never wrap).
CONSTANTS Amounts, Supply

\* Unix time in the handlers: it never goes back.  MaxTime bounds the instants
\* a model explores.
CONSTANT MaxTime
VARIABLE now

Tick ==
  /\ now < MaxTime
  /\ now' = now + 1

ASSUME ChainAssumption ==
  /\ IsFiniteSet(Users)
  /\ NoOne \notin Users
  /\ Amounts \subseteq Nat
  /\ Supply \in Nat
  /\ MaxTime \in Nat
=============================================================================
