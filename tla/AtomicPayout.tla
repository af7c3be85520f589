---------------------------- MODULE AtomicPayout ----------------------------
(***************************************************************************)
(* What a settlement promises about tokens: either nothing moves, or the   *)
(* released amount leaves the deposit vault and every owner receives the   *)
(* sum of its shares.  Module Pricing settles intents with this step;      *)
(* module Payout is the leg-by-leg code that implements it.                *)
(***************************************************************************)
EXTENDS FeeMath

CONSTANT Owners  \* owners of token accounts

\* What the intent and the configuration say about one settlement.
Agreement == [release : Nat, protocolFee : Nat, protocolTo : Owners,
              managerFee : Nat, managerTo : Owners, referral : [Owners -> Nat],
              recipient : Owners]

VARIABLES agreed, outcome, drawn, received

atomicVars == <<agreed, outcome, drawn, received>>

AtomicInit ==
  /\ agreed \in Agreement
  /\ outcome = "running"
  /\ drawn = 0
  /\ received = [o \in Owners |-> 0]

Commit ==
  /\ outcome = "running"
  /\ outcome' = "committed"
  /\ drawn' = agreed.release
  /\ received' = [o \in Owners |-> Due(o, agreed)]
  /\ UNCHANGED agreed

Abort ==
  /\ outcome = "running"
  /\ outcome' = "aborted"
  /\ UNCHANGED <<agreed, drawn, received>>

AtomicSpec == AtomicInit /\ [][Commit \/ Abort]_atomicVars
=============================================================================
