---------------------------- MODULE MCDeployment ----------------------------
(* Small instances of the deployment for TLC.                              *)
EXTENDS Deployment, TLC

CONSTANTS o1, o2, wallet, escrow, orchestrator, old, new

\* Two operators with the deployment key, or one.
Shared == (o1 :> wallet) @@ (o2 :> wallet)
Alone  == o1 :> wallet

IsConstant(f) == \A a, b \in DOMAIN f : f[a] = f[b]

MCReadOrder == <<escrow, orchestrator>>

\* Two plans differ in every account, and an operator's next attempt brings
\* the next release.
Focused ==
  \A o \in Operators :
    \/ At(o, "idle")
    \/ IsConstant(run[o].plan) /\ run[o].binary = <<old, new>>[attempts[o]]

Symmetric == Permutations({o1, o2})
=============================================================================
