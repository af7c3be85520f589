----------------------------- MODULE MCVerifier -----------------------------
(* A small instance of the payment verifier for TLC.                       *)
EXTENDS Verifier, TLC

CONSTANTS cash, wire, agreed, altered, p1, e1

About(i, m, t) ==
  [kind |-> "payment", intent |-> i, method |-> m, payment |-> p1,
   snapshot |-> [method |-> m, terms |-> t]]

\* One payment claimed for two intents, with the terms one of them may have or
\* with others; a snapshot of another method; and the evidence that the
\* payment was reversed.
MCStatements ==
  {About(0, cash, agreed), About(0, cash, altered), About(1, cash, agreed),
   [About(0, cash, agreed) EXCEPT !.snapshot.method = wire],
   [kind |-> "dispute", intent |-> 0, method |-> cash, payment |-> p1, dispute |-> e1]}

Symmetric == Permutations(Keys) \cup Permutations(Governors)
=============================================================================
