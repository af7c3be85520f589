------------------------------ MODULE Custody -------------------------------
(***************************************************************************)
(* What a custody account promises, whatever bookkeeping stands behind it: *)
(* tokens enter against an equal new claim (or as a gift), leave against   *)
(* an equal old one, and otherwise claims only change hands in full.       *)
(* Module StakeVault implements it with positions, locks and claims.       *)
(***************************************************************************)
EXTENDS Integers, Sums

CONSTANT Parties

VARIABLES
  tokens,  \* tokens in the account
  owed     \* what each party may eventually take out

CustodyState == <<tokens, owed>>

Init ==
  /\ tokens = 0
  /\ owed = [p \in Parties |-> 0]

OthersUnchanged(p) == \A q \in Parties \ {p} : owed'[q] = owed[q]

Receive(p) ==
  /\ owed'[p] > owed[p]
  /\ tokens' - tokens = owed'[p] - owed[p]
  /\ OthersUnchanged(p)

Pay(p) ==
  /\ owed'[p] < owed[p]
  /\ tokens - tokens' = owed[p] - owed'[p]
  /\ OthersUnchanged(p)

\* `p` cedes claims to the other parties, who gain exactly what it gives up.
Cede(p) ==
  /\ tokens' = tokens
  /\ \A q \in Parties \ {p} : owed'[q] >= owed[q]
  /\ Sum(owed', Parties) = Sum(owed, Parties)

Gift ==
  /\ tokens' > tokens
  /\ owed' = owed

Next == Gift \/ \E p \in Parties : Receive(p) \/ Pay(p) \/ Cede(p)

Spec == Init /\ [][Next]_CustodyState
=============================================================================
