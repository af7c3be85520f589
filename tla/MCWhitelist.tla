---------------------------- MODULE MCWhitelist -----------------------------
(* A small instance of the whitelist for TLC.                              *)
EXTENDS Whitelist, TLC

CONSTANTS maker, taker

\* The maker keeps the deposit's policy; the taker may be a curator.
MCKeepers == Deposits \X {maker}

\* What is explored: memberships of the taker, a second group that only its
\* curator and its members tell from the first, and curators that change while
\* no policy depends on them.
Focused ==
  /\ members \subseteq GroupIds \X {taker}
  /\ direct \subseteq Deposits \X {taker}
  /\ approves \subseteq Resolvers \X {0} \X {taker}
  /\ Exists(1) => groups[1].pending = NoOne /\ groups[1].resolver = NoResolver
                    /\ ~groups[1].public
  /\ \A d \in Deposits, g \in GroupIds : Exists(g) /\ whitelists[d] # NoWhitelist =>
       groups[g].pending = NoOne /\ groups[g].curator = maker
=============================================================================
