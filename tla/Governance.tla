----------------------------- MODULE Governance -----------------------------
(***************************************************************************)
(* The protocol authority: the one key whose signature every governance    *)
(* handler asks for, and its two-step handover (instructions/governance.rs *)
(* lines 14-66).  The modules whose state governance configures extend     *)
(* this one.                                                               *)
(***************************************************************************)
EXTENDS Integers, FiniteSets

\* Keys that may govern, and None in an Option<Pubkey>.
CONSTANTS Governors, NoGovernor

ASSUME GovernanceAssumption == NoGovernor \notin Governors

VARIABLES authority, pendingAuthority

authorityVars == <<authority, pendingAuthority>>

\* There is always one authority, and a standing candidate is someone else.
AuthorityTypeOK ==
  /\ authority \in Governors
  /\ pendingAuthority \in (Governors \cup {NoGovernor}) \ {authority}

AuthorityInit ==
  /\ authority \in Governors
  /\ pendingAuthority = NoGovernor

\* `address = protocol.authority` on the signer of a governance handler.
SignedByAuthority(g) == g = authority

\* A candidate, or NoGovernor to cancel the standing proposal.
ProposeProtocolAuthority(g, candidate) ==
  /\ SignedByAuthority(g)
  /\ candidate # authority
  /\ candidate # pendingAuthority
  /\ pendingAuthority' = candidate
  /\ UNCHANGED authority

\* Mutant: the accepted proposal stays standing.
AcceptProtocolAuthorityKeeping(g) ==
  /\ g = pendingAuthority
  /\ authority' = g
  /\ UNCHANGED pendingAuthority

AcceptProtocolAuthority(g) ==
  /\ g = pendingAuthority
  /\ authority' = g
  /\ pendingAuthority' = NoGovernor

AuthorityNext ==
  \E g \in Governors :
    \/ \E candidate \in Governors \cup {NoGovernor} : ProposeProtocolAuthority(g, candidate)
    \/ AcceptProtocolAuthority(g)
=============================================================================
