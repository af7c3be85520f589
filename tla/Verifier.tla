------------------------------ MODULE Verifier ------------------------------
(***************************************************************************)
(* The payment verifier: a registry of witnesses, a signature threshold    *)
(* and a list of payment methods, all configured by governance while       *)
(* witnesses sign statements off chain and takers and makers submit them   *)
(* later (instructions/verifier.rs, and the evidence half of               *)
(* handle_fulfill_intent and handle_submit_dispute).                       *)
(*                                                                         *)
(* A statement is what the signed digest commits to; a signature is the    *)
(* pair of the key that made it and the statement it is over.  The lock    *)
(* and custody halves of the two handlers are in Escrow and Protocol.      *)
(***************************************************************************)
EXTENDS Governance, Sequences

CONSTANTS
  Keys,          \* Ethereum keys that are or may become witnesses
  NoKey,         \* what a signature recovers to over another digest
  MaxWitnesses,  \* MAX_WITNESSES
  Methods,       \* payment methods
  Terms,         \* amount, currency, payee, rate and time of an intent
  PaymentIds, DisputeIds, NoPayment, NoIntent,
  MaxIntents,    \* bound on the intents explored
  Statements,    \* what witnesses sign
  MaxSignatures  \* bound on the signatures explored

IntentIds == 0..(MaxIntents - 1)

\* The fields of an Intent that an IntentSnapshot repeats.
Snapshots == [method : Methods, terms : Terms]

\* PaymentAttestation and DisputeAttestation; their digests differ in domain
\* and type hash, so neither can stand for the other.
PaymentAttestation ==
  [kind : {"payment"}, intent : IntentIds, method : Methods, payment : PaymentIds,
   snapshot : Snapshots]
DisputeAttestation ==
  [kind : {"dispute"}, intent : IntentIds, method : Methods, payment : PaymentIds,
   dispute : DisputeIds]

Signatures == [key : Keys, over : Statements]

ASSUME VerifierAssumption ==
  /\ IsFiniteSet(Keys)
  /\ NoKey \notin Keys
  /\ MaxWitnesses \in Nat
  /\ MaxIntents \in Nat
  /\ Statements \subseteq PaymentAttestation \cup DisputeAttestation
  /\ NoIntent \notin Snapshots \cup IntentIds

VARIABLES
  witnesses, required, enabled,  \* VerifierConfig
  signed,       \* signatures that exist off chain
  intents,      \* live intents: their snapshots
  nextIntent,
  settledBy,    \* IntentPaymentBinding: intent -> payment nullifier
  paymentFor,   \* PaymentBinding: payment nullifier -> intent
  disputeFor    \* DisputeNullifier: dispute nullifier -> intent

registryVars == <<witnesses, required, enabled>>
recordVars   == <<intents, nextIntent, settledBy, paymentFor, disputeFor>>
verifierVars == <<authorityVars, registryVars, signed, recordVars>>

\* A payment or a dispute is identified by its method and its provider id.
PaymentNullifiers == Methods \X PaymentIds
DisputeNullifiers == Methods \X DisputeIds

\* Every variable has its type.
VerifierTypeOK ==
  /\ AuthorityTypeOK
  /\ witnesses \subseteq Keys
  /\ required \in Nat
  /\ enabled \subseteq Methods
  /\ signed \subseteq Signatures
  /\ intents \in [IntentIds -> Snapshots \cup {NoIntent}]
  /\ nextIntent \in 0..MaxIntents
  /\ settledBy \in [IntentIds -> PaymentNullifiers \cup {NoPayment}]
  /\ paymentFor \in [PaymentNullifiers -> IntentIds \cup {NoIntent}]
  /\ disputeFor \in [DisputeNullifiers -> IntentIds \cup {NoIntent}]

\* What handle_initialize_protocol accepts and writes.
VerifierInit ==
  /\ AuthorityInit
  /\ witnesses \in SUBSET Keys
  /\ required \in 1..Cardinality(witnesses)
  /\ Cardinality(witnesses) <= MaxWitnesses
  /\ enabled = {}
  /\ signed = {}
  /\ intents = [i \in IntentIds |-> NoIntent]
  /\ nextIntent = 0
  /\ settledBy = [i \in IntentIds |-> NoPayment]
  /\ paymentFor = [n \in PaymentNullifiers |-> NoIntent]
  /\ disputeFor = [n \in DisputeNullifiers |-> NoIntent]
-----------------------------------------------------------------------------
(* Governance of the registry.                                             *)

\* A call that would change nothing is refused (AlreadyInState).
SetVerifierPaymentMethod(g, m, enable) ==
  /\ SignedByAuthority(g)
  /\ enable # (m \in enabled)
  /\ enabled' = IF enable THEN enabled \cup {m} ELSE enabled \ {m}
  /\ UNCHANGED <<witnesses, required>>

AddWitness(g, k) ==
  /\ SignedByAuthority(g)
  /\ k \notin witnesses
  /\ Cardinality(witnesses) < MaxWitnesses
  /\ witnesses' = witnesses \cup {k}
  /\ UNCHANGED <<required, enabled>>

\* Mutant: only the last witness is protected from removal.
RemoveWitnessAboveOne(g, k) ==
  /\ SignedByAuthority(g)
  /\ k \in witnesses
  /\ Cardinality(witnesses) > 1
  /\ witnesses' = witnesses \ {k}
  /\ UNCHANGED <<required, enabled>>

RemoveWitness(g, k) ==
  /\ SignedByAuthority(g)
  /\ k \in witnesses
  /\ Cardinality(witnesses) - 1 >= required
  /\ witnesses' = witnesses \ {k}
  /\ UNCHANGED <<required, enabled>>

SetRequiredSignatures(g, n) ==
  /\ SignedByAuthority(g)
  /\ n > 0
  /\ n <= Cardinality(witnesses)
  /\ required' = n
  /\ UNCHANGED <<witnesses, enabled>>

RegistryNext ==
  /\ \E g \in Governors :
       \/ \E m \in Methods, enable \in BOOLEAN : SetVerifierPaymentMethod(g, m, enable)
       \/ \E k \in Keys : AddWitness(g, k) \/ RemoveWitness(g, k)
       \/ \E n \in 0..MaxWitnesses : SetRequiredSignatures(g, n)
  /\ UNCHANGED <<authorityVars, signed, recordVars>>
-----------------------------------------------------------------------------
(* Statements and their verification.                                      *)

\* A key signs, whether or not it is a witness at the time.
Sign(k, a) ==
  /\ Cardinality(signed) < MaxSignatures
  /\ signed' = signed \cup {[key |-> k, over |-> a]}
  /\ UNCHANGED <<authorityVars, registryVars, recordVars>>

\* secp256k1_recover over the digest of statement a.
Recover(s, a) == IF s.over = a THEN s.key ELSE NoKey

\* Mutants: one witness may sign twice, or every witness has to sign.
VerifyWitnessThresholdRepeats(a, sigs) ==
  /\ Len(sigs) >= required
  /\ Len(sigs) <= Cardinality(witnesses)
  /\ \A n \in 1..Len(sigs) : Recover(sigs[n], a) \in witnesses
VerifyWitnessThresholdAll(a, sigs) ==
  /\ Len(sigs) = Cardinality(witnesses)
  /\ \A n \in 1..Len(sigs) :
       Recover(sigs[n], a) \in witnesses \ {Recover(sigs[m], a) : m \in 1..(n - 1)}

\* Between the threshold and the number of witnesses; each signature recovers
\* to a current witness that no earlier one recovered to.
VerifyWitnessThreshold(a, sigs) ==
  /\ Len(sigs) >= required
  /\ Len(sigs) <= Cardinality(witnesses)
  /\ \A n \in 1..Len(sigs) :
       Recover(sigs[n], a) \in witnesses \ {Recover(sigs[m], a) : m \in 1..(n - 1)}

Nullifier(method, id) == <<method, id>>

VerifyPaymentAttestation(i, a, sigs) ==
  /\ a.kind = "payment"
  /\ a.intent = i
  /\ a.method \in enabled
  /\ a.method = a.snapshot.method
  /\ a.snapshot = intents[i]
  /\ VerifyWitnessThreshold(a, sigs)

\* The evidence half of signal_intent: the snapshot is fixed for the intent's life.
SignalIntent(snapshot) ==
  /\ nextIntent < MaxIntents
  /\ intents' = [intents EXCEPT ![nextIntent] = snapshot]
  /\ nextIntent' = nextIntent + 1
  /\ UNCHANGED <<authorityVars, registryVars, signed, settledBy, paymentFor, disputeFor>>

\* Cancelled, pruned or manually released: closed without a payment.
CloseIntent(i) ==
  /\ intents[i] # NoIntent
  /\ intents' = [intents EXCEPT ![i] = NoIntent]
  /\ UNCHANGED <<authorityVars, registryVars, signed, nextIntent, settledBy, paymentFor, disputeFor>>

\* Verification, then the two binding accounts, which must not exist yet.
Fulfillable(i, a, sigs) ==
  /\ intents[i] # NoIntent
  /\ VerifyPaymentAttestation(i, a, sigs)
  /\ paymentFor[Nullifier(a.method, a.payment)] = NoIntent
  /\ settledBy[i] = NoPayment

FulfillIntent(i, a, sigs) ==
  /\ Fulfillable(i, a, sigs)
  /\ intents' = [intents EXCEPT ![i] = NoIntent]
  /\ settledBy' = [settledBy EXCEPT ![i] = Nullifier(a.method, a.payment)]
  /\ paymentFor' = [paymentFor EXCEPT ![Nullifier(a.method, a.payment)] = i]
  /\ UNCHANGED <<authorityVars, registryVars, signed, nextIntent, disputeFor>>

\* The evidence half of submit_dispute.  The method list is not consulted: a
\* delisted method keeps its disputes.
SubmitDispute(i, a, sigs) ==
  /\ a.kind = "dispute"
  /\ a.intent = i
  /\ paymentFor[Nullifier(a.method, a.payment)] = i
  /\ settledBy[i] = Nullifier(a.method, a.payment)
  /\ disputeFor[Nullifier(a.method, a.dispute)] = NoIntent
  /\ \A n \in DisputeNullifiers : disputeFor[n] # i   \* DisputeIntent::dispute: still Settled
  /\ VerifyWitnessThreshold(a, sigs)
  /\ disputeFor' = [disputeFor EXCEPT ![Nullifier(a.method, a.dispute)] = i]
  /\ UNCHANGED <<authorityVars, registryVars, signed, intents, nextIntent, settledBy, paymentFor>>

\* The signature lists a caller can put together: an instruction carries at
\* most one more than there can be witnesses.
Submissions == UNION {[1..n -> signed] : n \in 0..(MaxWitnesses + 1)}

EvidenceNext ==
  \/ \E k \in Keys, a \in Statements : Sign(k, a)
  \/ \E snapshot \in Snapshots : SignalIntent(snapshot)
  \/ \E i \in IntentIds :
       \/ CloseIntent(i)
       \/ \E a \in Statements, sigs \in Submissions :
            FulfillIntent(i, a, sigs) \/ SubmitDispute(i, a, sigs)

VerifierNext ==
  \/ AuthorityNext /\ UNCHANGED <<registryVars, signed, recordVars>>
  \/ RegistryNext
  \/ EvidenceNext

VerifierSpec == VerifierInit /\ [][VerifierNext]_verifierVars
-----------------------------------------------------------------------------
(* Correctness.                                                            *)

\* Whatever order governance adds, removes and re-thresholds witnesses in,
\* the threshold stays satisfiable and at least one witness has to sign.
ThresholdReachable ==
  /\ Cardinality(witnesses) <= MaxWitnesses
  /\ required \in 1..Cardinality(witnesses)

\* A settled intent is closed, under an identifier that is not used again, and
\* its two binding accounts name each other.
SettledIsClosed ==
  /\ \A i \in IntentIds : i >= nextIntent => intents[i] = NoIntent /\ settledBy[i] = NoPayment
  /\ \A i \in IntentIds : settledBy[i] # NoPayment =>
       intents[i] = NoIntent /\ paymentFor[settledBy[i]] = i

\* The inductive invariant of the verifier: registry and records are well
\* formed, the threshold can be met, and what is settled stays settled.
VerifierInv == VerifierTypeOK /\ ThresholdReachable /\ SettledIsClosed

\* The current witnesses that signed statement a.
Signers(a) == {k \in witnesses : [key |-> k, over |-> a] \in signed}

\* A payment is bound to an intent only on a statement about exactly that
\* intent and payment, for a method that is enabled then, signed by at least
\* the required number of different keys that are witnesses at that moment; a
\* dispute is recorded only on a statement about the payment that settled it.
EvidenceHasCurrentQuorum ==
  [][/\ \A n \in PaymentNullifiers : paymentFor'[n] # paymentFor[n] =>
          \E a \in Statements :
            /\ a.kind = "payment"
            /\ n = Nullifier(a.method, a.payment)
            /\ paymentFor'[n] = a.intent
            /\ a.snapshot = intents[a.intent]
            /\ a.method \in enabled
            /\ Cardinality(Signers(a)) >= required
     /\ \A n \in DisputeNullifiers : disputeFor'[n] # disputeFor[n] =>
          \E a \in Statements :
            /\ a.kind = "dispute"
            /\ n = Nullifier(a.method, a.dispute)
            /\ settledBy[a.intent] = Nullifier(a.method, a.payment)
            /\ Cardinality(Signers(a)) >= required]_verifierVars

\* Signatures collected before a reconfiguration are not lost by it: while the
\* method is enabled, a live intent can be settled on any statement about it
\* that enough of today's witnesses have signed.
QuorumSettles ==
  \A i \in IntentIds, a \in Statements :
    /\ a.kind = "payment"
    /\ intents[i] # NoIntent
    /\ a.intent = i
    /\ a.method \in enabled
    /\ a.snapshot = intents[i]
    /\ a.method = a.snapshot.method
    /\ paymentFor[Nullifier(a.method, a.payment)] = NoIntent
    /\ Cardinality(Signers(a)) >= required
    => \E sigs \in Submissions : Fulfillable(i, a, sigs)
=============================================================================
