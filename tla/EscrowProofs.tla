---------------------------- MODULE EscrowProofs ----------------------------
(***************************************************************************)
(* The escrow keeps its books for any number of users, deposits, intents   *)
(* and payments, under any settings governance may choose.  Every way an   *)
(* intent ends preserves the inductive invariant; so do signalling an      *)
(* intent and extending its expiry, the handlers of makers and governance  *)
(* and the clock; and what follows.                                        *)
(***************************************************************************)
EXTENDS Escrow, SumsProofs, TLAPS

USE EscrowAssumption, ChainAssumption

\* The sets of locks and of a taker's intents are finite.
LEMMA FiniteIntents ==
  /\ IsFiniteSet(IntentIds)
  /\ \A S \in SUBSET IntentIds : IsFiniteSet(S) /\ Cardinality(S) \in Nat
<1>1. IsFiniteSet(IntentIds)
  BY FS_Interval, SMTT(60) DEF IntentIds
<1> QED
  BY <1>1, FS_Subset, FS_CardinalityType, Zenon

\* Adding or removing one intent changes a count by one.
LEMMA CountStep ==
  ASSUME NEW S \in SUBSET IntentIds, NEW i \in IntentIds
  PROVE  /\ i \notin S => Cardinality(S \cup {i}) = Cardinality(S) + 1
         /\ i \in S => Cardinality(S \ {i}) = Cardinality(S) - 1 /\ Cardinality(S) >= 1
<1>1. IsFiniteSet(S) /\ Cardinality(S) \in Nat /\ Cardinality(S \ {i}) \in Nat
  BY FiniteIntents, Zenon
<1>2. i \notin S => Cardinality(S \cup {i}) = Cardinality(S) + 1
  BY <1>1, FS_AddElement, Zenon
<1>3. i \in S => Cardinality(S \ {i}) = Cardinality(S) - 1
  BY <1>1, FS_RemoveElement, Zenon
<1> QED
  BY <1>1, <1>2, <1>3, SMTT(60)

\* If one lock changes, the locked total of each deposit moves by the
\* difference of that lock's contributions.
LEMMA LockedTotalStep ==
  ASSUME IntentsTypeOK, IntentsTypeOK', NEW i \in IntentIds, NEW d \in DepositIds,
         \A j \in IntentIds \ {i} : intentLocks'[j] = intentLocks[j]
  PROVE  /\ Sum(LockedOn(d), IntentIds) \in Nat
         /\ LockedOn(d)[i] \in Nat /\ LockedOn(d)'[i] \in Nat
         /\ LockedOn(d)[i] <= Sum(LockedOn(d), IntentIds)
         /\ Sum(LockedOn(d)', IntentIds) =
              Sum(LockedOn(d), IntentIds) - LockedOn(d)[i] + LockedOn(d)'[i]
<1> DEFINE f == LockedOn(d)
           g == LockedOn(d)'
<1>1. f \in [IntentIds -> Nat] /\ g \in [IntentIds -> Nat]
  BY Zenon DEF IntentsTypeOK, LockedOn, LocksOn, EscrowIntentLock
<1>2. \A j \in IntentIds \ {i} : g[j] = f[j]
  BY Zenon DEF LockedOn, LocksOn
<1> HIDE DEF f, g
<1>3. Sum(g, IntentIds) = Sum(f, IntentIds) - f[i] + g[i]
  BY <1>1, <1>2, SumStep, FiniteIntents, SMTT(60)
<1>4. f[i] <= Sum(f, IntentIds) /\ Sum(f, IntentIds) \in Nat
  BY <1>1, SumBound, SumType, FiniteIntents, Zenon
<1> QED
  BY <1>1, <1>3, <1>4, Zenon DEF f, g

\* Every live intent is one of its deposit's locks, within the books.
LEMMA LiveLockFacts ==
  ASSUME LedgerInv, LifecycleInv, NEW i \in IntentIds, Active(i)
  PROVE  /\ intents[i] \in Intent
         /\ intentLocks[i] \in EscrowIntentLock
         /\ intents[i].deposit \in DepositIds
         /\ intents[i].owner \in Users
         /\ intentLocks[i].amount \in Nat \ {0}
         /\ intentLocks[i].amount = intents[i].amount
         /\ intentLocks[i].deposit = intents[i].deposit
         /\ i \in LocksOn(intents[i].deposit)
         /\ intentLocks[i].amount <= outstanding[intents[i].deposit]
         /\ activeIntents[intents[i].deposit] >= 1
         /\ takerActive[intents[i].owner] >= 1
<1>1. /\ intents[i] \in Intent
      /\ intentLocks[i] \in EscrowIntentLock
      /\ intents[i].deposit \in DepositIds
      /\ intents[i].owner \in Users
      /\ intentLocks[i].amount \in Nat \ {0}
      /\ intentLocks[i].amount = intents[i].amount
      /\ intentLocks[i].deposit = intents[i].deposit
      /\ intentLocks[i] # NoIntent
  BY SMTT(60) DEF LifecycleInv, IntentsTypeOK, IntentsArePaired, Active, Intent, EscrowIntentLock
<1> DEFINE d == intents[i].deposit
<1>2. i \in LocksOn(d)
  BY <1>1, Zenon DEF LocksOn
<1>3. intentLocks[i].amount <= outstanding[d]
  <2> DEFINE f == LockedOn(d)
  <2>1. f \in [IntentIds -> Nat] /\ f[i] = intentLocks[i].amount
    BY <1>1, <1>2, Zenon DEF LockedOn, LocksOn, LifecycleInv, IntentsTypeOK, EscrowIntentLock
  <2>2. outstanding[d] = Sum(f, IntentIds)
    BY <1>1, Zenon DEF LedgerInv, BooksMatchLocks
  <2> HIDE DEF f
  <2> QED BY <2>1, <2>2, SumBound, FiniteIntents, SMTT(60)
<1>4. activeIntents[d] >= 1
  <2>1. LocksOn(d) \in SUBSET IntentIds
    BY Zenon DEF LocksOn
  <2>2. Cardinality(LocksOn(d)) >= 1
    BY <1>2, <2>1, CountStep, Zenon
  <2> QED BY <1>1, <2>2, Zenon DEF LedgerInv, BooksMatchLocks
<1>5. takerActive[intents[i].owner] >= 1
  <2> DEFINE T == {j \in IntentIds : Active(j) /\ intents[j].owner = intents[i].owner}
  <2>1. T \in SUBSET IntentIds /\ i \in T
    OBVIOUS
  <2>2. takerActive[intents[i].owner] = Cardinality(T)
    BY <1>1, Zenon DEF LifecycleInv, TakerCountsIntents
  <2> HIDE DEF T
  <2> QED BY <2>1, <2>2, CountStep, Zenon
<1> QED
  BY <1>1, <1>2, <1>3, <1>4, <1>5, Zenon

\* Closing an intent together with its lock keeps every other intent paired and
\* the takers' counts exact.
LEMMA CloseIntentPairs ==
  ASSUME LedgerInv, LifecycleInv, NEW i \in IntentIds, Active(i), CloseIntent(i),
         UNCHANGED <<now, deposits, nextIntent>>
  PROVE  IntentsTypeOK' /\ IntentsArePaired' /\ TakerCountsIntents' /\ ExpiryWithinLifetime'
<1> USE DEF LifecycleInv
<1>1. IntentsTypeOK'
  <2>1. intents[i].owner \in Users
    BY LiveLockFacts, Zenon
  <2> QED BY <2>1, SMTT(60) DEF IntentsTypeOK, CloseIntent
<1>2. IntentsArePaired'
  <2> SUFFICES ASSUME NEW j \in IntentIds
               PROVE  /\ Active(j)' <=> intentLocks'[j] # NoIntent
                      /\ j \in covered' => Active(j)'
                      /\ Active(j)' =>
                           /\ Open(intents[j].deposit)' /\ intents'[j].amount > 0
                           /\ intents'[j] = intents[j] /\ intentLocks'[j] = intentLocks[j]
    BY ZenonT(60) DEF IntentsArePaired, Open, Active
  <2>1. CASE j = i
    BY <2>1, Zenon DEF IntentsTypeOK, CloseIntent, Active
  <2>2. CASE j # i
    <3>1. intents'[j] = intents[j] /\ intentLocks'[j] = intentLocks[j]
      BY <2>2, Zenon DEF IntentsTypeOK, CloseIntent
    <3>2. j \in covered' <=> j \in covered
      BY <2>2, Zenon DEF CloseIntent
    <3> QED BY <3>1, <3>2, Zenon DEF IntentsArePaired, Active, Open
  <2> QED BY <2>1, <2>2, Zenon
<1>3. ExpiryWithinLifetime'
  BY Zenon DEF IntentsTypeOK, ExpiryWithinLifetime, CloseIntent
<1>4. TakerCountsIntents'
  <2> SUFFICES ASSUME NEW u \in Users
               PROVE  takerActive'[u] =
                        Cardinality({j \in IntentIds : Active(j)' /\ intents'[j].owner = u})
    BY Zenon DEF TakerCountsIntents
  <2> DEFINE T == {j \in IntentIds : Active(j) /\ intents[j].owner = u}
             U == {j \in IntentIds : Active(j)' /\ intents'[j].owner = u}
  <2>1. U = T \ {i}
    BY Zenon DEF Active, CloseIntent, IntentsTypeOK
  <2>2. takerActive[u] = Cardinality(T) /\ T \in SUBSET IntentIds
    BY Zenon DEF TakerCountsIntents
  <2>3. i \in T <=> intents[i].owner = u
    OBVIOUS
  <2>4. takerActive' = [takerActive EXCEPT ![intents[i].owner] = @ - 1]
    BY Zenon DEF CloseIntent
  <2>5. takerActive \in [Users -> Nat] /\ intents[i].owner \in Users
    BY LiveLockFacts, Zenon DEF IntentsTypeOK
  <2> HIDE DEF T, U
  <2>6. ASSUME intents[i].owner = u PROVE takerActive'[u] = Cardinality(U)
    <3>1. takerActive'[u] = takerActive[u] - 1
      BY <2>4, <2>5, <2>6, Zenon
    <3>2. Cardinality(U) = Cardinality(T) - 1
      BY <2>1, <2>2, <2>3, <2>6, CountStep, Zenon
    <3> QED BY <2>2, <3>1, <3>2, Zenon
  <2>7. ASSUME intents[i].owner # u PROVE takerActive'[u] = Cardinality(U)
    <3>1. U = T
      BY <2>1, <2>3, <2>7, Zenon
    <3>2. takerActive'[u] = takerActive[u]
      BY <2>4, <2>5, <2>7, Zenon
    <3> QED BY <3>1, <3>2, <2>2, Zenon
  <2> QED BY <2>6, <2>7, Zenon DEF U
<1> QED
  BY <1>1, <1>2, <1>3, <1>4, Zenon

\* Closing an intent keeps the books exact when its deposit's outstanding
\* amount and count shrink by the lock.
LEMMA CloseIntentBooks ==
  ASSUME LedgerInv, LifecycleInv, NEW i \in IntentIds, Active(i), CloseIntent(i),
         UNCHANGED <<now, deposits, nextIntent>>,
         outstanding' = [outstanding EXCEPT ![intents[i].deposit] = @ - intentLocks[i].amount],
         activeIntents' = [activeIntents EXCEPT ![intents[i].deposit] = @ - 1]
  PROVE  BooksMatchLocks'
<1> SUFFICES ASSUME NEW d \in DepositIds
             PROVE  /\ outstanding'[d] = Sum(LockedOn(d)', IntentIds)
                    /\ activeIntents'[d] = Cardinality(LocksOn(d)')
  BY Zenon DEF BooksMatchLocks
<1>1. IntentsTypeOK /\ IntentsTypeOK'
  BY CloseIntentPairs, Zenon DEF LifecycleInv
<1>2. \A j \in IntentIds \ {i} : intentLocks'[j] = intentLocks[j]
  BY <1>1, Zenon DEF CloseIntent, IntentsTypeOK
<1>3. intentLocks'[i] = NoIntent
  BY <1>1, ZenonT(60) DEF CloseIntent, IntentsTypeOK
<1>4. outstanding[d] = Sum(LockedOn(d), IntentIds) /\ activeIntents[d] = Cardinality(LocksOn(d))
  BY Zenon DEF LedgerInv, BooksMatchLocks
<1>5. outstanding \in [DepositIds -> Nat] /\ activeIntents \in [DepositIds -> Nat]
  BY Zenon DEF LedgerInv, BooksTypeOK
<1>6. LocksOn(d)' = LocksOn(d) \ {i} /\ LocksOn(d) \in SUBSET IntentIds
  BY <1>2, <1>3, Zenon DEF LocksOn
<1>7. LockedOn(d)'[i] = 0
  BY <1>3, Zenon DEF LockedOn, LocksOn
<1>8. Sum(LockedOn(d)', IntentIds) = Sum(LockedOn(d), IntentIds) - LockedOn(d)[i]
  BY <1>1, <1>2, <1>7, LockedTotalStep, SMTT(60)
<1>9. CASE d = intents[i].deposit
  <2>1. i \in LocksOn(d) /\ LockedOn(d)[i] = intentLocks[i].amount
    BY <1>9, LiveLockFacts, Zenon DEF LockedOn
  <2>2. Cardinality(LocksOn(d)') = Cardinality(LocksOn(d)) - 1
    BY <1>6, <2>1, CountStep, Zenon
  <2> QED BY <1>4, <1>5, <1>8, <1>9, <2>1, <2>2, Zenon
<1>10. CASE d # intents[i].deposit
  <2>1. i \notin LocksOn(d) /\ LockedOn(d)[i] = 0
    BY <1>10, LiveLockFacts, Zenon DEF LockedOn, LocksOn
  <2>2. LocksOn(d)' = LocksOn(d)
    BY <1>6, <2>1, Zenon
  <2>3. outstanding'[d] = outstanding[d] /\ activeIntents'[d] = activeIntents[d]
    BY <1>5, <1>10, Zenon
  <2>4. Sum(LockedOn(d)', IntentIds) = Sum(LockedOn(d), IntentIds)
    BY <1>1, <1>2, <1>8, <2>1, LockedTotalStep, SMTT(60)
  <2> QED BY <1>4, <2>2, <2>3, <2>4, Zenon
<1> QED
  BY <1>9, <1>10, Zenon
-----------------------------------------------------------------------------
(* The ways an intent ends.                                                *)

\* Steps that leave the settings and the deposit accounts alone.
LEMMA AccountsStutter ==
  ASSUME AccountsInv, UNCHANGED <<now, configVars, depositVars, nextIntent>>,
         \A i \in IntentIds : Active(i)' => Active(i)
  PROVE  AccountsInv'
<1>1. (escrow \in EscrowConfig)' /\ (escrow.period \in 1..MaxLifetime)'
       /\ (orchestrator \in OrchestratorConfig)' /\ (now \in 0..MaxTime)'
  BY Zenon DEF AccountsInv, configVars
<1>2. DepositsTypeOK'
  BY Zenon DEF AccountsInv, DepositsTypeOK, depositVars
<1>3. FreshIdentifiers' /\ RangesValid'
  BY Zenon DEF AccountsInv, FreshIdentifiers, RangesValid, depositVars, Open, ValidRange
<1> QED
  BY <1>1, <1>2, <1>3, Zenon DEF AccountsInv

\* Closed intents stay out of the payment bindings' way.
LEMMA BindingsStutter ==
  ASSUME BindingsTypeOK, PaymentsBindOnce, UNCHANGED <<bindingVars, nextIntent>>,
         \A i \in IntentIds : Active(i)' => Active(i)
  PROVE  BindingsTypeOK' /\ PaymentsBindOnce'
BY Zenon DEF BindingsTypeOK, PaymentsBindOnce, bindingVars

\* CloseIntent closes one intent and opens none.
LEMMA CloseIntentCloses ==
  ASSUME IntentsTypeOK, NEW i \in IntentIds, CloseIntent(i)
  PROVE  ~Active(i)' /\ \A j \in IntentIds : Active(j)' => Active(j)
BY Zenon DEF IntentsTypeOK, CloseIntent, Active

\* Cancelling or pruning returns the whole lock to the deposit.
LEMMA UnlockInv ==
  ASSUME EscrowInv, NEW i \in IntentIds, Active(i),
         DepositUnlock(intents[i].deposit, intentLocks[i].amount), CloseIntent(i),
         UNCHANGED <<now, configVars, depositVars, depositVault, nextIntent, bindingVars>>
  PROVE  EscrowInv'
<1> DEFINE d == intents[i].deposit
           a == intentLocks[i].amount
<1>0. LedgerInv /\ LifecycleInv /\ AccountsInv /\ UNCHANGED <<now, deposits, nextIntent>>
  BY Zenon DEF EscrowInv, depositVars
<1>1. \A j \in IntentIds : Active(j)' => Active(j)
  BY <1>0, CloseIntentCloses, Zenon DEF LifecycleInv
<1>2. AccountsInv'
  BY <1>0, <1>1, AccountsStutter, Zenon
<1>3. LifecycleInv'
  BY <1>0, <1>1, CloseIntentPairs, BindingsStutter, Zenon DEF LifecycleInv
<1>4. d \in DepositIds /\ a \in Nat /\ a <= outstanding[d] /\ activeIntents[d] >= 1
  BY <1>0, LiveLockFacts, Zenon
<1>5. BooksTypeOK'
  BY <1>0, <1>4, SMTT(60) DEF LedgerInv, BooksTypeOK, DepositUnlock
<1>6. BooksMatchLocks'
  BY <1>0, CloseIntentBooks, Zenon DEF DepositUnlock
<1>7. DepositsBacked'
  BY <1>0, <1>4, SMTT(60) DEF LedgerInv, BooksTypeOK, DepositsBacked, DepositUnlock, Open
<1> QED
  BY <1>2, <1>3, <1>5, <1>6, <1>7, Zenon DEF EscrowInv, LedgerInv

\* Settling pays the release out of the vault and returns the remainder.
LEMMA SettleInv ==
  ASSUME EscrowInv, NEW i \in IntentIds, Active(i), NEW r \in Nat,
         DepositSettle(intents[i].deposit, intentLocks[i].amount, r), CloseIntent(i),
         UNCHANGED <<now, configVars, depositVars, nextIntent>>
  PROVE  /\ AccountsInv' /\ LedgerInv'
         /\ IntentsTypeOK' /\ IntentsArePaired' /\ TakerCountsIntents' /\ ExpiryWithinLifetime'
<1> DEFINE d == intents[i].deposit
           a == intentLocks[i].amount
<1>0. LedgerInv /\ LifecycleInv /\ AccountsInv /\ UNCHANGED <<now, deposits, nextIntent>>
  BY Zenon DEF EscrowInv, depositVars
<1>1. \A j \in IntentIds : Active(j)' => Active(j)
  BY <1>0, CloseIntentCloses, Zenon DEF LifecycleInv
<1>2. AccountsInv'
  BY <1>0, <1>1, AccountsStutter, Zenon
<1>4. d \in DepositIds /\ a \in Nat /\ a <= outstanding[d] /\ activeIntents[d] >= 1
  BY <1>0, LiveLockFacts, Zenon
<1>5. BooksTypeOK'
  BY <1>0, <1>4, SMTT(60) DEF LedgerInv, BooksTypeOK, DepositSettle
<1>6. BooksMatchLocks'
  BY <1>0, CloseIntentBooks, Zenon DEF DepositSettle
<1>7. DepositsBacked'
  BY <1>0, <1>4, SMTT(60) DEF LedgerInv, BooksTypeOK, DepositsBacked, DepositSettle, Open,
                    LifecycleInv, IntentsArePaired
<1> QED
  BY <1>0, <1>2, <1>5, <1>6, <1>7, CloseIntentPairs, Zenon DEF LedgerInv

\* Proof fulfilment binds the payment and settles.
LEMMA FulfillIntentInv ==
  ASSUME EscrowInv, NEW i \in IntentIds, NEW p \in Payments, NEW attested \in Nat,
         FulfillIntent(i, p, attested)
  PROVE  EscrowInv'
<1>0. LedgerInv /\ LifecycleInv /\ Active(i)
  BY Zenon DEF EscrowInv, FulfillIntent
<1>1. Released(i, attested) \in Nat
  BY <1>0, LiveLockFacts, Zenon DEF Released
<1>2. /\ AccountsInv' /\ LedgerInv'
      /\ IntentsTypeOK' /\ IntentsArePaired' /\ TakerCountsIntents' /\ ExpiryWithinLifetime'
  BY <1>0, <1>1, SettleInv, Zenon DEF FulfillIntent
<1>3. BindingsTypeOK'
  BY <1>0, Zenon DEF LifecycleInv, BindingsTypeOK, FulfillIntent
<1>4. PaymentsBindOnce'
  <2>1. ~Active(i)' /\ \A j \in IntentIds : Active(j)' => Active(j)
    BY <1>0, CloseIntentCloses, Zenon DEF LifecycleInv, FulfillIntent
  <2>2. i < nextIntent /\ nextIntent' = nextIntent
    BY <1>0, Zenon DEF EscrowInv, AccountsInv, FreshIdentifiers, FulfillIntent
  <2>3. i # NoIntent /\ p # NoPayment
    OBVIOUS
  <2>4. ASSUME NEW q \in Payments, NEW j \in IntentIds
        PROVE  paymentIntent'[q] = j <=> intentPayment'[j] = q
    BY <1>0, <2>3, SMTT(60) DEF LifecycleInv, BindingsTypeOK, PaymentsBindOnce, FulfillIntent
  <2>5. ASSUME NEW j \in IntentIds, intentPayment'[j] # NoPayment
        PROVE  j < nextIntent' /\ ~Active(j)'
    BY <1>0, <2>1, <2>2, <2>5, SMTT(60) DEF LifecycleInv, BindingsTypeOK, PaymentsBindOnce, FulfillIntent
  <2> QED BY <2>4, <2>5, Zenon DEF PaymentsBindOnce
<1> QED
  BY <1>2, <1>3, <1>4, Zenon DEF EscrowInv, LifecycleInv

\* A maker-authorised release settles in full.
LEMMA ManualReleaseInv ==
  ASSUME EscrowInv, NEW i \in IntentIds, NEW u \in Users, ManualRelease(u, i)
  PROVE  EscrowInv'
<1>0. LedgerInv /\ LifecycleInv /\ Active(i)
  BY Zenon DEF EscrowInv, ManualRelease
<1>1. intents[i].amount \in Nat
  BY <1>0, LiveLockFacts, Zenon DEF Intent
<1>2. /\ AccountsInv' /\ LedgerInv'
      /\ IntentsTypeOK' /\ IntentsArePaired' /\ TakerCountsIntents' /\ ExpiryWithinLifetime'
  BY <1>0, <1>1, SettleInv, Zenon DEF ManualRelease
<1>3. BindingsTypeOK' /\ PaymentsBindOnce'
  BY <1>0, CloseIntentCloses, BindingsStutter, Zenon DEF LifecycleInv, ManualRelease
<1> QED
  BY <1>2, <1>3, Zenon DEF EscrowInv, LifecycleInv
-----------------------------------------------------------------------------
(* How liquidity leaves a deposit.                                         *)

\* What a step may do to an open deposit: keep or grow its liabilities and what
\* no liability accounts for; pay principal to the maker; close it with dust
\* left; or settle one of its intents.
Kept(d) ==
  /\ deposits'[d] # NoDeposit
  /\ remaining'[d] + outstanding'[d] >= remaining[d] + outstanding[d]
  /\ Unaccounted(d)' >= Unaccounted(d)
PaidToMaker(d) ==
  /\ deposits'[d] # NoDeposit
  /\ outstanding'[d] = outstanding[d]
  /\ remaining'[d] \in Nat
  /\ depositVault[d] - depositVault'[d] = remaining[d] - remaining'[d]
  /\ intentLocks' = intentLocks
ClosedWithDust(d) ==
  /\ deposits'[d] = NoDeposit
  /\ outstanding[d] = 0 /\ outstanding'[d] = 0
  /\ remaining'[d] = 0 /\ depositVault'[d] = 0
  /\ Residual(d) <= escrow.dustThreshold
  /\ intentLocks' = intentLocks
SettledFor(d, i) ==
  /\ deposits'[d] # NoDeposit
  /\ intents'[i] = NoIntent
  /\ intentLocks' = [intentLocks EXCEPT ![i] = NoIntent]
  /\ \E release \in 1..intentLocks[i].amount :
       /\ outstanding'[d] = outstanding[d] - intentLocks[i].amount
       /\ remaining'[d] = remaining[d] + (intentLocks[i].amount - release)
       /\ depositVault'[d] = depositVault[d] - release
BookStep(d) ==
  Kept(d) \/ PaidToMaker(d) \/ ClosedWithDust(d) \/ \E i \in LocksOn(d) : SettledFor(d, i)

\* A step that leaves the books of a deposit alone keeps it.
LEMMA BooksKept ==
  ASSUME BooksTypeOK, NEW d \in DepositIds, deposits'[d] # NoDeposit,
         remaining'[d] = remaining[d], outstanding'[d] = outstanding[d],
         depositVault'[d] = depositVault[d]
  PROVE  Kept(d)
<1>1. remaining[d] \in Nat /\ outstanding[d] \in Nat /\ depositVault[d] \in Nat
  BY Zenon DEF BooksTypeOK
<1> QED
  BY <1>1, SMTT(60) DEF Kept, Unaccounted

\* Every maker instruction moves the books of an open deposit as BookStep allows.
LEMMA MakerBookStep ==
  ASSUME EscrowInv, MakerNext, NEW d \in DepositIds, Open(d)
  PROVE  BookStep(d)
<1>0. /\ BooksTypeOK /\ DepositsTypeOK /\ LedgerInv
      /\ remaining[d] \in Nat /\ outstanding[d] \in Nat /\ depositVault[d] \in Nat
  BY Zenon DEF EscrowInv, AccountsInv, LedgerInv, BooksTypeOK
<1>1. ASSUME NEW t \in Terms, NEW retain \in BOOLEAN, NEW m \in Methods, NEW a \in Amounts,
             CreateDeposit(t, retain, m, a)
      PROVE  Kept(d)
  <2>1. d # nextDeposit
    BY <1>1, Zenon DEF CreateDeposit
  <2>2. /\ deposits'[d] = deposits[d] /\ remaining'[d] = remaining[d]
        /\ outstanding'[d] = outstanding[d] /\ depositVault'[d] = depositVault[d]
    BY <1>0, <1>1, <2>1, Zenon DEF CreateDeposit, DepositsTypeOK, BooksTypeOK
  <2> QED BY <1>0, <2>2, BooksKept, Zenon DEF Open
<1>2. ASSUME NEW u \in Users, NEW e \in DepositIds, NEW t \in Terms, NEW accept \in BOOLEAN,
             NEW retain \in BOOLEAN, UpdateDeposit(u, e, t, accept, retain)
      PROVE  Kept(d)
  <2>1. deposits'[d] # NoDeposit
    BY <1>0, <1>2, Zenon DEF UpdateDeposit, DepositsTypeOK, Open
  <2>2. UNCHANGED <<remaining, outstanding, depositVault>>
    BY <1>2, Zenon DEF UpdateDeposit, bookVars
  <2> QED BY <1>0, <2>1, <2>2, BooksKept, Zenon
<1>3. ASSUME NEW e \in DepositIds, NEW a \in Amounts, AddFunds(e, a) \/ DonateDeposit(e, a)
      PROVE  Kept(d)
  <2>1. /\ deposits' = deposits /\ outstanding' = outstanding
        /\ depositVault' = [depositVault EXCEPT ![e] = @ + a]
        /\ remaining' = remaining \/ remaining' = [remaining EXCEPT ![e] = @ + a]
    BY <1>3, Zenon DEF AddFunds, DonateDeposit, depositVars
  <2>2. a \in Nat
    OBVIOUS
  <2> QED BY <1>0, <2>1, <2>2, SMTT(60) DEF Kept, Unaccounted, BooksTypeOK, Open
<1>4. ASSUME NEW u \in Users, NEW e \in DepositIds, NEW a \in Amounts, RemoveFunds(u, e, a)
      PROVE  Kept(d) \/ PaidToMaker(d)
  <2>1. /\ deposits' = deposits /\ outstanding' = outstanding /\ intentLocks' = intentLocks
        /\ depositVault' = [depositVault EXCEPT ![e] = @ - a]
        /\ remaining' = [remaining EXCEPT ![e] = @ - a]
        /\ remaining[e] >= a
    BY <1>4, Zenon DEF RemoveFunds, depositVars, intentVars
  <2>2. a \in Nat
    OBVIOUS
  <2>3. CASE e # d
    BY <1>0, <2>1, <2>3, BooksKept, Zenon DEF BooksTypeOK, Open
  <2>4. CASE e = d
    BY <1>0, <2>1, <2>2, <2>4, SMTT(60) DEF PaidToMaker, BooksTypeOK, Open
  <2> QED BY <2>3, <2>4, Zenon
<1>5. ASSUME NEW u \in Users, NEW e \in DepositIds, WithdrawDeposit(u, e)
      PROVE  Kept(d) \/ PaidToMaker(d) \/ ClosedWithDust(d)
  <2>1. /\ outstanding' = outstanding /\ intentLocks' = intentLocks
        /\ remaining' = [remaining EXCEPT ![e] = 0]
    BY <1>5, Zenon DEF WithdrawDeposit, ReturnPrincipal, intentVars
  <2>2. CASE e # d
    <3>1. deposits'[d] = deposits[d] /\ depositVault'[d] = depositVault[d]
      BY <1>0, <1>5, <2>2, Zenon DEF WithdrawDeposit, BooksTypeOK, DepositsTypeOK
    <3>2. remaining'[d] = remaining[d]
      BY <1>0, <2>1, <2>2, Zenon DEF BooksTypeOK
    <3> QED BY <1>0, <2>1, <3>1, <3>2, BooksKept, Zenon DEF Open
  <2>3. CASE e = d /\ deposits' = deposits
    <3>1. depositVault' = [depositVault EXCEPT ![d] = Residual(d)]
      <4>1. Open(d) /\ deposits'[d] # NoDeposit
        BY <2>3, Zenon DEF Open
      <4> QED BY <1>0, <1>5, <2>3, <4>1, Zenon DEF WithdrawDeposit, DepositsTypeOK
    <3>2. remaining'[d] = 0 /\ depositVault'[d] = depositVault[d] - remaining[d]
      BY <1>0, <2>1, <2>3, <3>1, Zenon DEF BooksTypeOK, Residual
    <3> QED BY <1>0, <2>1, <2>3, <3>2, SMTT(60) DEF PaidToMaker, Open
  <2>4. CASE e = d /\ deposits' # deposits
    <3>1. /\ Closable(d) /\ Residual(d) <= escrow.dustThreshold
          /\ depositVault' = [depositVault EXCEPT ![d] = 0]
          /\ deposits' = [deposits EXCEPT ![d] = NoDeposit]
      BY <1>5, <2>4, Zenon DEF WithdrawDeposit
    <3> QED BY <1>0, <2>1, <2>4, <3>1, Zenon DEF ClosedWithDust, Closable, BooksTypeOK, DepositsTypeOK
  <2> QED BY <2>2, <2>3, <2>4, Zenon
<1>6. ASSUME NEW u \in Users, NEW e \in DepositIds, NEW m \in Methods, NEW active \in BOOLEAN,
             ConfigurePaymentMethod(u, e, m, active)
      PROVE  Kept(d)
  <2>1. UNCHANGED <<deposits, remaining, outstanding, depositVault>>
    BY <1>6, Zenon DEF ConfigurePaymentMethod, bookVars
  <2> QED BY <1>0, <2>1, BooksKept, Zenon DEF Open
<1> QED
  BY <1>1, <1>2, <1>3, <1>4, <1>5, <1>6, SMTT(60) DEF MakerNext, BookStep

\* Locking, unlocking and extending move liquidity within a deposit; settling
\* an intent takes it out of the deposit that the intent locked.
LEMMA IntentBookStep ==
  ASSUME EscrowInv, IntentNext, NEW d \in DepositIds, Open(d)
  PROVE  BookStep(d)
<1>0. /\ BooksTypeOK /\ LedgerInv /\ LifecycleInv
      /\ remaining[d] \in Nat /\ outstanding[d] \in Nat /\ depositVault[d] \in Nat
  BY Zenon DEF EscrowInv, LedgerInv, BooksTypeOK
<1>1. ASSUME NEW t \in Users, NEW e \in DepositIds, NEW m \in Methods, NEW a \in Amounts,
             NEW cover \in BOOLEAN, SignalIntent(t, e, m, a, cover)
      PROVE  Kept(d)
  <2>1. /\ deposits' = deposits /\ depositVault' = depositVault /\ remaining[e] >= a
        /\ remaining' = [remaining EXCEPT ![e] = @ - a]
        /\ outstanding' = [outstanding EXCEPT ![e] = @ + a]
    BY <1>1, Zenon DEF SignalIntent, DepositLock, depositVars
  <2>2. a \in Nat
    OBVIOUS
  <2> QED BY <1>0, <2>1, <2>2, SMTT(60) DEF Kept, Unaccounted, BooksTypeOK, Open
<1>2. ASSUME NEW i \in IntentIds, Active(i),
             DepositUnlock(intents[i].deposit, intentLocks[i].amount),
             UNCHANGED <<deposits, depositVault>>
      PROVE  Kept(d)
  <2> DEFINE e == intents[i].deposit
             a == intentLocks[i].amount
  <2>1. e \in DepositIds /\ a \in Nat /\ a <= outstanding[e]
    BY <1>0, <1>2, LiveLockFacts, Zenon
  <2>2. /\ remaining' = [remaining EXCEPT ![e] = @ + a]
        /\ outstanding' = [outstanding EXCEPT ![e] = @ - a]
    BY <1>2, Zenon DEF DepositUnlock
  <2> HIDE DEF e, a
  <2> QED BY <1>0, <1>2, <2>1, <2>2, SMTT(60) DEF Kept, Unaccounted, BooksTypeOK, Open
<1>3. ASSUME NEW i \in IntentIds, Active(i), NEW release \in Nat, CloseIntent(i),
             DepositSettle(intents[i].deposit, intentLocks[i].amount, release),
             UNCHANGED deposits
      PROVE  Kept(d) \/ \E j \in LocksOn(d) : SettledFor(d, j)
  <2> DEFINE e == intents[i].deposit
             a == intentLocks[i].amount
  <2>1. e \in DepositIds /\ a \in Nat /\ a <= outstanding[e] /\ i \in LocksOn(e)
    BY <1>0, <1>3, LiveLockFacts, ZenonT(60)
  <2>2. /\ remaining' = [remaining EXCEPT ![e] = @ + (a - release)]
        /\ outstanding' = [outstanding EXCEPT ![e] = @ - a]
        /\ depositVault' = [depositVault EXCEPT ![e] = @ - release]
        /\ release \in 1..a
    BY <1>3, <2>1, SMTT(60) DEF DepositSettle
  <2>3. intents'[i] = NoIntent /\ intentLocks' = [intentLocks EXCEPT ![i] = NoIntent]
    BY <1>0, <1>3, Zenon DEF CloseIntent, LifecycleInv, IntentsTypeOK
  <2>4. CASE e # d
    <3>1. /\ remaining'[d] = remaining[d] /\ outstanding'[d] = outstanding[d]
          /\ depositVault'[d] = depositVault[d]
      BY <1>0, <2>2, <2>4, Zenon DEF BooksTypeOK
    <3> QED BY <1>0, <1>3, <3>1, BooksKept, Zenon DEF Open
  <2>5. CASE e = d
    <3>1. /\ remaining'[d] = remaining[d] + (a - release)
          /\ outstanding'[d] = outstanding[d] - a
          /\ depositVault'[d] = depositVault[d] - release
      BY <1>0, <2>2, <2>5, Zenon DEF BooksTypeOK
    <3>2. SettledFor(d, i)
      BY <1>3, <2>2, <2>3, <3>1, Zenon DEF SettledFor, Open
    <3> QED BY <2>1, <2>5, <3>2, Zenon
  <2> QED BY <2>4, <2>5, Zenon
<1>4. ASSUME NEW i \in IntentIds, NEW u \in Users, CancelIntent(u, i) PROVE Kept(d)
  BY <1>2, <1>4, Zenon DEF CancelIntent, depositVars
<1>5. ASSUME NEW i \in IntentIds, PruneExpiredIntent(i) PROVE Kept(d)
  BY <1>2, <1>5, Zenon DEF PruneExpiredIntent, depositVars
<1>6. ASSUME NEW i \in IntentIds, NEW u \in Users, ManualRelease(u, i) PROVE BookStep(d)
  <2>1. intents[i].amount \in Nat /\ Active(i)
    BY <1>0, <1>6, LiveLockFacts, Zenon DEF Intent, ManualRelease
  <2> QED BY <1>3, <1>6, <2>1, Zenon DEF ManualRelease, depositVars, BookStep
<1>7. ASSUME NEW i \in IntentIds, NEW p \in Payments, NEW attested \in Amounts,
             FulfillIntent(i, p, attested)
      PROVE  BookStep(d)
  <2>1. Released(i, attested) \in Nat /\ Active(i)
    BY <1>0, <1>7, LiveLockFacts, Zenon DEF Intent, FulfillIntent, Released
  <2> QED BY <1>3, <1>7, <2>1, Zenon DEF FulfillIntent, depositVars, BookStep
<1>8. ASSUME NEW i \in IntentIds, NEW g \in Users, NEW extra \in 1..MaxLifetime,
             ExtendIntentExpiry(g, i, extra)
      PROVE  Kept(d)
  <2>1. UNCHANGED <<deposits, remaining, outstanding, depositVault>>
    BY <1>8, Zenon DEF ExtendIntentExpiry, depositVars, bookVars
  <2> QED BY <1>0, <2>1, BooksKept, Zenon DEF Open
<1> QED
  BY <1>1, <1>4, <1>5, <1>6, <1>7, <1>8, SMTT(60) DEF IntentNext, BookStep

\* Every step of the escrow is one of the four.
LEMMA EscrowBookStep ==
  ASSUME EscrowInv, [EscrowNext]_<<now, escrowVars>>, NEW d \in DepositIds, Open(d)
  PROVE  BookStep(d)
<1>1. ASSUME UNCHANGED <<depositVars, bookVars>> PROVE Kept(d)
  <2>1. UNCHANGED <<deposits, remaining, outstanding, depositVault>>
    BY <1>1, Zenon DEF depositVars, bookVars
  <2> QED BY <2>1, BooksKept, Zenon DEF EscrowInv, LedgerInv, Open
<1>2. CASE EscrowTick \/ GovernanceNext \/ UNCHANGED <<now, escrowVars>>
  <2>1. UNCHANGED <<depositVars, bookVars>>
    BY <1>2, Zenon DEF EscrowTick, GovernanceNext, ConfigureEscrow, ConfigureOrchestrator,
       escrowVars
  <2> QED BY <1>1, <2>1, Zenon DEF BookStep
<1> QED
  BY <1>2, MakerBookStep, IntentBookStep, Zenon DEF EscrowNext

\* What OnlyDustIsSwept and LiquidityLeavesByRequest say of one deposit in one
\* step.
DustStep(d) ==
  \/ deposits'[d] # NoDeposit /\ Unaccounted(d)' >= Unaccounted(d)
  \/ deposits'[d] = NoDeposit /\ Unaccounted(d) <= escrow.dustThreshold
LeavesStep(d) ==
  LET drop == remaining[d] + outstanding[d] - (remaining'[d] + outstanding'[d]) IN
  Open(d) /\ drop > 0 =>
    /\ depositVault[d] - depositVault'[d] >= drop
    /\ \/ drop <= remaining[d] /\ intentLocks' = intentLocks
       \/ \E i \in LocksOn(d) :
            /\ drop <= intentLocks[i].amount
            /\ intents'[i] = NoIntent
            /\ intentLocks' = [intentLocks EXCEPT ![i] = NoIntent]

\* So does every step of the escrow, for the dust rule and for what leaves the vault.
LEMMA BooksOfStep ==
  ASSUME EscrowInv, EscrowInv', [EscrowNext]_<<now, escrowVars>>, NEW d \in DepositIds, Open(d)
  PROVE  DustStep(d) /\ LeavesStep(d)
<1>0. /\ remaining[d] \in Nat /\ outstanding[d] \in Nat /\ depositVault[d] \in Nat
      /\ remaining'[d] \in Nat /\ outstanding'[d] \in Nat /\ depositVault'[d] \in Nat
      /\ remaining[d] <= depositVault[d] /\ IntentsTypeOK
  BY SMTT(60) DEF EscrowInv, LedgerInv, LifecycleInv, BooksTypeOK, DepositsBacked
<1>1. CASE Kept(d)
  BY <1>0, <1>1, SMTT(60) DEF Kept, DustStep, LeavesStep, Unaccounted
<1>2. CASE PaidToMaker(d)
  BY <1>0, <1>2, SMTT(60) DEF PaidToMaker, DustStep, LeavesStep, Unaccounted
<1>3. CASE ClosedWithDust(d)
  BY <1>0, <1>3, SMTT(60) DEF ClosedWithDust, DustStep, LeavesStep, Unaccounted, Residual
<1>4. ASSUME NEW i \in LocksOn(d), SettledFor(d, i) PROVE DustStep(d) /\ LeavesStep(d)
  <2> DEFINE a == intentLocks[i].amount
  <2>1. a \in Nat
    BY <1>0, <1>4, Zenon DEF IntentsTypeOK, LocksOn, EscrowIntentLock
  <2>2. PICK release \in 1..a : /\ outstanding'[d] = outstanding[d] - a
                                /\ remaining'[d] = remaining[d] + (a - release)
                                /\ depositVault'[d] = depositVault[d] - release
    BY <1>4, Zenon DEF SettledFor
  <2>3. deposits'[d] # NoDeposit /\ intents'[i] = NoIntent
        /\ intentLocks' = [intentLocks EXCEPT ![i] = NoIntent]
    BY <1>4, Zenon DEF SettledFor
  <2> HIDE DEF a
  <2>4. DustStep(d)
    BY <1>0, <2>1, <2>2, <2>3, SMTT(60) DEF DustStep, Unaccounted
  <2> DEFINE drop == remaining[d] + outstanding[d] - (remaining'[d] + outstanding'[d])
  <2>5. drop <= a /\ depositVault[d] - depositVault'[d] >= drop
    BY <1>0, <2>1, <2>2, SMTT(60)
  <2>6. LeavesStep(d)
    BY <1>4, <2>3, <2>5, Zenon DEF LeavesStep, a
  <2> QED BY <2>4, <2>6, Zenon
<1> QED
  BY <1>1, <1>2, <1>3, <1>4, EscrowBookStep, Zenon DEF BookStep
-----------------------------------------------------------------------------
(* Handlers that do not end an intent.                                     *)

\* A new intent enters the deposit's books and the taker's count.
LEMMA SignalIntentInv ==
  ASSUME EscrowInv, NEW t \in Users, NEW d \in DepositIds, NEW m \in Methods,
         NEW a \in Nat, NEW cover \in BOOLEAN, SignalIntent(t, d, m, a, cover)
  PROVE  EscrowInv'
<1>0. LedgerInv /\ LifecycleInv /\ AccountsInv
  BY ZenonT(60) DEF EscrowInv
<1>1. PICK i \in IntentIds : i = nextIntent
  BY <1>0, SMTT(60) DEF SignalIntent, LifecycleInv, IntentsTypeOK, IntentIds
<1> DEFINE intent == [owner |-> t, deposit |-> d, method |-> m, amount |-> a,
                      timestamp |-> now]
           lock == [deposit |-> d, amount |-> a, timestamp |-> now,
                    expiry |-> now + escrow.period]
<1>2. /\ intents' = [intents EXCEPT ![i] = intent]
      /\ intentLocks' = [intentLocks EXCEPT ![i] = lock]
      /\ takerActive' = [takerActive EXCEPT ![t] = @ + 1]
      /\ covered' = With(covered, i, cover)
      /\ nextIntent' = i + 1 /\ intents[i] = NoIntent /\ Open(d)
  BY <1>1, Zenon DEF SignalIntent, Active
<1>3. /\ a >= deposits[d].min
      /\ remaining[d] >= a
      /\ remaining' = [remaining EXCEPT ![d] = @ - a]
      /\ outstanding' = [outstanding EXCEPT ![d] = @ + a]
      /\ activeIntents' = [activeIntents EXCEPT ![d] = @ + 1]
  BY Zenon DEF SignalIntent, DepositLock
<1>4. /\ UNCHANGED <<now, escrow, orchestrator, nextDeposit, deposits, accepting, retained>>
      /\ UNCHANGED <<methods, depositVault, paymentIntent, intentPayment>>
  BY Zenon DEF SignalIntent, configVars, depositVars, bindingVars
<1>5. /\ intent \in Intent /\ lock \in EscrowIntentLock
      /\ now \in Nat /\ escrow.period \in 1..MaxLifetime
  BY <1>0, SMTT(60) DEF AccountsInv, Intent, EscrowIntentLock, EscrowConfig
<1>6. /\ intent.owner = t /\ intent.deposit = d /\ intent.amount = a
      /\ intent.timestamp = now /\ lock.deposit = d /\ lock.amount = a
      /\ lock.timestamp = now /\ lock.expiry = now + escrow.period
  OBVIOUS
<1> HIDE DEF intent, lock
<1>7. IntentsTypeOK
  BY <1>0, Zenon DEF LifecycleInv
<1>8. IntentsTypeOK'
  <2>1. covered' \subseteq IntentIds
    BY <1>2, <1>7, Zenon DEF IntentsTypeOK, With
  <2>2. nextIntent' \in 0..MaxIntents
    BY <1>2, SMTT(60) DEF IntentIds
  <2> QED
    BY <1>2, <1>5, <1>7, <2>1, <2>2, SMTT(60) DEF IntentsTypeOK
<1>9. /\ \A j \in IntentIds \ {i} : intentLocks'[j] = intentLocks[j] /\ intents'[j] = intents[j]
      /\ intents'[i] = intent /\ intentLocks'[i] = lock
      /\ intent # NoIntent /\ lock # NoIntent
  BY <1>2, <1>5, <1>7, Zenon DEF IntentsTypeOK
<1>10. intentLocks[i] = NoIntent
  BY <1>0, <1>2, Zenon DEF LifecycleInv, IntentsArePaired, Active
<1>11. a > 0
  <2>1. deposits[d] \in DepositTerms /\ ValidRange(deposits[d])
    BY <1>0, <1>2, Zenon DEF AccountsInv, DepositsTypeOK, RangesValid, Open
  <2> QED BY <1>3, <2>1, SMTT(60) DEF ValidRange, DepositTerms
<1>12. AccountsInv'
  <2>1. \A j \in IntentIds : Active(j)' => j < nextIntent'
    BY <1>0, <1>1, <1>2, <1>9, SMTT(60) DEF AccountsInv, FreshIdentifiers, Active, IntentIds
  <2>2. FreshIdentifiers'
    BY <1>0, <1>4, <2>1, Zenon DEF AccountsInv, FreshIdentifiers, Open
  <2>3. DepositsTypeOK' /\ RangesValid'
    BY <1>0, <1>4, Zenon DEF AccountsInv, DepositsTypeOK, RangesValid, ValidRange, Open
  <2> QED
    BY <1>0, <1>4, <2>2, <2>3, Zenon DEF AccountsInv
<1>13. IntentsArePaired'
  <2> SUFFICES ASSUME NEW j \in IntentIds
               PROVE  /\ Active(j)' <=> intentLocks'[j] # NoIntent
                      /\ j \in covered' => Active(j)'
                      /\ Active(j)' =>
                           /\ Open(intents[j].deposit)'
                           /\ intents'[j].amount > 0
                           /\ intentLocks'[j].deposit = intents'[j].deposit
                           /\ intentLocks'[j].amount = intents'[j].amount
                           /\ intentLocks'[j].timestamp = intents'[j].timestamp
    BY Zenon DEF IntentsArePaired
  <2>1. CASE j = i
    BY <2>1, <1>2, <1>4, <1>6, <1>9, <1>11, ZenonT(60) DEF Active, Open
  <2>2. CASE j # i
    <3>1. j \in covered' => j \in covered
      BY <1>2, <2>2, Zenon DEF With
    <3> QED
      BY <2>2, <3>1, <1>0, <1>4, <1>9, ZenonT(60) DEF LifecycleInv, IntentsArePaired, Active, Open
  <2> QED BY <2>1, <2>2, Zenon
<1>14. ExpiryWithinLifetime'
  <2> SUFFICES ASSUME NEW j \in IntentIds, intentLocks'[j] # NoIntent
               PROVE  /\ intentLocks'[j].timestamp <= now'
                      /\ intentLocks'[j].timestamp < intentLocks'[j].expiry
                      /\ intentLocks'[j].expiry <= intentLocks'[j].timestamp + MaxLifetime
    BY ZenonT(60) DEF ExpiryWithinLifetime
  <2>1. CASE j = i
    BY <2>1, <1>4, <1>5, <1>6, <1>9, SMTT(60)
  <2>2. CASE j # i
    BY <2>2, <1>0, <1>4, <1>9, Zenon DEF LifecycleInv, ExpiryWithinLifetime
  <2> QED BY <2>1, <2>2, Zenon
<1>15. TakerCountsIntents'
  <2> SUFFICES ASSUME NEW u \in Users
               PROVE  takerActive'[u] =
                        Cardinality({j \in IntentIds : Active(j) /\ intents[j].owner = u}')
    BY Zenon DEF TakerCountsIntents
  <2> DEFINE U == {j \in IntentIds : Active(j) /\ intents[j].owner = u}
             V == {j \in IntentIds : intents'[j] # NoIntent /\ intents'[j].owner = u}
  <2>1. takerActive[u] = Cardinality(U)
    BY <1>0, Zenon DEF LifecycleInv, TakerCountsIntents
  <2>2. V = IF u = t THEN U \cup {i} ELSE U
    BY <1>2, <1>6, <1>9, Zenon DEF Active
  <2>3. i \notin U /\ U \in SUBSET IntentIds
    BY <1>2, Zenon DEF Active
  <2>4. takerActive'[u] = IF u = t THEN takerActive[u] + 1 ELSE takerActive[u]
    BY <1>2, <1>7, Zenon DEF IntentsTypeOK
  <2> HIDE DEF U, V
  <2>5. takerActive'[u] = Cardinality(V)
    BY <2>1, <2>2, <2>3, <2>4, CountStep, Zenon
  <2> QED BY <2>5, Zenon DEF V, Active
<1>16. BindingsTypeOK' /\ PaymentsBindOnce'
  <2>1. BindingsTypeOK /\ PaymentsBindOnce
    BY <1>0, Zenon DEF LifecycleInv
  <2>2. ASSUME NEW j \in IntentIds, intentPayment[j] # NoPayment
        PROVE  j < nextIntent' /\ ~Active(j)'
    <3>1. j < nextIntent /\ intents[j] = NoIntent
      BY <2>1, <2>2, Zenon DEF PaymentsBindOnce, Active
    <3>2. j # i /\ j < i + 1
      BY <1>1, <3>1, SMTT(60) DEF IntentIds
    <3> QED BY <1>2, <1>9, <3>1, <3>2, Zenon DEF Active
  <2> QED
    BY <1>4, <2>1, <2>2, Zenon DEF BindingsTypeOK, PaymentsBindOnce
<1>17. BooksTypeOK
  BY <1>0, Zenon DEF LedgerInv
<1>18. BooksTypeOK'
  BY <1>3, <1>4, <1>17, SMTT(60) DEF BooksTypeOK
<1>19. BooksMatchLocks'
  <2> SUFFICES ASSUME NEW e \in DepositIds
               PROVE  /\ outstanding'[e] = Sum(LockedOn(e)', IntentIds)
                      /\ activeIntents'[e] = Cardinality(LocksOn(e)')
    BY Zenon DEF BooksMatchLocks
  <2>1. /\ outstanding[e] = Sum(LockedOn(e), IntentIds)
        /\ activeIntents[e] = Cardinality(LocksOn(e))
    BY <1>0, Zenon DEF LedgerInv, BooksMatchLocks
  <2>2. /\ i \notin LocksOn(e) /\ LocksOn(e) \in SUBSET IntentIds
        /\ LocksOn(e)' = IF e = d THEN LocksOn(e) \cup {i} ELSE LocksOn(e)
    BY <1>6, <1>9, <1>10, ZenonT(60) DEF LocksOn
  <2>3. /\ outstanding'[e] = IF e = d THEN outstanding[e] + a ELSE outstanding[e]
        /\ activeIntents'[e] = IF e = d THEN activeIntents[e] + 1 ELSE activeIntents[e]
    BY <1>3, <1>17, Zenon DEF BooksTypeOK
  <2>4. activeIntents'[e] = Cardinality(LocksOn(e)')
    BY <2>1, <2>2, <2>3, CountStep, Zenon
  <2>5. LockedOn(e)[i] = 0 /\ LockedOn(e)'[i] = IF e = d THEN a ELSE 0
    <3>1. i \notin LocksOn(e) /\ (i \in LocksOn(e)' <=> e = d)
      BY <2>2, Zenon
    <3> QED BY <1>6, <1>9, <3>1, Zenon DEF LockedOn
  <2>6. /\ Sum(LockedOn(e), IntentIds) \in Nat
        /\ Sum(LockedOn(e)', IntentIds) =
             Sum(LockedOn(e), IntentIds) - LockedOn(e)[i] + LockedOn(e)'[i]
    BY <1>7, <1>8, <1>9, LockedTotalStep, Zenon
  <2> QED BY <2>1, <2>3, <2>4, <2>5, <2>6, SMTT(60)
<1>20. DepositsBacked'
  <2>1. \A e \in DepositIds : remaining'[e] + outstanding'[e] = remaining[e] + outstanding[e]
    BY <1>3, <1>17, SMTT(60) DEF BooksTypeOK
  <2> QED
    BY <1>0, <1>4, <2>1, Zenon DEF LedgerInv, DepositsBacked, Open
<1> QED
  BY <1>8, <1>12, <1>13, <1>14, <1>15, <1>16, <1>18, <1>19, <1>20, Zenon
  DEF EscrowInv, LedgerInv, LifecycleInv

\* A guardian moves one expiry, within the cap.
LEMMA ExtendIntentExpiryInv ==
  ASSUME EscrowInv, NEW g \in Users, NEW i \in IntentIds, NEW extra \in Nat,
         ExtendIntentExpiry(g, i, extra)
  PROVE  EscrowInv'
<1>0. /\ LedgerInv /\ LifecycleInv /\ AccountsInv /\ Active(i)
      /\ UNCHANGED <<now, configVars, depositVars, bookVars, nextIntent, intents, covered,
                     takerActive, bindingVars>>
  BY Zenon DEF EscrowInv, ExtendIntentExpiry
<1>1. /\ intentLocks[i] \in EscrowIntentLock /\ intentLocks[i] # NoIntent
      /\ intentLocks' = [intentLocks EXCEPT ![i].expiry = @ + extra]
      /\ extra > 0 /\ intentLocks[i].expiry + extra <= intentLocks[i].timestamp + MaxLifetime
  BY <1>0, LiveLockFacts, Zenon DEF ExtendIntentExpiry
<1>2. /\ intentLocks'[i] \in EscrowIntentLock
      /\ intentLocks'[i].deposit = intentLocks[i].deposit
      /\ intentLocks'[i].amount = intentLocks[i].amount
      /\ intentLocks'[i].timestamp = intentLocks[i].timestamp
      /\ intentLocks'[i].expiry = intentLocks[i].expiry + extra
      /\ intentLocks'[i] # NoIntent
  BY <1>0, <1>1, SMTT(60) DEF LifecycleInv, IntentsTypeOK, EscrowIntentLock
<1>3. \A j \in IntentIds \ {i} : intentLocks'[j] = intentLocks[j]
  BY <1>0, <1>1, Zenon DEF LifecycleInv, IntentsTypeOK
<1>4. IntentsTypeOK'
  BY <1>0, <1>1, <1>2, Zenon DEF LifecycleInv, IntentsTypeOK
<1>5. AccountsInv'
  BY <1>0, AccountsStutter, Zenon DEF Active
<1>6. IntentsArePaired'
  BY <1>0, <1>1, <1>2, <1>3, SMTT(60) DEF LifecycleInv, IntentsArePaired, Active, Open, depositVars
<1>7. ExpiryWithinLifetime'
  BY <1>0, <1>1, <1>2, <1>3, SMTT(60) DEF LifecycleInv, ExpiryWithinLifetime, EscrowIntentLock
<1>8. TakerCountsIntents' /\ BindingsTypeOK' /\ PaymentsBindOnce'
  BY <1>0, BindingsStutter, Zenon DEF LifecycleInv, TakerCountsIntents, Active
<1>9. BooksTypeOK' /\ DepositsBacked'
  BY <1>0, Zenon DEF LedgerInv, BooksTypeOK, DepositsBacked, bookVars, depositVars, Open
<1>10. ASSUME NEW d \in DepositIds
       PROVE  LocksOn(d)' = LocksOn(d) /\ LockedOn(d)' = LockedOn(d)
  <2>1. LocksOn(d)' = LocksOn(d)
    BY <1>1, <1>2, <1>3, Zenon DEF LocksOn
  <2> QED BY <2>1, <1>2, <1>3, Zenon DEF LockedOn
<1>11. BooksMatchLocks'
  BY <1>0, <1>10, Zenon DEF LedgerInv, BooksMatchLocks, bookVars
<1> QED
  BY <1>4, <1>5, <1>6, <1>7, <1>8, <1>9, <1>11, Zenon DEF EscrowInv, LedgerInv, LifecycleInv
-----------------------------------------------------------------------------
(* Makers, governance and time.                                            *)

\* Steps that keep the intents, and every deposit with a live intent, keep
\* the lifecycle invariant.
LEMMA LifecycleStutter ==
  ASSUME LifecycleInv, UNCHANGED <<intentVars, bindingVars>>,
         now \in Int, now' \in Int, now <= now',
         \A i \in IntentIds : Active(i) => Open(intents[i].deposit)'
  PROVE  LifecycleInv'
<1>1. UNCHANGED <<nextIntent, intents, covered, intentLocks, takerActive, paymentIntent,
                 intentPayment>>
  BY Zenon DEF intentVars, bindingVars
<1>2. IntentsTypeOK' /\ TakerCountsIntents' /\ BindingsTypeOK' /\ PaymentsBindOnce'
  BY <1>1, SMTT(60) DEF LifecycleInv, IntentsTypeOK, TakerCountsIntents, BindingsTypeOK,
              PaymentsBindOnce, Active
<1>3. IntentsArePaired'
  BY <1>1, Zenon DEF LifecycleInv, IntentsArePaired, Active
<1>4. ExpiryWithinLifetime'
  BY <1>1, SMTT(60) DEF LifecycleInv, ExpiryWithinLifetime, IntentsTypeOK, EscrowIntentLock
<1> QED
  BY <1>2, <1>3, <1>4, Zenon DEF LifecycleInv

\* The deposit of a live intent exists and is open.
LEMMA LiveDeposit ==
  ASSUME LedgerInv, LifecycleInv, NEW i \in IntentIds, Active(i)
  PROVE  intents[i].deposit \in DepositIds /\ Open(intents[i].deposit)
BY LiveLockFacts, Zenon DEF LifecycleInv, IntentsArePaired

\* A deposit without books has no intents.
LEMMA ClosedDepositIsEmpty ==
  ASSUME LedgerInv, LifecycleInv, NEW d \in DepositIds, ~Open(d) \/ activeIntents[d] = 0
  PROVE  /\ \A i \in IntentIds : Active(i) => intents[i].deposit # d
         /\ ~Open(d) => outstanding[d] = 0 /\ activeIntents[d] = 0 /\ remaining[d] = 0
<1>1. \A i \in IntentIds : Active(i) => intents[i].deposit # d
  BY LiveLockFacts, SMTT(60) DEF LifecycleInv, IntentsArePaired
<1>2. ASSUME ~Open(d) PROVE outstanding[d] = 0 /\ activeIntents[d] = 0 /\ remaining[d] = 0
  <2>1. LocksOn(d) = {}
    BY <1>1, Zenon DEF LocksOn, LifecycleInv, IntentsArePaired
  <2>2. activeIntents[d] = 0
    BY <2>1, FS_EmptySet, Zenon DEF LedgerInv, BooksMatchLocks
  <2> QED BY <1>2, <2>2, SMTT(60) DEF LedgerInv, BooksTypeOK, DepositsBacked
<1> QED
  BY <1>1, <1>2, ZenonT(60)

\* A new deposit opens with its principal in its vault and no locks.
LEMMA CreateDepositInv ==
  ASSUME EscrowInv, NEW t \in DepositTerms, NEW retain \in BOOLEAN, NEW m \in Methods,
         NEW a \in Nat, CreateDeposit(t, retain, m, a)
  PROVE  EscrowInv'
<1> DEFINE n == nextDeposit
<1>0. /\ LedgerInv /\ LifecycleInv /\ AccountsInv
      /\ n \in DepositIds /\ ~Open(n) /\ ValidRange(t) /\ nextDeposit' = n + 1
      /\ deposits' = [deposits EXCEPT ![n] = t]
      /\ accepting' = accepting \cup {n}
      /\ retained' = With(retained, n, retain)
      /\ methods' = [methods EXCEPT ![n] = @ \cup {m}]
      /\ UNCHANGED <<now, configVars, intentVars, bindingVars>>
  BY SMTT(60) DEF EscrowInv, CreateDeposit, AccountsInv, DepositsTypeOK, DepositIds
<1>1. /\ \A i \in IntentIds : Active(i) => intents[i].deposit # n
      /\ outstanding[n] = 0 /\ activeIntents[n] = 0 /\ remaining[n] = 0
  BY <1>0, ClosedDepositIsEmpty, Zenon
<1>2. /\ outstanding' = outstanding /\ activeIntents' = activeIntents
      /\ remaining' = [remaining EXCEPT ![n] = a]
      /\ depositVault' = [depositVault EXCEPT ![n] = a]
  BY <1>0, <1>1, Zenon DEF CreateDeposit, LedgerInv, BooksTypeOK
<1>3. /\ deposits'[n] = t /\ \A d \in DepositIds \ {n} : deposits'[d] = deposits[d]
      /\ t # NoDeposit
  BY <1>0, Zenon DEF AccountsInv, DepositsTypeOK
<1>4. LifecycleInv'
  <2>1. \A i \in IntentIds : Active(i) => Open(intents[i].deposit)'
    <3>1. intents' = intents
      BY <1>0, Zenon DEF intentVars
    <3> QED BY <1>0, <1>1, <1>3, <3>1, LiveDeposit, Zenon DEF Open
  <2>2. now \in Int /\ now' \in Int /\ now <= now'
    BY <1>0, SMTT(60) DEF AccountsInv
  <2> QED
    BY <1>0, <2>1, <2>2, LifecycleStutter, Zenon
<1>5. LedgerInv'
  <2>1. BooksTypeOK'
    BY <1>0, <1>2, Zenon DEF LedgerInv, BooksTypeOK
  <2>2. BooksMatchLocks'
    BY <1>0, <1>2, ZenonT(60) DEF LedgerInv, BooksMatchLocks, LocksOn, LockedOn, intentVars
  <2>3. DepositsBacked'
    BY <1>0, <1>1, <1>2, <1>3, SMTT(60) DEF LedgerInv, BooksTypeOK, DepositsBacked, Open
  <2> QED BY <2>1, <2>2, <2>3, Zenon DEF LedgerInv
<1>6. DepositsTypeOK'
  <2>1. accepting' \subseteq DepositIds /\ retained' \subseteq DepositIds
    BY <1>0, Zenon DEF AccountsInv, DepositsTypeOK, With
  <2> QED
    BY <1>0, <2>1, SMTT(60) DEF AccountsInv, DepositsTypeOK, DepositIds
<1>7. RangesValid'
  BY <1>0, <1>3, Zenon DEF AccountsInv, RangesValid, Open, ValidRange
<1>8. FreshIdentifiers'
  BY <1>0, <1>3, SMTT(60) DEF AccountsInv, FreshIdentifiers, Open, Active, intentVars, DepositIds
<1> QED
  BY <1>0, <1>4, <1>5, <1>6, <1>7, <1>8, ZenonT(60) DEF EscrowInv, AccountsInv, configVars

\* Adding, removing and donating move tokens in or out with the liquidity.
LEMMA FundsInv ==
  ASSUME EscrowInv, NEW d \in DepositIds, NEW a \in Nat,
         \/ AddFunds(d, a)
         \/ DonateDeposit(d, a)
         \/ \E u \in Users : RemoveFunds(u, d, a)
  PROVE  EscrowInv'
<1>0. /\ LedgerInv /\ LifecycleInv /\ AccountsInv /\ Open(d)
      /\ UNCHANGED <<now, configVars, depositVars, outstanding, activeIntents, intentVars,
                     bindingVars>>
  BY Zenon DEF EscrowInv, AddFunds, DonateDeposit, RemoveFunds
<1>1. UNCHANGED <<deposits, intents, intentLocks, nextIntent>>
  BY <1>0, Zenon DEF depositVars, intentVars
<1>2. AccountsInv'
  BY <1>0, <1>1, AccountsStutter, Zenon DEF Active
<1>3. LifecycleInv'
  <2>1. \A i \in IntentIds : Active(i) => Open(intents[i].deposit)'
    BY <1>0, <1>1, LiveDeposit, Zenon DEF Open
  <2>2. now \in Int /\ now' \in Int /\ now <= now'
    BY <1>0, SMTT(60) DEF AccountsInv
  <2> QED
    BY <1>0, <2>1, <2>2, LifecycleStutter, Zenon
<1>4. BooksMatchLocks'
  BY <1>0, <1>1, Zenon DEF LedgerInv, BooksMatchLocks, LocksOn, LockedOn
<1>5. BooksTypeOK' /\ DepositsBacked'
  <2>1. CASE AddFunds(d, a)
    BY <1>0, <1>1, <2>1, SMTT(60) DEF LedgerInv, BooksTypeOK, DepositsBacked, Open, AddFunds
  <2>2. CASE DonateDeposit(d, a)
    BY <1>0, <1>1, <2>2, SMTT(60) DEF LedgerInv, BooksTypeOK, DepositsBacked, Open, DonateDeposit
  <2>3. CASE \E u \in Users : RemoveFunds(u, d, a)
    BY <1>0, <1>1, <2>3, SMTT(60) DEF LedgerInv, BooksTypeOK, DepositsBacked, Open, RemoveFunds
  <2> QED BY <2>1, <2>2, <2>3, ZenonT(60)
<1> QED
  BY <1>2, <1>3, <1>4, <1>5, Zenon DEF EscrowInv, LedgerInv

\* A withdrawal returns the principal; it closes only an unused deposit.
LEMMA WithdrawDepositInv ==
  ASSUME EscrowInv, NEW u \in Users, NEW d \in DepositIds, WithdrawDeposit(u, d)
  PROVE  EscrowInv'
<1>0. /\ LedgerInv /\ LifecycleInv /\ AccountsInv /\ Open(d)
      /\ remaining' = [remaining EXCEPT ![d] = 0]
      /\ accepting' = accepting \ {d}
      /\ UNCHANGED <<now, configVars, nextDeposit, methods, outstanding, activeIntents,
                     intentVars, bindingVars>>
  BY Zenon DEF EscrowInv, WithdrawDeposit, ReturnPrincipal
<1>1. /\ retained' \subseteq DepositIds
      /\ \/ deposits' = deposits /\ depositVault' = [depositVault EXCEPT ![d] = Residual(d)]
         \/ /\ deposits' = [deposits EXCEPT ![d] = NoDeposit]
            /\ depositVault' = [depositVault EXCEPT ![d] = 0]
            /\ activeIntents[d] = 0 /\ outstanding[d] = 0
  BY <1>0, Zenon DEF WithdrawDeposit, Closable, AccountsInv, DepositsTypeOK
<1>2. /\ deposits' \in [DepositIds -> DepositTerms \cup {NoDeposit}]
      /\ \A e \in DepositIds : Open(e)' => Open(e) /\ deposits'[e] = deposits[e]
      /\ \A e \in DepositIds \ {d} : deposits'[e] = deposits[e]
  BY <1>0, <1>1, Zenon DEF AccountsInv, DepositsTypeOK, Open
<1>3. AccountsInv'
  BY <1>0, <1>1, <1>2, Zenon DEF AccountsInv, configVars, intentVars, DepositsTypeOK,
                          FreshIdentifiers, RangesValid, ValidRange, Active
<1>4. LifecycleInv'
  <2>1. \A i \in IntentIds : Active(i) => Open(intents[i].deposit)'
    <3>0. intents' = intents
      BY <1>0, Zenon DEF intentVars
    <3>1. CASE deposits' = deposits
      BY <1>0, <3>0, <3>1, LiveDeposit, Zenon DEF Open
    <3>2. CASE activeIntents[d] = 0
      <4>1. \A i \in IntentIds : Active(i) => intents[i].deposit # d
        BY <1>0, <3>2, ClosedDepositIsEmpty, Zenon
      <4> QED BY <1>0, <1>2, <3>0, <4>1, LiveDeposit, Zenon DEF Open
    <3> QED BY <1>1, <3>1, <3>2, Zenon
  <2>2. now \in Int /\ now' \in Int /\ now <= now'
    BY <1>0, SMTT(60) DEF AccountsInv
  <2> QED
    BY <1>0, <2>1, <2>2, LifecycleStutter, Zenon
<1>5. BooksMatchLocks'
  BY <1>0, Zenon DEF LedgerInv, BooksMatchLocks, LocksOn, LockedOn, intentVars
<1>6. BooksTypeOK' /\ DepositsBacked'
  <2>1. Residual(d) \in Nat /\ outstanding[d] <= Residual(d)
    BY <1>0, SMTT(60) DEF LedgerInv, BooksTypeOK, DepositsBacked, Residual
  <2>2. BooksTypeOK'
    BY <1>0, <1>1, <2>1, ZenonT(60) DEF LedgerInv, BooksTypeOK
  <2>3. ASSUME NEW e \in DepositIds
        PROVE  remaining'[e] + outstanding'[e] <= depositVault'[e]
    BY <1>0, <1>1, <2>1, SMTT(60) DEF LedgerInv, BooksTypeOK, DepositsBacked
  <2>4. ASSUME NEW e \in DepositIds, ~Open(e)'
        PROVE  depositVault'[e] = 0
    <3>1. CASE e = d
      BY <1>0, <1>1, <2>4, <3>1, Zenon DEF LedgerInv, BooksTypeOK, Open
    <3>2. CASE e # d
      BY <1>0, <1>1, <1>2, <2>4, <3>2, Zenon DEF LedgerInv, BooksTypeOK, DepositsBacked, Open
    <3> QED BY <3>1, <3>2, Zenon
  <2> QED BY <2>2, <2>3, <2>4, Zenon DEF DepositsBacked
<1> QED
  BY <1>3, <1>4, <1>5, <1>6, Zenon DEF EscrowInv, LedgerInv

\* Changing terms, flags or payment methods touches no books.
LEMMA SettingsInv ==
  ASSUME EscrowInv, NEW u \in Users, NEW d \in DepositIds,
         \/ \E t \in DepositTerms, accept, retain \in BOOLEAN :
              UpdateDeposit(u, d, t, accept, retain)
         \/ \E m \in Methods, active \in BOOLEAN : ConfigurePaymentMethod(u, d, m, active)
  PROVE  EscrowInv'
<1>0. /\ LedgerInv /\ LifecycleInv /\ AccountsInv /\ Open(d)
      /\ UNCHANGED <<now, configVars, nextDeposit, bookVars, intentVars, bindingVars>>
  BY Zenon DEF EscrowInv, UpdateDeposit, ConfigurePaymentMethod
<1>1. UNCHANGED <<remaining, outstanding, activeIntents, depositVault, nextIntent, intents,
                 intentLocks>>
  BY <1>0, Zenon DEF bookVars, intentVars
<1>2. /\ accepting' \subseteq DepositIds /\ retained' \subseteq DepositIds
      /\ methods' \in [DepositIds -> SUBSET Methods]
  <2>1. CASE \E t \in DepositTerms, accept, retain \in BOOLEAN :
               UpdateDeposit(u, d, t, accept, retain)
    BY <1>0, <2>1, ZenonT(60) DEF UpdateDeposit, With, AccountsInv, DepositsTypeOK
  <2>2. CASE \E m \in Methods, active \in BOOLEAN : ConfigurePaymentMethod(u, d, m, active)
    BY <1>0, <2>2, SMTT(60) DEF ConfigurePaymentMethod, With, AccountsInv, DepositsTypeOK
  <2> QED BY <2>1, <2>2, Zenon
<1>3. \/ deposits' = deposits
      \/ \E t \in DepositTerms : ValidRange(t) /\ deposits' = [deposits EXCEPT ![d] = t]
  BY Zenon DEF UpdateDeposit, ConfigurePaymentMethod
<1>4. /\ deposits' \in [DepositIds -> DepositTerms \cup {NoDeposit}]
      /\ \A e \in DepositIds : Open(e)' <=> Open(e)
  BY <1>0, <1>3, ZenonT(60) DEF AccountsInv, DepositsTypeOK, Open
<1>5. RangesValid'
  BY <1>0, <1>3, <1>4, Zenon DEF AccountsInv, DepositsTypeOK, RangesValid, Open, ValidRange
<1>6. AccountsInv'
  BY <1>0, <1>1, <1>2, <1>4, <1>5, Zenon DEF AccountsInv, configVars, DepositsTypeOK,
                                      FreshIdentifiers, Active
<1>7. LifecycleInv'
  <2>1. \A i \in IntentIds : Active(i) => Open(intents[i].deposit)'
    BY <1>0, <1>1, <1>4, LiveDeposit, Zenon DEF Open
  <2>2. now \in Int /\ now' \in Int /\ now <= now'
    BY <1>0, SMTT(60) DEF AccountsInv
  <2> QED
    BY <1>0, <2>1, <2>2, LifecycleStutter, Zenon
<1>8. LedgerInv'
  <2>1. BooksTypeOK' /\ BooksMatchLocks'
    BY <1>0, <1>1, Zenon DEF LedgerInv, BooksTypeOK, BooksMatchLocks, LocksOn, LockedOn
  <2>2. DepositsBacked'
    BY <1>0, <1>1, <1>4, Zenon DEF LedgerInv, DepositsBacked
  <2> QED BY <2>1, <2>2, Zenon DEF LedgerInv
<1> QED
  BY <1>6, <1>7, <1>8, Zenon DEF EscrowInv

\* Governance and the clock leave deposits and intents alone.
LEMMA EnvironmentInv ==
  ASSUME EscrowInv, GovernanceNext \/ EscrowTick
  PROVE  EscrowInv'
<1>0. /\ LedgerInv /\ LifecycleInv /\ AccountsInv
      /\ UNCHANGED <<depositVars, bookVars, intentVars, bindingVars>>
  BY Zenon DEF EscrowInv, GovernanceNext, ConfigureEscrow, ConfigureOrchestrator, EscrowTick,
         escrowVars
<1>1. UNCHANGED <<remaining, outstanding, activeIntents, depositVault, nextIntent, intents,
                 intentLocks, nextDeposit, deposits, accepting, retained, methods>>
  BY <1>0, Zenon DEF bookVars, intentVars, depositVars
<1>2. now' \in 0..MaxTime /\ now <= now'
  BY <1>0, SMTT(60) DEF AccountsInv, GovernanceNext, ConfigureEscrow, ConfigureOrchestrator,
              EscrowTick, Tick
<1>3. escrow' \in EscrowConfig /\ escrow'.period \in 1..MaxLifetime
  BY <1>0, SMTT(60) DEF AccountsInv, GovernanceNext, ConfigureEscrow, ConfigureOrchestrator,
              EscrowTick, escrowVars, configVars, ValidSettings, EscrowConfig
<1>4. orchestrator' \in OrchestratorConfig
  BY <1>0, Zenon DEF AccountsInv, GovernanceNext, ConfigureEscrow, ConfigureOrchestrator,
              EscrowTick, escrowVars, configVars
<1>5. AccountsInv'
  BY <1>0, <1>1, <1>2, <1>3, <1>4, Zenon DEF AccountsInv, DepositsTypeOK, FreshIdentifiers,
                                      RangesValid, ValidRange, Active, Open
<1>6. LifecycleInv'
  <2>1. \A i \in IntentIds : Active(i) => Open(intents[i].deposit)'
    BY <1>0, <1>1, LiveDeposit, Zenon DEF Open
  <2>2. now \in Int /\ now' \in Int /\ now <= now'
    BY <1>0, <1>2, SMTT(60) DEF AccountsInv
  <2> QED
    BY <1>0, <2>1, <2>2, LifecycleStutter, Zenon
<1>7. LedgerInv'
  BY <1>0, <1>1, ZenonT(60) DEF LedgerInv, BooksTypeOK, BooksMatchLocks, LocksOn, LockedOn,
                    DepositsBacked, Open
<1> QED
  BY <1>5, <1>6, <1>7, Zenon DEF EscrowInv
-----------------------------------------------------------------------------
(* The invariant of the specification.                                     *)

\* The freshly initialised protocol satisfies the invariant.
LEMMA EscrowInitInv ==
  ASSUME EscrowInit
  PROVE  EscrowInv
<1>1. AccountsInv
  BY SMTT(60) DEF EscrowInit, AccountsInv, DepositsTypeOK, FreshIdentifiers, RangesValid, Open, Active,
         ValidSettings, EscrowConfig, OrchestratorConfig, LifecyclePolicy, DepositIds, IntentIds
<1>2. \A d \in DepositIds : LocksOn(d) = {} /\ LockedOn(d) = [i \in IntentIds |-> 0]
  BY Zenon DEF EscrowInit, LocksOn, LockedOn
<1>3. LedgerInv
  <2>1. BooksTypeOK /\ DepositsBacked
    BY SMTT(60) DEF EscrowInit, BooksTypeOK, DepositsBacked
  <2>2. BooksMatchLocks
    <3>1. Cardinality({}) = 0
      BY FS_EmptySet, Zenon
    <3>2. Sum([i \in IntentIds |-> 0], IntentIds) = 0
      BY SumZero, Zenon
    <3> QED BY <1>2, <3>1, <3>2, Zenon DEF EscrowInit, BooksMatchLocks
  <2> QED BY <2>1, <2>2, Zenon DEF LedgerInv
<1>4. LifecycleInv
  <2>1. IntentsTypeOK /\ IntentsArePaired /\ ExpiryWithinLifetime
    BY SMTT(60) DEF EscrowInit, IntentsTypeOK, IntentsArePaired, ExpiryWithinLifetime, Active
  <2>2. TakerCountsIntents
    <3>1. \A u \in Users : {i \in IntentIds : Active(i) /\ intents[i].owner = u} = {}
      BY Zenon DEF EscrowInit, Active
    <3> QED BY <3>1, FS_EmptySet, Zenon DEF EscrowInit, TakerCountsIntents
  <2>3. BindingsTypeOK /\ PaymentsBindOnce
    BY Zenon DEF EscrowInit, BindingsTypeOK, PaymentsBindOnce
  <2> QED BY <2>1, <2>2, <2>3, ZenonT(60) DEF LifecycleInv
<1> QED
  BY <1>1, <1>3, <1>4, Zenon DEF EscrowInv

\* Every handler preserves it.
LEMMA EscrowNextInv ==
  ASSUME EscrowInv, [EscrowNext]_<<now, escrowVars>>
  PROVE  EscrowInv'
<1>0. Amounts \subseteq Nat /\ Terms \subseteq DepositTerms
  OBVIOUS
<1>1. CASE MakerNext
  BY <1>0, <1>1, CreateDepositInv, SettingsInv, FundsInv, WithdrawDepositInv, SMTT(60) DEF MakerNext
<1>2. CASE GovernanceNext \/ EscrowTick
  BY <1>2, EnvironmentInv, Zenon
<1>3. CASE IntentNext
  <2>1. ASSUME NEW i \in IntentIds, NEW u \in Users, CancelIntent(u, i) PROVE EscrowInv'
    BY <2>1, UnlockInv, Zenon DEF CancelIntent
  <2>2. ASSUME NEW i \in IntentIds, PruneExpiredIntent(i) PROVE EscrowInv'
    BY <2>2, UnlockInv, Zenon DEF PruneExpiredIntent
  <2> QED
    BY <1>0, <1>3, <2>1, <2>2, SignalIntentInv, ManualReleaseInv, ExtendIntentExpiryInv,
       FulfillIntentInv, SMTT(60) DEF IntentNext
<1>4. CASE UNCHANGED <<now, escrowVars>>
  <2>1. AccountsInv'
    BY <1>4, Zenon DEF EscrowInv, AccountsInv, escrowVars, configVars, depositVars, intentVars,
       DepositsTypeOK, FreshIdentifiers, RangesValid, ValidRange, Open, Active
  <2>2. LedgerInv'
    BY <1>4, Zenon DEF EscrowInv, LedgerInv, escrowVars, depositVars, bookVars, intentVars,
       BooksTypeOK, BooksMatchLocks, DepositsBacked, Open, LocksOn, LockedOn
  <2>3. LifecycleInv'
    <3>1. LifecycleInv /\ now \in Int /\ now' = now
      BY <1>4, SMTT(60) DEF EscrowInv, AccountsInv
    <3>2. UNCHANGED <<intentVars, bindingVars>> /\ deposits' = deposits /\ intents' = intents
      BY <1>4, Zenon DEF escrowVars, depositVars, intentVars
    <3>3. \A i \in IntentIds : Active(i) => Open(intents[i].deposit)'
      BY <3>1, <3>2, Zenon DEF LifecycleInv, IntentsArePaired, Open
    <3> QED BY <3>1, <3>2, <3>3, LifecycleStutter, SMTT(60)
  <2> QED BY <2>1, <2>2, <2>3, Zenon DEF EscrowInv
<1> QED
  BY <1>1, <1>2, <1>3, <1>4, Zenon DEF EscrowNext

\* The escrow's books, pairings, counts and bindings are right in every
\* reachable state of handle_initialize_protocol and the handlers of escrow.rs,
\* orchestrator.rs and settlement.rs.
THEOREM EscrowInvariant == EscrowSpec => []EscrowInv
<1>1. EscrowInit => EscrowInv
  BY EscrowInitInv, Zenon
<1>2. EscrowInv /\ [EscrowNext]_<<now, escrowVars>> => EscrowInv'
  BY EscrowNextInv, Zenon
<1> QED
  BY <1>1, <1>2, PTL DEF EscrowSpec

\* The invariant implies that no exit is blocked.
LEMMA ExitsFromInv == EscrowInv => ExitsNeverBlocked
<1> SUFFICES ASSUME EscrowInv PROVE ExitsNeverBlocked
  OBVIOUS
<1>0. LedgerInv /\ LifecycleInv
  BY Zenon DEF EscrowInv
<1>1. \A d \in DepositIds : remaining[d] <= depositVault[d] /\ outstanding[d] <= depositVault[d]
  BY <1>0, SMTT(60) DEF LedgerInv, BooksTypeOK, DepositsBacked
<1>2. ASSUME NEW i \in IntentIds, Active(i)
      PROVE  /\ intentLocks[i].amount <= outstanding[intents[i].deposit]
             /\ intentLocks[i].amount <= depositVault[intents[i].deposit]
             /\ activeIntents[intents[i].deposit] >= 1
             /\ takerActive[intents[i].owner] >= 1
             /\ intentPayment[i] = NoPayment
  <2> DEFINE d == intents[i].deposit
             a == intentLocks[i].amount
  <2>1. d \in DepositIds /\ a \in Nat /\ a <= outstanding[d]
    BY <1>0, <1>2, LiveLockFacts, Zenon
  <2>2. a <= depositVault[d]
    BY <1>0, <1>1, <2>1, SMTT(60) DEF LedgerInv, BooksTypeOK
  <2>3. intentPayment[i] = NoPayment
    BY <1>0, <1>2, Zenon DEF LifecycleInv, PaymentsBindOnce
  <2> QED BY <1>0, <1>2, <2>1, <2>2, <2>3, LiveLockFacts, Zenon
<1> QED
  BY <1>1, <1>2, Zenon DEF ExitsNeverBlocked

\* Cancelling, pruning, fulfilling, releasing and withdrawing never fail on a
\* subtraction, a transfer or an existing payment binding.
THEOREM EscrowExits == EscrowSpec => []ExitsNeverBlocked
BY EscrowInvariant, ExitsFromInv, PTL

\* Vaults cover the available and the locked liquidity of every deposit.
THEOREM EscrowSolvent == EscrowSpec => []DepositsBacked
<1>1. EscrowInv => DepositsBacked
  BY Zenon DEF EscrowInv, LedgerInv
<1> QED
  BY <1>1, EscrowInvariant, PTL

\* The deposit books summarise the live locks exactly.
THEOREM EscrowBooks == EscrowSpec => []BooksMatchLocks
<1>1. EscrowInv => BooksMatchLocks
  BY Zenon DEF EscrowInv, LedgerInv
<1> QED
  BY <1>1, EscrowInvariant, PTL

\* One payment settles one intent, once.
THEOREM EscrowPayments == EscrowSpec => []PaymentsBindOnce
<1>1. EscrowInv => PaymentsBindOnce
  BY Zenon DEF EscrowInv, LifecycleInv
<1> QED
  BY <1>1, EscrowInvariant, PTL

\* Every variable of the escrow keeps its type.
THEOREM EscrowTypes == EscrowSpec => []EscrowTypeOK
<1>1. EscrowInv => EscrowTypeOK
  BY Zenon DEF EscrowInv, AccountsInv, LedgerInv, LifecycleInv, EscrowTypeOK
<1> QED
  BY <1>1, EscrowInvariant, PTL

\* A live intent and its lock agree, and end together.
THEOREM EscrowPairing == EscrowSpec => []IntentsArePaired
<1>1. EscrowInv => IntentsArePaired
  BY Zenon DEF EscrowInv, LifecycleInv
<1> QED
  BY <1>1, EscrowInvariant, PTL

\* A taker's count is exact.
THEOREM EscrowCounts == EscrowSpec => []TakerCountsIntents
<1>1. EscrowInv => TakerCountsIntents
  BY Zenon DEF EscrowInv, LifecycleInv
<1> QED
  BY <1>1, EscrowInvariant, PTL

\* No extension takes a lock beyond the lifetime cap.
THEOREM EscrowExpiry == EscrowSpec => []ExpiryWithinLifetime
<1>1. EscrowInv => ExpiryWithinLifetime
  BY Zenon DEF EscrowInv, LifecycleInv
<1> QED
  BY <1>1, EscrowInvariant, PTL
-----------------------------------------------------------------------------
(* History.                                                                *)

\* What HistoryIsPermanent says of one step.
HistoryStep ==
  /\ \A d \in DepositIds : d < nextDeposit /\ ~Open(d) => deposits'[d] = NoDeposit
  /\ \A i \in IntentIds : i < nextIntent /\ ~Active(i) => intents'[i] = NoIntent
  /\ \A p \in Payments : paymentIntent[p] # NoIntent => paymentIntent'[p] = paymentIntent[p]
  /\ \A i \in IntentIds : intentPayment[i] # NoPayment => intentPayment'[i] = intentPayment[i]

\* No step reopens a closed deposit or intent, or rebinds a payment.
LEMMA HistoryOfStep ==
  ASSUME EscrowInv, [EscrowNext]_<<now, escrowVars>>
  PROVE  HistoryStep
<1>0. /\ DepositsTypeOK /\ IntentsTypeOK /\ BindingsTypeOK
      /\ nextDeposit \in Nat /\ nextIntent \in Nat
  BY SMTT(60) DEF EscrowInv, AccountsInv, LifecycleInv, DepositsTypeOK, IntentsTypeOK
<1>1. ASSUME NEW t \in DepositTerms, NEW retain \in BOOLEAN, NEW m \in Methods, NEW a \in Nat,
             CreateDeposit(t, retain, m, a)
      PROVE  HistoryStep
  BY <1>0, <1>1, SMTT(60) DEF CreateDeposit, HistoryStep, Open, Active, DepositsTypeOK, intentVars,
                    bindingVars
<1>2. ASSUME UNCHANGED <<deposits, intentVars, bindingVars>>
      PROVE  HistoryStep
  BY <1>2, Zenon DEF HistoryStep, Open, Active, intentVars, bindingVars
<1>3. ASSUME NEW u \in Users, NEW d \in DepositIds, WithdrawDeposit(u, d)
      PROVE  HistoryStep
  BY <1>0, <1>3, Zenon DEF WithdrawDeposit, ReturnPrincipal, HistoryStep, Open, Active,
                    DepositsTypeOK, intentVars, bindingVars
<1>4. ASSUME NEW u \in Users, NEW d \in DepositIds, NEW t \in DepositTerms,
             NEW accept \in BOOLEAN, NEW retain \in BOOLEAN,
             UpdateDeposit(u, d, t, accept, retain)
      PROVE  HistoryStep
  BY <1>0, <1>4, Zenon DEF UpdateDeposit, HistoryStep, Open, Active, DepositsTypeOK, intentVars,
                    bindingVars
<1>5. CASE MakerNext
  <2>1. ASSUME NEW d \in DepositIds, NEW a \in Amounts,
               AddFunds(d, a) \/ DonateDeposit(d, a) \/ \E u \in Users : RemoveFunds(u, d, a)
        PROVE  HistoryStep
    BY <1>2, <2>1, Zenon DEF AddFunds, DonateDeposit, RemoveFunds, depositVars
  <2>2. ASSUME NEW u \in Users, NEW d \in DepositIds, NEW m \in Methods, NEW active \in BOOLEAN,
               ConfigurePaymentMethod(u, d, m, active)
        PROVE  HistoryStep
    BY <1>2, <2>2, Zenon DEF ConfigurePaymentMethod
  <2>3. Amounts \subseteq Nat /\ Terms \subseteq DepositTerms
    OBVIOUS
  <2> QED
    BY <1>1, <1>3, <1>4, <1>5, <2>1, <2>2, <2>3, SMTT(60) DEF MakerNext
<1>6. CASE GovernanceNext \/ EscrowTick
  BY <1>2, <1>6, Zenon DEF GovernanceNext, ConfigureEscrow, ConfigureOrchestrator, EscrowTick,
                    escrowVars, depositVars
<1>7. CASE IntentNext
  <2>1. ASSUME NEW t \in Users, NEW d \in DepositIds, NEW m \in Methods, NEW a \in Amounts,
               NEW cover \in BOOLEAN, SignalIntent(t, d, m, a, cover)
        PROVE  HistoryStep
    <3>1. UNCHANGED <<deposits, paymentIntent, intentPayment>>
      BY <2>1, Zenon DEF SignalIntent, depositVars, bindingVars
    <3>2. \A i \in IntentIds : i # nextIntent => intents'[i] = intents[i]
      BY <1>0, <2>1, Zenon DEF SignalIntent, IntentsTypeOK
    <3> QED BY <1>0, <3>1, <3>2, SMTT(60) DEF HistoryStep, Open, Active
  <2>2. ASSUME NEW i \in IntentIds, CloseIntent(i), UNCHANGED <<depositVars, bindingVars>>
        PROVE  HistoryStep
    BY <1>0, <2>2, Zenon DEF CloseIntent, HistoryStep, Open, Active, IntentsTypeOK, depositVars,
                      bindingVars
  <2>3. ASSUME NEW i \in IntentIds, NEW g \in Users, NEW extra \in 1..MaxLifetime,
               ExtendIntentExpiry(g, i, extra)
        PROVE  HistoryStep
    BY <2>3, Zenon DEF ExtendIntentExpiry, HistoryStep, Open, Active, depositVars, bindingVars
  <2>4. ASSUME NEW i \in IntentIds, NEW p \in Payments, NEW attested \in Amounts,
               FulfillIntent(i, p, attested)
        PROVE  HistoryStep
    BY <1>0, <2>4, Zenon DEF FulfillIntent, CloseIntent, HistoryStep, Open, Active, IntentsTypeOK,
                      BindingsTypeOK, depositVars
  <2>5. ASSUME NEW i \in IntentIds, NEW u \in Users,
               CancelIntent(u, i) \/ ManualRelease(u, i)
        PROVE  HistoryStep
    <3>1. CloseIntent(i) /\ UNCHANGED <<depositVars, bindingVars>>
      BY <2>5, Zenon DEF CancelIntent, ManualRelease
    <3> QED BY <2>2, <3>1, Zenon
  <2>6. ASSUME NEW i \in IntentIds, PruneExpiredIntent(i)
        PROVE  HistoryStep
    <3>1. CloseIntent(i) /\ UNCHANGED <<depositVars, bindingVars>>
      BY <2>6, Zenon DEF PruneExpiredIntent
    <3> QED BY <2>2, <3>1, Zenon
  <2> QED
    BY <1>7, <2>1, <2>3, <2>4, <2>5, <2>6, Zenon DEF IntentNext
<1>8. CASE UNCHANGED <<now, escrowVars>>
  BY <1>2, <1>8, Zenon DEF escrowVars, depositVars
<1> QED
  BY <1>5, <1>6, <1>7, <1>8, Zenon DEF EscrowNext

\* Closed deposits and intents stay closed, and payment bindings are permanent.
THEOREM EscrowHistory == EscrowSpec => HistoryIsPermanent
<1>1. EscrowInv /\ [EscrowNext]_<<now, escrowVars>> => [HistoryStep]_<<now, escrowVars>>
  BY HistoryOfStep, Zenon
<1>2. HistoryIsPermanent <=> [][HistoryStep]_<<now, escrowVars>>
  BY PTL DEF HistoryIsPermanent, HistoryStep
<1> QED
  BY <1>1, <1>2, EscrowInvariant, PTL DEF EscrowSpec
-----------------------------------------------------------------------------
(* How liquidity leaves.                                                   *)

\* No handler takes tokens out of an open deposit without reducing what the
\* deposit owes, and closing a deposit sweeps dust at most.
THEOREM EscrowDust == EscrowSpec => OnlyDustIsSwept
<1> DEFINE Step == \A d \in DepositIds : Open(d) => DustStep(d)
<1>1. EscrowInv /\ EscrowInv' /\ [EscrowNext]_<<now, escrowVars>> => [Step]_<<now, escrowVars>>
  BY BooksOfStep, Zenon
<1>2. OnlyDustIsSwept <=> [][Step]_<<now, escrowVars>>
  BY PTL DEF OnlyDustIsSwept, DustStep
<1> HIDE DEF Step
<1> QED
  BY <1>1, <1>2, EscrowInvariant, PTL DEF EscrowSpec

\* Liquidity leaves a deposit to its maker, out of what is not locked, or by the
\* settlement of one of its intents, within that intent's amount.
THEOREM EscrowLiquidity == EscrowSpec => LiquidityLeavesByRequest
<1> DEFINE Step == \A d \in DepositIds : LeavesStep(d)
<1>1. EscrowInv /\ EscrowInv' /\ [EscrowNext]_<<now, escrowVars>> => [Step]_<<now, escrowVars>>
  BY BooksOfStep, Zenon DEF LeavesStep
<1>2. LiquidityLeavesByRequest <=> [][Step]_<<now, escrowVars>>
  BY PTL DEF LiquidityLeavesByRequest, LeavesStep
<1> HIDE DEF Step
<1> QED
  BY <1>1, <1>2, EscrowInvariant, PTL DEF EscrowSpec
-----------------------------------------------------------------------------
(* Facts the compositions use.                                             *)

\* Makers and governance leave the intents alone.
LEMMA IntentsUntouched == MakerNext \/ GovernanceNext => UNCHANGED intentVars
<1>1. ASSUME NEW u, NEW d, NEW t, NEW m, NEW a, NEW accept, NEW retain,
             \/ CreateDeposit(t, retain, m, a) \/ UpdateDeposit(u, d, t, accept, retain)
             \/ AddFunds(d, a) \/ DonateDeposit(d, a) \/ RemoveFunds(u, d, a)
             \/ WithdrawDeposit(u, d) \/ ConfigurePaymentMethod(u, d, m, accept)
      PROVE  UNCHANGED intentVars
  BY <1>1, Zenon DEF CreateDeposit, UpdateDeposit, AddFunds, DonateDeposit, RemoveFunds,
     WithdrawDeposit, ReturnPrincipal, ConfigurePaymentMethod
<1>2. MakerNext => UNCHANGED intentVars
  BY <1>1, Zenon DEF MakerNext
<1>3. GovernanceNext => UNCHANGED intentVars
  BY Zenon DEF GovernanceNext, ConfigureEscrow, ConfigureOrchestrator
<1> QED
  BY <1>2, <1>3, Zenon

\* A new intent carries the next identifier.
LEMMA SignalledFresh ==
  ASSUME LifecycleInv, NEW t, NEW d, NEW m, NEW a, NEW cover, SignalIntent(t, d, m, a, cover)
  PROVE  nextIntent \in IntentIds /\ nextIntent' = nextIntent + 1 /\ nextIntent \in Nat
<1>1. nextIntent \in 0..MaxIntents
  BY Zenon DEF LifecycleInv, IntentsTypeOK
<1>2. nextIntent < MaxIntents /\ nextIntent' = nextIntent + 1
  BY Zenon DEF SignalIntent
<1> QED
  BY <1>1, <1>2, SMTT(60) DEF IntentIds
=============================================================================
