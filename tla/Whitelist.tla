----------------------------- MODULE Whitelist ------------------------------
(***************************************************************************)
(* Address groups, deposit whitelists and the admission of a taker to a    *)
(* deposit (instructions/whitelist.rs, validate_lifecycle_admission and    *)
(* what it calls in orchestrator.rs).                                      *)
(*                                                                         *)
(* The accounts that prove or refute membership are optional in the signal *)
(* instruction; the taker chooses which to pass.  Admission is therefore a *)
(* function of the accounts on chain and of the evidence the taker passes. *)
(***************************************************************************)
EXTENDS Integers, FiniteSets

CONSTANTS
  Users, NoOne,
  Deposits,     \* open deposits
  Keepers,      \* <<deposit, user>>: the depositor and the delegate
  MaxGroups,    \* bound on the groups a model creates
  MaxAllowed,   \* MAX_GROUPS_PER_DEPOSIT
  Resolvers, NoResolver,             \* resolver programs
  NoGroup, NoWhitelist, NoWindow     \* PDAs that do not exist

GroupIds == 0..(MaxGroups - 1)

AddressGroup == [curator : Users, pending : Users \cup {NoOne}, public : BOOLEAN,
                 resolver : Resolvers \cup {NoResolver}]
DepositWhitelist == [enabled : BOOLEAN, allowed : SUBSET GroupIds]

ASSUME WhitelistAssumption ==
  /\ NoOne \notin Users
  /\ Keepers \subseteq Deposits \X Users
  /\ MaxGroups \in Nat
  /\ MaxAllowed \in Nat
  /\ NoResolver \notin Resolvers
  /\ NoGroup \notin AddressGroup \cup GroupIds
  /\ NoWhitelist \notin DepositWhitelist
  /\ NoWindow \notin Nat

VARIABLES
  groups,      \* AddressGroup PDAs
  nextGroup,   \* whitelist_config.next_group_id
  members,     \* active GroupMember PDAs: <<group, user>>
  whitelists,  \* DepositWhitelist PDAs
  direct,      \* active DepositWhitelistMember PDAs: <<deposit, user>>
  approves     \* <<resolver, group, user>>: the resolver would answer yes

groupVars     == <<groups, nextGroup, members>>
depositVars   == <<whitelists, direct>>
whitelistVars == <<groupVars, depositVars, approves>>

\* Every variable has its type, no policy allows more groups than its cap, and
\* no curator is waiting to succeed themselves.
WhitelistTypeOK ==
  /\ groups \in [GroupIds -> AddressGroup \cup {NoGroup}]
  /\ nextGroup \in 0..MaxGroups
  /\ members \subseteq GroupIds \X Users
  /\ whitelists \in [Deposits -> DepositWhitelist \cup {NoWhitelist}]
  /\ direct \subseteq Deposits \X Users
  /\ approves \subseteq Resolvers \X GroupIds \X Users
  /\ \A d \in Deposits : whitelists[d] # NoWhitelist =>
       Cardinality(whitelists[d].allowed) <= MaxAllowed
  /\ \A g \in GroupIds : groups[g] # NoGroup => groups[g].pending # groups[g].curator

WhitelistInit ==
  /\ groups = [g \in GroupIds |-> NoGroup]
  /\ nextGroup = 0
  /\ members = {}
  /\ whitelists = [d \in Deposits |-> NoWhitelist]
  /\ direct = {}
  /\ approves = {}
-----------------------------------------------------------------------------
(* Groups.                                                                 *)

With(S, x, flag) == IF flag THEN S \cup {x} ELSE S \ {x}
Exists(g) == groups[g] # NoGroup

CreateAddressGroup(u, public) ==
  /\ nextGroup < MaxGroups
  /\ groups' = [groups EXCEPT ![nextGroup] =
       [curator |-> u, pending |-> NoOne, public |-> public, resolver |-> NoResolver]]
  /\ nextGroup' = nextGroup + 1
  /\ UNCHANGED <<members, depositVars, approves>>

\* Each field may be left alone; `pending` and `resolver` are the values after
\* the call, None included.
ConfigureAddressGroup(u, g, public, resolver, pending) ==
  /\ Exists(g)
  /\ u = groups[g].curator
  /\ pending # groups[g].pending => pending # groups[g].curator
  /\ groups' = [groups EXCEPT ![g] =
       [@ EXCEPT !.public = public, !.resolver = resolver, !.pending = pending]]
  /\ UNCHANGED <<nextGroup, members, depositVars, approves>>

\* Mutant: the proposal survives its acceptance.
AcceptGroupCuratorKeeping(u, g) ==
  /\ Exists(g)
  /\ u = groups[g].pending
  /\ groups' = [groups EXCEPT ![g].curator = u]
  /\ UNCHANGED <<nextGroup, members, depositVars, approves>>

AcceptGroupCurator(u, g) ==
  /\ Exists(g)
  /\ u = groups[g].pending
  /\ groups' = [groups EXCEPT ![g] = [@ EXCEPT !.curator = u, !.pending = NoOne]]
  /\ UNCHANGED <<nextGroup, members, depositVars, approves>>

SetGroupMember(u, g, v, active) ==
  /\ Exists(g)
  /\ u = groups[g].curator
  /\ members' = With(members, <<g, v>>, active)
  /\ UNCHANGED <<groups, nextGroup, depositVars, approves>>

SetSelfGroupMember(v, g, active) ==
  /\ Exists(g)
  /\ groups[g].public
  /\ members' = With(members, <<g, v>>, active)
  /\ UNCHANGED <<groups, nextGroup, depositVars, approves>>

\* A resolver is another program: what it answers may change at any time.  A
\* call that fails or returns anything but [1] counts as no.
ResolverChanges(r, g, v, yes) ==
  /\ approves' = With(approves, <<r, g, v>>, yes)
  /\ UNCHANGED <<groupVars, depositVars>>
-----------------------------------------------------------------------------
(* Deposit whitelists.                                                     *)

InitializeDepositWhitelist(u, d, enabled) ==
  /\ <<d, u>> \in Keepers
  /\ whitelists[d] = NoWhitelist
  /\ whitelists' = [whitelists EXCEPT ![d] = [enabled |-> enabled, allowed |-> {}]]
  /\ UNCHANGED <<groupVars, direct, approves>>

SetWhitelistEnabled(u, d, enabled) ==
  /\ <<d, u>> \in Keepers
  /\ whitelists[d] # NoWhitelist
  /\ whitelists' = [whitelists EXCEPT ![d].enabled = enabled]
  /\ UNCHANGED <<groupVars, direct, approves>>

SetDepositAllowedGroup(u, d, g, allowed) ==
  /\ <<d, u>> \in Keepers
  /\ whitelists[d] # NoWhitelist
  /\ Exists(g)
  /\ allowed <=> g \notin whitelists[d].allowed
  /\ allowed => Cardinality(whitelists[d].allowed) < MaxAllowed
  /\ whitelists' = [whitelists EXCEPT ![d].allowed = With(@, g, allowed)]
  /\ UNCHANGED <<groupVars, direct, approves>>

SetDepositWhitelistMember(u, d, v, active) ==
  /\ <<d, u>> \in Keepers
  /\ whitelists[d] # NoWhitelist
  /\ direct' = With(direct, <<d, v>>, active)
  /\ UNCHANGED <<groupVars, whitelists, approves>>
-----------------------------------------------------------------------------
(* Admission.                                                              *)

\* The optional accounts of a signal on deposit `d`: the policy, a direct
\* membership, a group with a membership or a resolver, and the three accounts
\* of the dispute half.  An account can be passed only if it exists.
If(exists) == IF exists THEN BOOLEAN ELSE {FALSE}
EvidenceFor(d, setting, window) ==
  [whitelist : If(whitelists[d] # NoWhitelist), direct : BOOLEAN,
   group : {g \in GroupIds : Exists(g)} \cup {NoGroup}, member : BOOLEAN,
   resolver : Resolvers \cup {NoResolver},
   setting : If(setting # "absent"), risk : If(window # NoWindow), dispute : BOOLEAN]

NoGroupEvidence(e) == e.group = NoGroup /\ ~e.member /\ e.resolver = NoResolver
NoWhitelistEvidence(e) == ~e.direct /\ NoGroupEvidence(e)
NoDisputeEvidence(e) == ~e.setting /\ ~e.risk /\ ~e.dispute

\* resolver_says_yes
ResolverSaysYes(t, e) ==
  LET r == groups[e.group].resolver IN
  CASE r = NoResolver -> IF e.resolver = NoResolver THEN "no" ELSE "refused"
    [] r # NoResolver /\ e.resolver # r -> "refused"
    [] r # NoResolver /\ e.resolver = r -> IF <<r, e.group, t>> \in approves THEN "yes" ELSE "no"

\* Mutant: membership counts in any group, allowed or not.
WhitelistAllowsAnyGroup(t, d, e) ==
  CASE e.direct /\ <<d, t>> \in direct -> IF NoGroupEvidence(e) THEN "yes" ELSE "refused"
    [] ~(e.direct /\ <<d, t>> \in direct) /\ e.group = NoGroup ->
         IF NoGroupEvidence(e) THEN "no" ELSE "refused"
    [] ~(e.direct /\ <<d, t>> \in direct) /\ e.group # NoGroup ->
         IF e.member /\ <<e.group, t>> \in members
         THEN IF e.resolver = NoResolver THEN "yes" ELSE "refused"
         ELSE ResolverSaysYes(t, e)

\* whitelist_allows
WhitelistAllows(t, d, e) ==
  LET isDirect == e.direct /\ <<d, t>> \in direct
      curated == e.member /\ <<e.group, t>> \in members
  IN CASE isDirect -> IF NoGroupEvidence(e) THEN "yes" ELSE "refused"
       [] ~isDirect /\ e.group = NoGroup -> IF NoGroupEvidence(e) THEN "no" ELSE "refused"
       [] ~isDirect /\ e.group # NoGroup ->
            CASE e.group \notin whitelists[d].allowed -> "no"
              [] e.group \in whitelists[d].allowed /\ curated ->
                   IF e.resolver = NoResolver THEN "yes" ELSE "refused"
              [] e.group \in whitelists[d].allowed /\ ~curated -> ResolverSaysYes(t, e)

\* Mutant: a window of zero still asks for collateral.
DisputeAdmissionAlways(window, e) ==
  IF e.risk /\ e.dispute THEN "collateral" ELSE "refused"

\* validate_dispute_admission: `collateral` stands for a prepared dispute intent
\* that matches the signal, which module Protocol requires and checks.
DisputeAdmission(window, e) ==
  CASE ~e.risk -> "refused"
    [] e.risk /\ window = 0 -> IF e.dispute THEN "refused" ELSE "open"
    [] e.risk /\ window # 0 -> IF e.dispute THEN "collateral" ELSE "refused"

\* validate_lifecycle_admission, for a deposit whose dispute setting is
\* `setting` and a payment method with risk window `window`.
Admission(policy, setting, window, t, d, e) ==
  LET enabled == e.whitelist /\ whitelists[d].enabled
      allows == IF enabled THEN WhitelistAllows(t, d, e)
                ELSE IF NoWhitelistEvidence(e) THEN "no" ELSE "refused"
      openIf(condition) == IF condition THEN "open" ELSE "refused"
  IN CASE policy = "None" ->
            openIf(~e.whitelist /\ NoWhitelistEvidence(e) /\ NoDisputeEvidence(e))
       [] policy = "Whitelist" ->
            openIf(allows # "refused" /\ (~enabled \/ allows = "yes") /\ NoDisputeEvidence(e))
       [] policy = "WhitelistAndDispute" ->
            CASE allows = "refused" -> "refused"
              [] allows = "yes" -> openIf(NoDisputeEvidence(e))
              [] allows = "no" /\ e.setting /\ setting = "disabled" ->
                   openIf(~e.dispute /\ ~e.risk /\ ~enabled)
              [] allows = "no" /\ ~(e.setting /\ setting = "disabled") ->
                   DisputeAdmission(window, e)
-----------------------------------------------------------------------------
GroupNext ==
  \E u \in Users :
    \/ \E public \in BOOLEAN : CreateAddressGroup(u, public)
    \/ \E g \in GroupIds :
         \/ \E public \in BOOLEAN, r \in Resolvers \cup {NoResolver}, v \in Users \cup {NoOne} :
              ConfigureAddressGroup(u, g, public, r, v)
         \/ AcceptGroupCurator(u, g)
         \/ \E v \in Users, active \in BOOLEAN : SetGroupMember(u, g, v, active)
         \/ \E active \in BOOLEAN : SetSelfGroupMember(u, g, active)

PolicyNext ==
  \E u \in Users, d \in Deposits :
    \/ \E enabled \in BOOLEAN :
         InitializeDepositWhitelist(u, d, enabled) \/ SetWhitelistEnabled(u, d, enabled)
    \/ \E g \in GroupIds, allowed \in BOOLEAN : SetDepositAllowedGroup(u, d, g, allowed)
    \/ \E v \in Users, active \in BOOLEAN : SetDepositWhitelistMember(u, d, v, active)

ResolverNext ==
  \E r \in Resolvers, g \in GroupIds, v \in Users, yes \in BOOLEAN : ResolverChanges(r, g, v, yes)

WhitelistNext == GroupNext \/ PolicyNext \/ ResolverNext

WhitelistSpec == WhitelistInit /\ [][WhitelistNext]_whitelistVars
-----------------------------------------------------------------------------
(* Correctness of admission.                                               *)

\* Membership in a group now: explicit, or by its current resolver.
InGroup(t, g) ==
  <<g, t>> \in members \/ <<groups[g].resolver, g, t>> \in approves

Whitelisted(t, d) ==
  /\ whitelists[d] # NoWhitelist
  /\ <<d, t>> \in direct \/ \E g \in whitelists[d].allowed : InGroup(t, g)

DisputeSettings == {"absent", "enabled", "disabled"}
Windows == {NoWindow, 0, 1}

\* A policy allows only groups that exist: it can name a group only through the
\* group's account, and no handler closes one.
AllowedGroupsExist ==
  \A d \in Deposits : whitelists[d] # NoWhitelist =>
    \A g \in whitelists[d].allowed : Exists(g)

\* The inductive invariant of the whitelist.  A taker proves a membership by
\* passing the group's account, so an allowed group without one would shut its
\* members out.
WhitelistInv == WhitelistTypeOK /\ AllowedGroupsExist

\* With the policy account of an enabled whitelist, a taker is admitted as
\* whitelisted exactly when a member: some evidence proves every membership,
\* whichever way it came about, and no evidence proves another.
SuppliedWhitelistExact ==
  \A d \in Deposits, t \in Users :
    whitelists[d] # NoWhitelist /\ whitelists[d].enabled =>
      ((\E e \in EvidenceFor(d, "absent", NoWindow) :
          e.whitelist /\ Admission("Whitelist", "absent", NoWindow, t, d, e) = "open")
         <=> Whitelisted(t, d))

\* What the optional accounts leave to the taker under a dispute policy: a
\* taker can enter without collateral exactly when whitelisted on an enabled
\* whitelist, when the deposit opted out of disputes or when the method has a
\* zero risk window, and with collateral exactly when the method has a risk
\* window.  Module Protocol admits intents by this rule.
AdmissionExact ==
  \A d \in Deposits, t \in Users, setting \in DisputeSettings, w \in Windows :
    LET possible(outcome) ==
          \E e \in EvidenceFor(d, setting, w) :
            Admission("WhitelistAndDispute", setting, w, t, d, e) = outcome
    IN /\ possible("open") <=>
            \/ Whitelisted(t, d) /\ whitelists[d].enabled
            \/ setting = "disabled"
            \/ w = 0
       /\ possible("collateral") <=> w = 1
=============================================================================
