----------------------------- MODULE Deployment -----------------------------
(***************************************************************************)
(* Putting the program on a cluster and initialising it: the script        *)
(* scripts/deploy-latest.sh, the three RPC commands of the deployer it     *)
(* calls (deployment/src/main.rs), the program's own initialisation        *)
(* (instructions.rs), and what may happen on the cluster between two of    *)
(* their requests: another operator's run, a governance change, a new      *)
(* upgrade authority, a transaction that lands after its sender gave up.   *)
(*                                                                         *)
(* A configuration account is the setting an operator supplies for it, and *)
(* `drift`, which counts the changes governance made to its other fields   *)
(* since initialisation left them at their defaults.  Links between the    *)
(* accounts and the mint are written by initialisation alone; the domain   *)
(* seed, written with them, stands for all of these.                       *)
(***************************************************************************)
EXTENDS Integers, Sequences, FiniteSets, Functions

CONSTANTS
  Operators,     \* who runs the script
  Wallet,        \* operator -> the key it deploys with
  NoWallet,      \* None: nobody may upgrade the program any more
  Codes, NoCode, \* program binaries, and no program account
  ReadOrder,     \* the configuration accounts in the order they are read
  Settings,      \* what an operator may supply for an account
  Sound,         \* the settings within the bounds both sides check
  Seeds,         \* hashes the SlotHashes sysvar may show
  Nothing,       \* not read, not taken, not initialised
  MaxChanges,    \* bound on changes by governance and the loader's authority
  MaxFaults,     \* bound on interrupted scripts and lost transactions
  MaxAttempts    \* bound on the runs of one operator

Accounts == Range(ReadOrder)
Plans    == [Accounts -> Settings]
Account  == [setting : Settings, drift : Nat]
Config   == [seed : Seeds, accounts : [Accounts -> Account]]

\* An initialisation transaction; each attempt signs one of its own.
Transaction == [by : Operators, attempt : 1..MaxAttempts, plan : Plans]

ASSUME DeploymentAssumption ==
  /\ Sound \subseteq Settings
  /\ DOMAIN Wallet = Operators
  /\ NoWallet \notin Range(Wallet)
  /\ NoCode \notin Codes
  /\ ReadOrder \in Seq(Accounts) /\ ReadOrder # <<>>
  /\ Nothing \notin Config /\ Nothing \notin Transaction
  /\ MaxChanges \in Nat /\ MaxFaults \in Nat /\ MaxAttempts \in Nat

VARIABLES
  code, upgrader,  \* loader state: the program's binary and its upgrade authority
  config,          \* the configuration accounts, or Nothing
  flight, landed,  \* transactions that may still execute, and the one that did
  run,             \* operator -> its running script
  attempts,        \* operator -> scripts started
  clean,           \* operator -> only its own run wrote to the cluster so far
  receipts,        \* published deployment receipts
  changes, faults

cluster == <<code, upgrader, config, landed>>
deploymentVars ==
  <<cluster, flight, run, attempts, clean, receipts, changes, faults>>

Stages == {"idle", "preflight", "preflightControl", "preflightRoot", "control", "root",
           "send", "read", "check", "dump", "deploy", "finalize"}

\* What a script holds; `seen` is what it has read of the accounts so far.
Idle ==
  [stage |-> "idle", plan |-> Nothing, binary |-> NoCode, mode |-> "verify", sent |-> FALSE,
   seed |-> Nothing, seen |-> <<>>, before |-> Nothing, rollback |-> NoCode]

Snapshot(o) == [a \in Accounts |-> run[o].seen[CHOOSE n \in DOMAIN ReadOrder : ReadOrder[n] = a]]

DeploymentInit ==
  /\ code = NoCode
  /\ upgrader = NoWallet
  /\ config = Nothing
  /\ flight = {} /\ landed = Nothing
  /\ run = [o \in Operators |-> Idle]
  /\ attempts = [o \in Operators |-> 0]
  /\ clean = [o \in Operators |-> TRUE]
  /\ receipts = {}
  /\ changes = 0
  /\ faults = 0

At(o, stage) == run[o].stage = stage
Go(o, stage) == run' = [run EXCEPT ![o].stage = stage]

\* A failed check, an RPC error or an interrupt: `set -e` ends the script.
Stop(o) == run' = [run EXCEPT ![o] = Idle]

\* The cluster was written to by someone other than the run of operator o.
DirtyExcept(o) == clean' = [p \in Operators |-> clean[p] /\ p = o]
DirtyAll       == clean' = [p \in Operators |-> FALSE]
-----------------------------------------------------------------------------
(* The program's own initialisation.                                       *)

\* Both the deployer and the handler refuse settings out of bounds.
Bounded(plan) == \A a \in Accounts : plan[a] \in Sound

\* Mutant: the accounts are created only if needed, so a second call resets them.
InitializeProtocolAgain(t, seed) ==
  /\ Wallet[t.by] = upgrader
  /\ code # NoCode
  /\ Bounded(t.plan)
  /\ config' = [seed |-> seed,
                accounts |-> [a \in Accounts |-> [setting |-> t.plan[a], drift |-> 0]]]

\* handle_initialize_protocol: every account is `init`, so it must not exist.
InitializeProtocol(t, seed) ==
  /\ Wallet[t.by] = upgrader
  /\ code # NoCode
  /\ config = Nothing
  /\ Bounded(t.plan)
  /\ config' = [seed |-> seed,
                accounts |-> [a \in Accounts |-> [setting |-> t.plan[a], drift |-> 0]]]

\* A transaction in flight executes, whether or not its sender still waits.
Land(t) ==
  /\ t \in flight
  /\ flight' = flight \ {t}
  /\ \E seed \in Seeds : InitializeProtocol(t, seed)
  /\ landed' = t
  /\ IF ~At(t.by, "idle") /\ attempts[t.by] = t.attempt THEN DirtyExcept(t.by) ELSE DirtyAll
  /\ UNCHANGED <<code, upgrader, run, attempts, receipts, changes, faults>>

\* The program rejects it: initialised already, or not by its authority.
Reject(t) ==
  /\ t \in flight
  /\ config # Nothing \/ Wallet[t.by] # upgrader
  /\ flight' = flight \ {t}
  /\ UNCHANGED <<cluster, run, attempts, clean, receipts, changes, faults>>

\* It is lost, or its blockhash grows too old.
Lose(t) ==
  /\ t \in flight
  /\ faults < MaxFaults
  /\ flight' = flight \ {t}
  /\ faults' = faults + 1
  /\ UNCHANGED <<cluster, run, attempts, clean, receipts, changes>>
-----------------------------------------------------------------------------
(* The rest of the cluster.                                                *)

\* An account after a change to the field an operator supplies a setting for
\* or, when that field keeps its value, to another.
Changed(account, s) ==
  IF account.setting = s THEN [account EXCEPT !.drift = account.drift + 1]
                         ELSE [account EXCEPT !.setting = s]

\* A governance handler changes one account.
Configure(a, s) ==
  /\ config # Nothing
  /\ changes < MaxChanges
  /\ s \in Sound
  /\ config' = [config EXCEPT !.accounts[a] = Changed(@, s)]
  /\ changes' = changes + 1
  /\ DirtyAll
  /\ UNCHANGED <<code, upgrader, landed, flight, run, attempts, receipts, faults>>

\* The upgrade authority hands the program to another key, or freezes it.
SetUpgradeAuthority(k) ==
  /\ code # NoCode
  /\ upgrader \notin {k, NoWallet}
  /\ changes < MaxChanges
  /\ upgrader' = k
  /\ changes' = changes + 1
  /\ DirtyAll
  /\ UNCHANGED <<code, config, landed, flight, run, attempts, receipts, faults>>

ClusterNext ==
  \/ \E t \in flight : Land(t) \/ Reject(t) \/ Lose(t)
  \/ \E a \in Accounts, s \in Settings : Configure(a, s)
  \/ \E k \in Range(Wallet) \cup {NoWallet} : SetUpgradeAuthority(k)
-----------------------------------------------------------------------------
(* The script, from the plan to the deployment.                            *)

\* `plan` checks what was supplied before anything is asked of the cluster.
Start(o, plan, binary) ==
  /\ At(o, "idle")
  /\ attempts[o] < MaxAttempts
  /\ Bounded(plan)
  /\ run' = [run EXCEPT ![o] = [Idle EXCEPT !.stage = "preflight", !.plan = plan,
                                            !.binary = binary]]
  /\ attempts' = [attempts EXCEPT ![o] = @ + 1]
  /\ clean' = [clean EXCEPT ![o] = TRUE]
  /\ UNCHANGED <<cluster, flight, receipts, changes, faults>>

\* run_preflight finds no program: this is a first deployment.
PreflightProgram(o) ==
  /\ At(o, "preflight")
  /\ Go(o, IF code = NoCode THEN "deploy" ELSE "preflightControl")

PreflightControl(o) ==
  /\ At(o, "preflightControl")
  /\ upgrader = Wallet[o]
  /\ Go(o, "preflightRoot")

\* An initialised protocol is verified before its code is touched; a program
\* left without one is deployed again and its initialisation resumed.
PreflightRoot(o) ==
  /\ At(o, "preflightRoot")
  /\ Go(o, IF config = Nothing THEN "deploy" ELSE "control")

\* Mutant: the executable is dumped only when something went wrong.
DumpNothing(o) ==
  /\ At(o, "dump")
  /\ Go(o, "deploy")

\* The rollback artifact: the executable about to be replaced.
Dump(o) ==
  /\ At(o, "dump")
  /\ run' = [run EXCEPT ![o].stage = "deploy", ![o].rollback = code]

\* `solana program deploy`: a new program belongs to the wallet, an existing
\* one is upgraded if the wallet is its authority.  `apply` follows.
Deploy(o) ==
  /\ At(o, "deploy")
  /\ code = NoCode \/ upgrader = Wallet[o]
  /\ code' = run[o].binary
  /\ upgrader' = Wallet[o]
  /\ run' = [run EXCEPT ![o].stage = "control", ![o].mode = "apply", ![o].seen = <<>>]
  /\ DirtyExcept(o)
  /\ UNCHANGED <<config, landed, flight, attempts, receipts, changes, faults>>
-----------------------------------------------------------------------------
(* run_rpc, for `verify` before an upgrade and for `apply` after one.      *)

Control(o) ==
  /\ At(o, "control")
  /\ code # NoCode
  /\ upgrader = Wallet[o]
  /\ Go(o, "root")

Root(o) ==
  /\ At(o, "root")
  /\ run[o].mode = "apply" \/ config # Nothing
  /\ Go(o, IF config = Nothing THEN "send" ELSE "read")

Sent(o) == [by |-> o, attempt |-> attempts[o], plan |-> run[o].plan]

\* The transaction is sent once; the script then waits to see it confirmed.
Send(o) ==
  /\ At(o, "send")
  /\ ~run[o].sent
  /\ flight' = flight \cup {Sent(o)}
  /\ run' = [run EXCEPT ![o].sent = TRUE]
  /\ UNCHANGED <<cluster, attempts, clean, receipts, changes, faults>>

Confirm(o) ==
  /\ At(o, "send")
  /\ run[o].sent
  /\ landed = Sent(o)
  /\ Go(o, "read")

\* One RPC request per account; the first also shows the domain seed.
ReadAccount(o) ==
  LET n == Len(run[o].seen) + 1 IN
  /\ At(o, "read")
  /\ run' = [run EXCEPT
       ![o].seen = Append(@, config.accounts[ReadOrder[n]]),
       ![o].seed = IF n = 1 THEN config.seed ELSE @,
       ![o].stage = IF n = Len(ReadOrder) THEN "check" ELSE "read"]

\* Mutant: what an earlier run initialised is held to its defaults too.
ChecksDefaults(o) ==
  /\ \A a \in Accounts : Snapshot(o)[a].setting = run[o].plan[a]
  /\ \A a \in Accounts : Snapshot(o)[a].drift = 0

\* Every supplied setting is the one read; after its own initialisation the
\* script also expects every default.
Checks(o) ==
  /\ \A a \in Accounts : Snapshot(o)[a].setting = run[o].plan[a]
  /\ run[o].sent => \A a \in Accounts : Snapshot(o)[a].drift = 0

\* Mutant: an initialised protocol is verified and not deployed to.
CheckPublishes(o) ==
  /\ At(o, "check")
  /\ Checks(o)
  /\ Go(o, "finalize")

\* Verified: before an upgrade the fingerprint is kept, otherwise what is
\* left is to publish the receipt.
Check(o) ==
  /\ At(o, "check")
  /\ Checks(o)
  /\ run' = IF run[o].mode = "verify"
            THEN [run EXCEPT ![o].before = Snapshot(o), ![o].stage = "dump"]
            ELSE [run EXCEPT ![o].stage = "finalize"]
-----------------------------------------------------------------------------
(* The end of the script.                                                  *)

Receipt(o) ==
  [by |-> o, attempt |-> attempts[o], initialized |-> run[o].sent, seed |-> run[o].seed,
   accounts |-> Snapshot(o), code |-> run[o].binary, rollback |-> run[o].rollback]

\* finalize_deployment_receipt: an upgrade must not have changed the
\* configuration; the receipt is linked at a path that must be new.
Finalize(o) ==
  /\ At(o, "finalize")
  /\ run[o].before \in {Nothing, Snapshot(o)}
  /\ receipts' = receipts \cup {Receipt(o)}
  /\ Stop(o)
  /\ UNCHANGED <<cluster, flight, attempts, clean, changes, faults>>

\* The transaction a script waits for will not be confirmed.
Unconfirmed(o) == run[o].sent /\ Sent(o) \notin flight /\ landed # Sent(o)

\* A check fails: `set -e` ends the script.
Refuse(o) ==
  /\ \/ At(o, "preflightControl") /\ upgrader # Wallet[o]
     \/ At(o, "deploy") /\ code # NoCode /\ upgrader # Wallet[o]
     \/ At(o, "control") /\ upgrader # Wallet[o]
     \/ At(o, "send") /\ Unconfirmed(o)
     \/ At(o, "check") /\ ~Checks(o)
     \/ At(o, "finalize") /\ run[o].before \notin {Nothing, Snapshot(o)}
  /\ Stop(o)

\* A request fails, the wait times out, or the operator ends the script.
Interrupt(o) ==
  /\ ~At(o, "idle")
  /\ faults < MaxFaults
  /\ faults' = faults + 1
  /\ Stop(o)
  /\ UNCHANGED <<cluster, flight, attempts, clean, receipts, changes>>

\* The steps that only read the cluster.
Reading(o) ==
  \/ PreflightProgram(o) \/ PreflightControl(o) \/ PreflightRoot(o)
  \/ Dump(o) \/ Control(o) \/ Root(o) \/ Confirm(o) \/ ReadAccount(o) \/ Check(o)
  \/ Refuse(o)

Progress(o) ==
  \/ \E plan \in Plans, binary \in Codes : Start(o, plan, binary)
  \/ Reading(o) /\ UNCHANGED <<cluster, flight, attempts, clean, receipts, changes, faults>>
  \/ Deploy(o) \/ Send(o) \/ Finalize(o)

ScriptNext == \E o \in Operators : Progress(o) \/ Interrupt(o)

DeploymentNext == ClusterNext \/ ScriptNext

DeploymentSpec == DeploymentInit /\ [][DeploymentNext]_deploymentVars

\* A script runs on and is run again after it stopped; the cluster decides
\* about every transaction it was sent.
FairDeploymentSpec ==
  /\ DeploymentSpec
  /\ \A o \in Operators : WF_deploymentVars(Progress(o))
  /\ WF_deploymentVars(\E t \in flight : Land(t) \/ Reject(t))
-----------------------------------------------------------------------------
(* Properties.                                                             *)

\* However scripts race, are interrupted and are run again, and however late
\* their transactions land, the protocol is initialised once: every receipt
\* shows the domain the cluster has, and the one that names an initialisation
\* signature is of the run whose transaction did it (`init` in
\* InitializeProtocol; initialization_signature in run_rpc).
ReceiptsAgree ==
  \A r \in receipts :
    /\ config # Nothing
    /\ r.seed = config.seed
    /\ r.initialized => landed.by = r.by /\ landed.attempt = r.attempt

\* A receipt is put together from separate requests; when nobody else wrote
\* to the cluster since the script began, it shows the configuration and the
\* program that are there when it is published.
QuietReceiptsTrue ==
  [][\A r \in receipts' \ receipts :
       clean[r.by] => r.accounts = config.accounts /\ r.code = code]_deploymentVars

\* When a script replaces the code of an initialised protocol that nobody else
\* touched since it began, it holds the executable it replaces and the
\* configuration it has to find again.
UpgradesBackedUp ==
  [][\A o \in Operators :
       (At(o, "deploy") /\ run'[o].stage = "control" /\ clean[o] /\ config # Nothing)
         => run[o].rollback = code /\ run[o].before = config.accounts]_deploymentVars

\* An operator who runs the script again after it stopped ends up with a
\* receipt, at whatever step it stopped and although governance changed a
\* default in between, unless the upgrade authority is taken away.
DeploymentCompletes ==
  \A o \in Operators :
    <>((\E r \in receipts : r.by = o) \/ (code # NoCode /\ upgrader # Wallet[o]))
=============================================================================
