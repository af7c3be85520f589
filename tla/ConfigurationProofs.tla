------------------------ MODULE ConfigurationProofs -------------------------
(***************************************************************************)
(* What configuration is worth: a deployment's, by its receipts and its    *)
(* backups, and a deposit's whitelist, by whom it admits.                  *)
(*                                                                         *)
(* Deployment holds for any number of operators, accounts, codes and       *)
(* attempts.  The argument is about one script at a time: what it holds is *)
(* a record, and the predicates below relate that record to the cluster.   *)
(*                                                                         *)
(* Admission holds for any number of groups, members, resolvers and        *)
(* deposits: the invariant says that what a policy allows exists, and the  *)
(* evidence a taker may pass is then examined case by case.                *)
(***************************************************************************)
EXTENDS Deployment, Whitelist, FiniteSetTheorems, TLAPS


Script ==
  [stage : Stages, plan : Plans \cup {Nothing}, binary : Codes \cup {NoCode},
   mode : {"verify", "apply"}, sent : BOOLEAN, seed : Seeds \cup {Nothing},
   seen : Seq(Account), before : [Accounts -> Account] \cup {Nothing},
   rollback : Codes \cup {NoCode}]

\* The stages at which a script knows that the protocol is initialised.
Seeing == {"read", "check", "finalize"}

\* How far a script is decides what it holds: it has sent a transaction only
\* while applying, and has read one account after the other.
Ordered(r) ==
  /\ r \in Script
  /\ r.stage # "idle" => r.binary \in Codes /\ r.plan \in Plans
  /\ r.sent => r.mode = "apply" /\ r.stage \in {"send"} \cup Seeing
  /\ r.stage \in {"send", "finalize"} => r.mode = "apply"
  /\ r.stage \in {"preflight", "preflightControl", "preflightRoot", "control", "root", "send"}
       => r.seen = <<>>
  /\ r.stage = "read" => Len(r.seen) < Len(ReadOrder)
  /\ r.stage \in {"check", "finalize"} => Len(r.seen) = Len(ReadOrder)

\* What a script concluded about the cluster and no later change undoes.
Informed(r, cfg, lnd, tx) ==
  /\ r.stage \in Seeing \cup {"dump"} => cfg # Nothing
  /\ r.stage \in Seeing /\ r.seen # <<>> => r.seed = cfg.seed
  /\ r.stage \in Seeing /\ r.sent => lnd = tx

\* What it read is still so, if nobody else wrote to the cluster.
Current(r, cfg, c) ==
  /\ r.stage \in Seeing => \A n \in 1..Len(r.seen) : r.seen[n] = cfg.accounts[ReadOrder[n]]
  /\ r.stage \in {"dump", "deploy"} /\ cfg # Nothing => r.before = cfg.accounts
  /\ r.stage = "deploy" /\ cfg # Nothing => r.rollback = c
  /\ r.stage # "idle" /\ r.mode = "apply" => r.binary = c

ClusterOK ==
  /\ code \in Codes \cup {NoCode}
  /\ config \in Config \cup {Nothing}
  /\ config # Nothing => code # NoCode
  /\ landed # Nothing => config # Nothing
  /\ attempts \in [Operators -> 0..MaxAttempts]
  /\ clean \in [Operators -> BOOLEAN]
  /\ DOMAIN run = Operators

\* A transaction in flight is of an earlier attempt, or of one that has ended,
\* or of a script that knows it sent one.
FlightOK ==
  \A t \in flight :
    /\ t.by \in Operators /\ t.attempt \in Nat
    /\ t.attempt <= attempts[t.by]
    /\ t.attempt = attempts[t.by] => At(t.by, "idle") \/ run[t.by].sent

ScriptsOK ==
  \A o \in Operators :
    /\ Ordered(run[o])
    /\ At(o, "idle") \/ attempts[o] # 0
    /\ Informed(run[o], config, landed, Sent(o))
    /\ clean[o] => Current(run[o], config, code)

\* The inductive invariant.
DeploymentInv == ClusterOK /\ FlightOK /\ ScriptsOK /\ ReceiptsAgree
-----------------------------------------------------------------------------
(* One script.                                                             *)

\* A script that is not running holds nothing, so it is in order on any cluster.
LEMMA IdleScript ==
  /\ Ordered(Idle) /\ Idle.stage = "idle" /\ Idle.sent = FALSE
  /\ \A cfg, lnd, tx : Informed(Idle, cfg, lnd, tx)
  /\ \A cfg, c : Current(Idle, cfg, c)
<1>1. Idle \in Script
  BY SMTT(60) DEF Idle, Script, Stages
<1>2. /\ Idle.stage = "idle" /\ Idle.sent = FALSE /\ Idle.mode = "verify"
  BY Zenon DEF Idle
<1> QED
  BY <1>1, <1>2, Zenon DEF Ordered, Informed, Current, Seeing

\* Moving a script to another stage changes its stage and no other field.
LEMMA SetStage ==
  ASSUME NEW r \in Script, NEW s \in Stages
  PROVE  LET q == [r EXCEPT !.stage = s] IN
         /\ q \in Script /\ q.stage = s /\ q.plan = r.plan /\ q.binary = r.binary
         /\ q.mode = r.mode /\ q.sent = r.sent /\ q.seed = r.seed /\ q.seen = r.seen
         /\ q.before = r.before /\ q.rollback = r.rollback
BY Zenon DEF Script

\* What a script holds when it has read one more account.
OneMore(r, cfg) ==
  LET n == Len(r.seen) + 1 IN
  [r EXCEPT !.seen = Append(@, cfg.accounts[ReadOrder[n]]),
            !.seed = IF n = 1 THEN cfg.seed ELSE @,
            !.stage = IF n = Len(ReadOrder) THEN "check" ELSE "read"]

\* Reading one more account keeps a script in order, and a current one current.
LEMMA ReadOn ==
  ASSUME NEW r, NEW cfg \in Config, NEW lnd, NEW tx, NEW c,
         Ordered(r), Informed(r, cfg, lnd, tx), r.stage = "read"
  PROVE  /\ Ordered(OneMore(r, cfg)) /\ Informed(OneMore(r, cfg), cfg, lnd, tx)
         /\ OneMore(r, cfg).plan = r.plan /\ OneMore(r, cfg).sent = r.sent
         /\ Current(r, cfg, c) => Current(OneMore(r, cfg), cfg, c)
<1> DEFINE n == Len(r.seen) + 1
           q == OneMore(r, cfg)
           x == cfg.accounts[ReadOrder[n]]
           sd == IF n = 1 THEN cfg.seed ELSE r.seed
           st == IF n = Len(ReadOrder) THEN "check" ELSE "read"
<1>1. r \in Script /\ r.seen \in Seq(Account) /\ Len(r.seen) \in Nat
  BY SMTT(60) DEF Ordered, Script
<1>2. Len(ReadOrder) \in Nat /\ Len(r.seen) < Len(ReadOrder)
  BY DeploymentAssumption, SMTT(60) DEF Ordered
<1>3. n \in 1..Len(ReadOrder)
  BY <1>1, <1>2, SMTT(60)
<1>4. ReadOrder[n] \in Accounts
  BY <1>3, DeploymentAssumption, SMTT(60)
<1>5. cfg.accounts \in [Accounts -> Account] /\ cfg.seed \in Seeds
  BY Zenon DEF Config
<1>6. x \in Account
  BY <1>4, <1>5, Zenon
<1>7. /\ Append(r.seen, x) \in Seq(Account)
      /\ Len(Append(r.seen, x)) = n
      /\ Append(r.seen, x)[n] = x
      /\ \A i \in 1..Len(r.seen) : Append(r.seen, x)[i] = r.seen[i]
      /\ Append(r.seen, x) # <<>>
  BY <1>1, <1>6, SMTT(60)
<1>8. sd \in Seeds \cup {Nothing} /\ st \in Stages /\ st \in {"read", "check"}
  BY <1>1, <1>5, Zenon DEF Stages, Script
<1>9. q = [r EXCEPT !.seen = Append(r.seen, x), !.seed = sd, !.stage = st]
  BY Zenon DEF OneMore
<1> HIDE DEF x, sd, st, q
<1>10. /\ q \in Script /\ q.stage = st /\ q.plan = r.plan /\ q.binary = r.binary
       /\ q.mode = r.mode /\ q.sent = r.sent /\ q.seed = sd /\ q.seen = Append(r.seen, x)
       /\ q.before = r.before /\ q.rollback = r.rollback
  BY <1>1, <1>7, <1>8, <1>9, Zenon DEF Script
<1>11. sd = cfg.seed
  <2>1. CASE n = 1
    BY <2>1, Zenon DEF sd
  <2>2. CASE n # 1
    <3>1. r.seen # <<>>
      BY <2>2, <1>1, SMTT(60)
    <3> QED
      BY <3>1, <2>2, Zenon DEF sd, Informed, Seeing
  <2> QED
    BY <2>1, <2>2, Zenon
<1>12. st = "read" => n < Len(ReadOrder)
  BY <1>2, <1>3, SMTT(60) DEF st
<1>13. st = "check" => n = Len(ReadOrder)
  BY Zenon DEF st
<1>14. Ordered(q)
  <2>1. q.stage = "read" => Len(q.seen) < Len(ReadOrder)
    BY <1>10, <1>12, <1>7, Zenon
  <2>2. q.stage \in {"check", "finalize"} => Len(q.seen) = Len(ReadOrder)
    BY <1>10, <1>13, <1>7, <1>8, Zenon
  <2>3. q.binary \in Codes /\ q.plan \in Plans
    BY <1>10, Zenon DEF Ordered
  <2>4. q.sent => q.mode = "apply"
    BY <1>10, Zenon DEF Ordered
  <2>5. q.stage \in {"read", "check"}
    BY <1>8, <1>10, Zenon
  <2> QED
    BY <2>1, <2>2, <2>3, <2>4, <2>5, <1>10, Zenon DEF Ordered, Seeing
<1>15. Informed(q, cfg, lnd, tx)
  BY <1>10, <1>11, <1>8, DeploymentAssumption, Zenon DEF Informed, Seeing
<1>16. ASSUME Current(r, cfg, c) PROVE Current(q, cfg, c)
  <2>1. \A i \in 1..Len(q.seen) : q.seen[i] = cfg.accounts[ReadOrder[i]]
    <3>1. \A i \in 1..Len(r.seen) : r.seen[i] = cfg.accounts[ReadOrder[i]]
      BY <1>16, Zenon DEF Current, Seeing
    <3> SUFFICES ASSUME NEW i \in 1..n
                 PROVE  Append(r.seen, x)[i] = cfg.accounts[ReadOrder[i]]
      BY <1>7, <1>10, Zenon
    <3>2. CASE i = n
      BY <3>2, <1>7, Zenon DEF x
    <3>3. CASE i # n
      <4>1. i \in 1..Len(r.seen)
        BY <3>3, <1>1, SMTT(60)
      <4> QED
        BY <4>1, <3>1, <1>7, Zenon
    <3> QED
      BY <3>2, <3>3, Zenon
  <2>2. q.mode = "apply" => q.binary = c
    BY <1>16, <1>10, Zenon DEF Current
  <2>3. q.stage \in {"read", "check"}
    BY <1>8, <1>10, Zenon
  <2> QED
    BY <2>1, <2>2, <2>3, Zenon DEF Current
<1> QED
  BY <1>10, <1>14, <1>15, <1>16, Zenon DEF q

\* A complete reading is a configuration, and if nothing it read has changed
\* since it is the configuration there is.
LEMMA SnapshotWhole ==
  ASSUME NEW o, NEW cfg \in Config, NEW c,
         Ordered(run[o]), run[o].stage \in {"check", "finalize"}
  PROVE  /\ Snapshot(o) \in [Accounts -> Account]
         /\ Current(run[o], cfg, c) => Snapshot(o) = cfg.accounts
<1> DEFINE at(a) == CHOOSE n \in DOMAIN ReadOrder : ReadOrder[n] = a
           seen == run[o].seen
<1>1. seen \in Seq(Account) /\ Len(seen) = Len(ReadOrder)
  BY Zenon DEF Ordered, Script
<1>2. \A a \in Accounts : at(a) \in DOMAIN ReadOrder /\ ReadOrder[at(a)] = a
  BY Zenon DEF Accounts, Range
<1>3. DOMAIN ReadOrder = 1..Len(seen)
  BY <1>1, DeploymentAssumption, SMTT(60)
<1>4. \A a \in Accounts : at(a) \in 1..Len(seen) /\ ReadOrder[at(a)] = a
  BY <1>2, <1>3, Zenon
<1>5. Snapshot(o) = [a \in Accounts |-> seen[at(a)]]
  BY Zenon DEF Snapshot
<1> HIDE DEF at
<1>6. \A a \in Accounts : seen[at(a)] \in Account
  BY <1>1, <1>4, SMTT(60)
<1>7. ASSUME Current(run[o], cfg, c) PROVE Snapshot(o) = cfg.accounts
  <2>1. \A n \in 1..Len(seen) : seen[n] = cfg.accounts[ReadOrder[n]]
    BY <1>7, Zenon DEF Current, Seeing
  <2>2. \A a \in Accounts : seen[at(a)] = cfg.accounts[a]
    BY <2>1, <1>4, Zenon
  <2>3. cfg.accounts \in [Accounts -> Account]
    BY Zenon DEF Config
  <2> QED
    BY <2>2, <2>3, <1>5, Zenon
<1> QED
  BY <1>5, <1>6, <1>7, Zenon

\* A step of one script that writes nothing to the cluster: what it holds
\* next has to fit the cluster, and the other scripts are where they were.
LEMMA ScriptMoves ==
  ASSUME ClusterOK, FlightOK, ScriptsOK,
         NEW o \in Operators, NEW q,
         run' = [run EXCEPT ![o] = q],
         UNCHANGED <<code, config, landed, flight, attempts, clean>>,
         Ordered(q),
         Informed(q, config, landed, [by |-> o, attempt |-> attempts[o], plan |-> q.plan]),
         clean[o] => Current(q, config, code),
         q.stage = "idle" \/ (run[o].stage # "idle" /\ (run[o].sent => q.sent))
  PROVE  ClusterOK' /\ FlightOK' /\ ScriptsOK'
<1>1. /\ DOMAIN run' = Operators /\ run'[o] = q
      /\ \A p \in Operators : p # o => run'[p] = run[p]
  BY Zenon DEF ClusterOK
<1>2. ClusterOK'
  BY <1>1, Zenon DEF ClusterOK
<1>3. FlightOK'
  <2> SUFFICES ASSUME NEW t \in flight
               PROVE  /\ t.by \in Operators /\ t.attempt \in Nat
                      /\ t.attempt <= attempts[t.by]
                      /\ t.attempt = attempts[t.by]
                           => run'[t.by].stage = "idle" \/ run'[t.by].sent
    BY Zenon DEF FlightOK, At
  <2>1. /\ t.by \in Operators /\ t.attempt \in Nat
        /\ t.attempt <= attempts[t.by]
        /\ t.attempt = attempts[t.by] => run[t.by].stage = "idle" \/ run[t.by].sent
    BY Zenon DEF FlightOK, At
  <2>2. CASE t.by = o
    BY <2>1, <2>2, <1>1, Zenon
  <2>3. CASE t.by # o
    BY <2>1, <2>3, <1>1, Zenon
  <2> QED
    BY <2>2, <2>3, Zenon
<1>4. ScriptsOK'
  <2> SUFFICES ASSUME NEW p \in Operators
               PROVE  /\ Ordered(run'[p])
                      /\ run'[p].stage = "idle" \/ attempts[p] # 0
                      /\ Informed(run'[p], config, landed,
                                  [by |-> p, attempt |-> attempts[p], plan |-> run'[p].plan])
                      /\ clean[p] => Current(run'[p], config, code)
    BY Zenon DEF ScriptsOK, Sent, At
  <2>1. CASE p = o
    BY <2>1, <1>1, Zenon DEF ScriptsOK, At
  <2>2. CASE p # o
    BY <2>2, <1>1, Zenon DEF ScriptsOK, Sent, At
  <2> QED
    BY <2>1, <2>2, Zenon
<1> QED
  BY <1>2, <1>3, <1>4, Zenon

\* A script passes from one stage to the next and holds what it held.
LEMMA StageMoves ==
  ASSUME ClusterOK, FlightOK, ScriptsOK,
         NEW o \in Operators, NEW s \in Stages \ {"idle"},
         run' = [run EXCEPT ![o].stage = s],
         UNCHANGED <<code, config, landed, flight, attempts, clean>>,
         run[o].stage # "idle",
         s \in {"send", "finalize"} => run[o].mode = "apply",
         run[o].sent => s \in {"send"} \cup Seeing,
         s \in {"preflight", "preflightControl", "preflightRoot", "control", "root", "send"}
           => run[o].seen = <<>>,
         s = "read" => run[o].seen = <<>>,
         s \in {"check", "finalize"} => run[o].stage = "check",
         s \in Seeing \cup {"dump"} => config # Nothing,
         s \in Seeing /\ run[o].sent => landed = Sent(o),
         s \in {"dump", "deploy"} => config = Nothing
  PROVE  ClusterOK' /\ FlightOK' /\ ScriptsOK'
<1> DEFINE r == run[o]
           q == [r EXCEPT !.stage = s]
<1>1. Ordered(r) /\ Informed(r, config, landed, Sent(o)) /\ (clean[o] => Current(r, config, code))
  BY Zenon DEF ScriptsOK
<1>2. r \in Script /\ s \in Stages
  BY <1>1, Zenon DEF Ordered
<1>3. /\ q \in Script /\ q.stage = s /\ q.plan = r.plan /\ q.binary = r.binary
      /\ q.mode = r.mode /\ q.sent = r.sent /\ q.seed = r.seed /\ q.seen = r.seen
      /\ q.before = r.before /\ q.rollback = r.rollback
  BY <1>2, SetStage, Zenon
<1>4. run' = [run EXCEPT ![o] = q]
  BY Zenon DEF ClusterOK
<1>5. Sent(o) = [by |-> o, attempt |-> attempts[o], plan |-> q.plan]
  BY <1>3, Zenon DEF Sent
<1> HIDE DEF q
<1>6. Len(ReadOrder) \in Nat /\ Len(ReadOrder) > 0 /\ Len(<<>>) = 0
  BY DeploymentAssumption, SMTT(60)
<1>7. Ordered(q)
  <2>1. q.stage = "read" => Len(q.seen) < Len(ReadOrder)
    BY <1>3, <1>6, Zenon
  <2>2. q.stage \in {"check", "finalize"} => Len(q.seen) = Len(ReadOrder)
    BY <1>1, <1>3, Zenon DEF Ordered
  <2> QED
    BY <2>1, <2>2, <1>1, <1>3, Zenon DEF Ordered
<1>8. Informed(q, config, landed, Sent(o))
  BY <1>1, <1>3, Zenon DEF Informed, Seeing
<1>9. ASSUME Current(r, config, code) PROVE Current(q, config, code)
  <2>1. q.stage \in Seeing => \A n \in 1..Len(q.seen) : q.seen[n] = config.accounts[ReadOrder[n]]
    <3>1. CASE q.seen = <<>>
      BY <3>1, SMTT(60)
    <3>2. CASE s \in {"check", "finalize"}
      BY <3>2, <1>3, <1>9, Zenon DEF Current, Seeing
    <3> QED
      BY <3>1, <3>2, <1>3, Zenon DEF Seeing
  <2> QED
    BY <2>1, <1>3, <1>9, Zenon DEF Current
<1> QED
  BY ScriptMoves, <1>1, <1>3, <1>4, <1>5, <1>7, <1>8, <1>9, Zenon

\* A script that stops (an error, a crash, the end of its plan) leaves the cluster as it was.
LEMMA StopMoves ==
  ASSUME ClusterOK, FlightOK, ScriptsOK, NEW o \in Operators, Stop(o),
         UNCHANGED <<code, config, landed, flight, attempts, clean>>
  PROVE  ClusterOK' /\ FlightOK' /\ ScriptsOK'
<1>1. run' = [run EXCEPT ![o] = Idle]
  BY Zenon DEF Stop
<1>2. Informed(Idle, config, landed, [by |-> o, attempt |-> attempts[o], plan |-> Idle.plan])
  BY IdleScript, Zenon
<1> QED
  BY ScriptMoves, <1>1, <1>2, IdleScript, Zenon

\* The steps that only read the cluster.
LEMMA ReadingKeeps ==
  ASSUME ClusterOK, FlightOK, ScriptsOK, NEW o \in Operators, Reading(o),
         UNCHANGED <<code, config, landed, flight, attempts, clean>>
  PROVE  ClusterOK' /\ FlightOK' /\ ScriptsOK'
<1> DEFINE r == run[o]
<1>1. Ordered(r) /\ Informed(r, config, landed, Sent(o)) /\ (clean[o] => Current(r, config, code))
  BY Zenon DEF ScriptsOK
<1>2. r \in Script
  BY <1>1, Zenon DEF Ordered
<1>3. CASE PreflightProgram(o)
  <2> DEFINE s == IF code = NoCode THEN "deploy" ELSE "preflightControl"
  <2>1. r.stage = "preflight" /\ run' = [run EXCEPT ![o].stage = s]
    BY <1>3, Zenon DEF PreflightProgram, At, Go
  <2>2. r.seen = <<>> /\ ~r.sent
    BY <2>1, <1>1, Zenon DEF Ordered, Seeing
  <2>3. s \in {"deploy", "preflightControl"} /\ (s = "deploy" => config = Nothing)
    BY Zenon DEF ClusterOK
  <2> HIDE DEF s
  <2> QED
    BY StageMoves, <2>1, <2>2, <2>3, Zenon DEF Seeing, Stages
<1>4. CASE PreflightControl(o)
  <2> DEFINE s == "preflightRoot"
  <2>1. r.stage = "preflightControl" /\ run' = [run EXCEPT ![o].stage = s]
    BY <1>4, Zenon DEF PreflightControl, At, Go
  <2>2. r.seen = <<>> /\ ~r.sent
    BY <2>1, <1>1, Zenon DEF Ordered, Seeing
  <2>3. s \in {"preflightRoot", "root"}
    OBVIOUS
  <2> HIDE DEF s
  <2> QED
    BY <2>3, StageMoves, <2>1, <2>2, Zenon DEF Seeing, Stages
<1>5. CASE PreflightRoot(o)
  <2> DEFINE s == IF config = Nothing THEN "deploy" ELSE "control"
  <2>1. r.stage = "preflightRoot" /\ run' = [run EXCEPT ![o].stage = s]
    BY <1>5, Zenon DEF PreflightRoot, At, Go
  <2>2. r.seen = <<>> /\ ~r.sent
    BY <2>1, <1>1, Zenon DEF Ordered, Seeing
  <2>3. s \in {"deploy", "control"} /\ (s = "deploy" => config = Nothing)
    OBVIOUS
  <2> HIDE DEF s
  <2> QED
    BY StageMoves, <2>1, <2>2, <2>3, Zenon DEF Seeing, Stages
<1>6. CASE Control(o)
  <2> DEFINE s == "root"
  <2>1. r.stage = "control" /\ run' = [run EXCEPT ![o].stage = s]
    BY <1>6, Zenon DEF Control, At, Go
  <2>2. r.seen = <<>> /\ ~r.sent
    BY <2>1, <1>1, Zenon DEF Ordered, Seeing
  <2>3. s \in {"preflightRoot", "root"}
    OBVIOUS
  <2> HIDE DEF s
  <2> QED
    BY <2>3, StageMoves, <2>1, <2>2, Zenon DEF Seeing, Stages
<1>7. CASE Root(o)
  <2> DEFINE s == IF config = Nothing THEN "send" ELSE "read"
  <2>1. r.stage = "root" /\ run' = [run EXCEPT ![o].stage = s]
    BY <1>7, Zenon DEF Root, At, Go
  <2>2. r.seen = <<>> /\ ~r.sent
    BY <2>1, <1>1, Zenon DEF Ordered, Seeing
  <2>3. /\ s \in {"send", "read"} /\ (s = "read" => config # Nothing)
        /\ s = "send" => r.mode = "apply"
    BY <1>7, Zenon DEF Root
  <2> HIDE DEF s
  <2> QED
    BY StageMoves, <2>1, <2>2, <2>3, Zenon DEF Seeing, Stages
<1>8. CASE Confirm(o)
  <2> DEFINE s == "read"
  <2>1. r.stage = "send" /\ landed = Sent(o) /\ run' = [run EXCEPT ![o].stage = s]
    BY <1>8, Zenon DEF Confirm, At, Go
  <2>2. r.seen = <<>>
    BY <2>1, <1>1, Zenon DEF Ordered
  <2>3. config # Nothing
    <3>1. /\ attempts[o] \in 1..MaxAttempts /\ r.plan \in Plans
      BY <1>1, <2>1, SMTT(60) DEF ClusterOK, ScriptsOK, At, Ordered
    <3>2. Sent(o) \in Transaction
      BY <3>1, Zenon DEF Sent, Transaction
    <3> QED
      BY <3>2, <2>1, DeploymentAssumption, Zenon DEF ClusterOK
  <2>4. /\ s \in Stages \ {"idle"} /\ s \in {"send"} \cup Seeing
        /\ s \notin {"send", "finalize"} /\ s \notin {"check", "finalize"}
        /\ s \notin {"dump", "deploy"}
    BY Zenon DEF Seeing, Stages
  <2>5. r.stage # "idle"
    BY <2>1, Zenon
  <2> HIDE DEF s
  <2> QED
    BY <2>4, <2>5, StageMoves, <2>1, <2>2, <2>3, Zenon
<1>9. CASE Dump(o)
  <2> DEFINE q == [r EXCEPT !.stage = "deploy", !.rollback = code]
  <2>1. r.stage = "dump" /\ run' = [run EXCEPT ![o] = q]
    BY <1>9, Zenon DEF Dump, At, ClusterOK
  <2>2. /\ q \in Script /\ q.stage = "deploy" /\ q.plan = r.plan /\ q.binary = r.binary
        /\ q.mode = r.mode /\ q.sent = r.sent /\ q.before = r.before /\ q.rollback = code
    BY <1>2, ZenonT(60) DEF Script, Stages, ClusterOK
  <2> HIDE DEF q
  <2>3. ~r.sent
    BY <2>1, <1>1, Zenon DEF Ordered, Seeing
  <2>4. Ordered(q)
    BY <2>1, <2>2, <2>3, <1>1, Zenon DEF Ordered
  <2>5. \A tx : Informed(q, config, landed, tx)
    BY <2>2, Zenon DEF Informed, Seeing
  <2>6. Current(r, config, code) => Current(q, config, code)
    BY <2>1, <2>2, Zenon DEF Current, Seeing
  <2> QED
    BY ScriptMoves, <1>1, <2>1, <2>2, <2>3, <2>4, <2>5, <2>6, Zenon
<1>10. CASE ReadAccount(o)
  <2> DEFINE q == OneMore(r, config)
  <2>1. r.stage = "read" /\ run' = [run EXCEPT ![o] = q]
    BY <1>10, Zenon DEF ReadAccount, At, ClusterOK, OneMore
  <2>2. config \in Config
    BY <2>1, <1>1, Zenon DEF Informed, Seeing, ClusterOK
  <2>3. /\ Ordered(q) /\ Informed(q, config, landed, Sent(o))
        /\ q.plan = r.plan /\ q.sent = r.sent
        /\ Current(r, config, code) => Current(q, config, code)
    BY ReadOn, <1>1, <2>1, <2>2, Zenon
  <2> HIDE DEF q
  <2>4. Sent(o) = [by |-> o, attempt |-> attempts[o], plan |-> q.plan]
    BY <2>3, Zenon DEF Sent
  <2> QED
    BY ScriptMoves, <1>1, <2>1, <2>3, <2>4, Zenon
<1>11. CASE Check(o)
  <2>1. r.stage = "check" /\ ~At(o, "idle")
    BY <1>11, Zenon DEF Check, At
  <2>2. config \in Config /\ config # Nothing
    BY <2>1, <1>1, Zenon DEF Informed, Seeing, ClusterOK
  <2>3. CASE r.mode = "verify"
    <3> DEFINE q == [r EXCEPT !.before = Snapshot(o), !.stage = "dump"]
    <3>1. run' = [run EXCEPT ![o] = q]
      BY <1>11, <2>3, Zenon DEF Check, ClusterOK
    <3>2. /\ Snapshot(o) \in [Accounts -> Account]
          /\ Current(r, config, code) => Snapshot(o) = config.accounts
      BY SnapshotWhole, <2>1, <2>2, <1>1, Zenon
    <3>3. /\ q \in Script /\ q.stage = "dump" /\ q.plan = r.plan /\ q.binary = r.binary
          /\ q.mode = r.mode /\ q.sent = r.sent /\ q.before = Snapshot(o)
      BY <1>2, <3>2, Zenon DEF Script, Stages
    <3> HIDE DEF q
    <3>4. ~r.sent
      BY <2>3, <1>1, Zenon DEF Ordered
    <3>5. Ordered(q)
      BY <2>1, <3>3, <3>4, <1>1, Zenon DEF Ordered
    <3>6. \A tx : Informed(q, config, landed, tx)
      BY <3>3, <2>2, Zenon DEF Informed, Seeing
    <3>7. Current(r, config, code) => Current(q, config, code)
      BY <3>2, <3>3, <2>3, Zenon DEF Current, Seeing
    <3> QED
      BY ScriptMoves, <1>1, <2>1, <3>1, <3>3, <3>4, <3>5, <3>6, <3>7, Zenon DEF At
  <2>4. CASE r.mode # "verify"
    <3> DEFINE s == "finalize"
    <3>1. r.mode = "apply" /\ run' = [run EXCEPT ![o].stage = s]
      BY <1>11, <2>4, <1>2, Zenon DEF Check, Script
    <3>2. r.sent => landed = Sent(o)
      BY <2>1, <1>1, Zenon DEF Informed, Seeing
    <3>3. /\ s \in Stages \ {"idle"} /\ s \in {"send"} \cup Seeing /\ s # "read"
          /\ s \notin {"preflight", "preflightControl", "preflightRoot", "control", "root", "send"}
          /\ s \notin {"dump", "deploy"}
      BY Zenon DEF Seeing, Stages
    <3>4. r.stage # "idle"
      BY <2>1, Zenon
    <3> HIDE DEF s
    <3> QED
      BY <3>3, <3>4, StageMoves, <2>1, <2>2, <3>1, <3>2, Zenon
  <2> QED
    BY <2>3, <2>4, Zenon
<1>12. CASE Refuse(o)
  BY <1>12, StopMoves, Zenon DEF Refuse
<1> QED
  BY <1>3, <1>4, <1>5, <1>6, <1>7, <1>8, <1>9, <1>10, <1>11, <1>12, Zenon DEF Reading
-----------------------------------------------------------------------------
(* The steps that write: by scripts, and by the rest of the cluster.       *)

\* The invariant holds before the first script starts.
LEMMA InitKeeps == DeploymentInit => DeploymentInv
<1> SUFFICES ASSUME DeploymentInit PROVE DeploymentInv
  OBVIOUS
<1> USE DEF DeploymentInit
<1>1. ClusterOK
  BY DeploymentAssumption, SMTT(60) DEF ClusterOK
<1>2. \A o \in Operators : run[o] = Idle
  OBVIOUS
<1>3. ScriptsOK
  BY <1>2, IdleScript, Zenon DEF ScriptsOK, At
<1> QED
  BY <1>1, <1>3, Zenon DEF DeploymentInv, FlightOK, ReceiptsAgree

\* Starting a script, on any plan and any binary.
LEMMA StartKeeps ==
  ASSUME ClusterOK, FlightOK, ScriptsOK,
         NEW o \in Operators, NEW plan \in Plans, NEW binary \in Codes, Start(o, plan, binary)
  PROVE  ClusterOK' /\ FlightOK' /\ ScriptsOK'
<1> DEFINE q == [Idle EXCEPT !.stage = "preflight", !.plan = plan, !.binary = binary]
<1>1. /\ q \in Script /\ q.stage = "preflight" /\ q.plan = plan /\ q.binary = binary
      /\ q.mode = "verify" /\ q.sent = FALSE /\ q.seen = <<>>
  <2>1. /\ Idle \in Script /\ Idle.mode = "verify" /\ Idle.sent = FALSE /\ Idle.seen = <<>>
    BY SMTT(60) DEF Idle, Script, Stages
  <2>2. "preflight" \in Stages
    BY Zenon DEF Stages
  <2> HIDE DEF q
  <2>3. q = [Idle EXCEPT !.stage = "preflight", !.plan = plan, !.binary = binary]
    BY Zenon DEF q
  <2> QED
    BY <2>1, <2>2, <2>3, Zenon DEF Script
<1>2. /\ attempts[o] < MaxAttempts /\ run' = [run EXCEPT ![o] = q]
      /\ attempts' = [attempts EXCEPT ![o] = @ + 1] /\ clean' = [clean EXCEPT ![o] = TRUE]
      /\ UNCHANGED <<code, config, landed, flight>>
  BY Zenon DEF Start, cluster
<1> HIDE DEF q
<1>3. /\ DOMAIN run' = Operators /\ run'[o] = q
      /\ \A p \in Operators : p # o => run'[p] = run[p]
  BY <1>2, Zenon DEF ClusterOK
<1>4. /\ attempts' \in [Operators -> 0..MaxAttempts]
      /\ attempts[o] \in Nat /\ attempts'[o] = attempts[o] + 1
      /\ \A p \in Operators : p # o => attempts'[p] = attempts[p] /\ clean'[p] = clean[p]
  BY <1>2, DeploymentAssumption, SMTT(60) DEF ClusterOK
<1>5. ClusterOK'
  BY <1>2, <1>3, <1>4, Zenon DEF ClusterOK
<1>6. FlightOK'
  <2> SUFFICES ASSUME NEW t \in flight
               PROVE  /\ t.by \in Operators /\ t.attempt \in Nat
                      /\ t.attempt <= attempts'[t.by]
                      /\ t.attempt = attempts'[t.by]
                           => run'[t.by].stage = "idle" \/ run'[t.by].sent
    BY <1>2, Zenon DEF FlightOK, At
  <2>1. /\ t.by \in Operators /\ t.attempt \in Nat
        /\ t.attempt <= attempts[t.by]
        /\ t.attempt = attempts[t.by] => run[t.by].stage = "idle" \/ run[t.by].sent
    BY Zenon DEF FlightOK, At
  <2>2. CASE t.by = o
    <3> DEFINE m == t.attempt
               n == attempts[o]
    <3>1. m \in Nat /\ n \in Nat /\ m <= n /\ attempts'[t.by] = n + 1
      BY <2>1, <2>2, <1>4, Zenon
    <3> HIDE DEF m, n
    <3>2. m <= attempts'[t.by] /\ m # attempts'[t.by]
      BY <3>1, SMTT(60)
    <3> QED
      BY <2>1, <3>2, Zenon DEF m
  <2>3. CASE t.by # o
    BY <2>1, <2>3, <1>3, <1>4, Zenon
  <2> QED
    BY <2>2, <2>3, Zenon
<1>7. ScriptsOK'
  <2> SUFFICES ASSUME NEW p \in Operators
               PROVE  /\ Ordered(run'[p])
                      /\ run'[p].stage = "idle" \/ attempts'[p] # 0
                      /\ Informed(run'[p], config, landed,
                                  [by |-> p, attempt |-> attempts'[p], plan |-> run'[p].plan])
                      /\ clean'[p] => Current(run'[p], config, code)
    BY <1>2, Zenon DEF ScriptsOK, Sent, At
  <2>1. CASE p = o
    <3>1. Ordered(q)
      BY <1>1, Zenon DEF Ordered
    <3>2. \A tx : Informed(q, config, landed, tx)
      BY <1>1, Zenon DEF Informed, Seeing
    <3>3. Current(q, config, code)
      BY <1>1, Zenon DEF Current, Seeing
    <3>4. attempts'[o] # 0
      BY <1>4, SMTT(60)
    <3> QED
      BY <2>1, <1>3, <3>1, <3>2, <3>3, <3>4, Zenon
  <2>2. CASE p # o
    BY <2>2, <1>3, <1>4, Zenon DEF ScriptsOK, Sent, At
  <2> QED
    BY <2>1, <2>2, Zenon
<1> QED
  BY <1>5, <1>6, <1>7, Zenon

\* Sending the initialisation: the transaction in flight is the one the script waits for.
LEMMA SendKeeps ==
  ASSUME ClusterOK, FlightOK, ScriptsOK, NEW o \in Operators, Send(o)
  PROVE  ClusterOK' /\ FlightOK' /\ ScriptsOK'
<1> DEFINE r == run[o]
           q == [r EXCEPT !.sent = TRUE]
<1>1. Ordered(r) /\ Informed(r, config, landed, Sent(o)) /\ (clean[o] => Current(r, config, code))
  BY Zenon DEF ScriptsOK
<1>2. /\ r.stage = "send" /\ run' = [run EXCEPT ![o] = q] /\ flight' = flight \cup {Sent(o)}
      /\ UNCHANGED <<code, config, landed, attempts, clean>>
  BY Zenon DEF Send, At, cluster, ClusterOK
<1>3. /\ q \in Script /\ q.stage = "send" /\ q.plan = r.plan /\ q.binary = r.binary
      /\ q.mode = r.mode /\ q.sent = TRUE /\ q.seen = r.seen
  BY <1>1, <1>2, Zenon DEF Script, Ordered
<1> HIDE DEF q
<1>4. /\ DOMAIN run' = Operators /\ run'[o] = q
      /\ \A p \in Operators : p # o => run'[p] = run[p]
  BY <1>2, Zenon DEF ClusterOK
<1>5. ClusterOK'
  BY <1>2, <1>4, Zenon DEF ClusterOK
<1>6. FlightOK'
  <2> SUFFICES ASSUME NEW t \in flight \cup {Sent(o)}
               PROVE  /\ t.by \in Operators /\ t.attempt \in Nat
                      /\ t.attempt <= attempts[t.by]
                      /\ t.attempt = attempts[t.by]
                           => run'[t.by].stage = "idle" \/ run'[t.by].sent
    BY <1>2, Zenon DEF FlightOK, At
  <2>1. CASE t \in flight
    <3>1. /\ t.by \in Operators /\ t.attempt \in Nat
          /\ t.attempt <= attempts[t.by]
          /\ t.attempt = attempts[t.by] => run[t.by].stage = "idle" \/ run[t.by].sent
      BY <2>1, Zenon DEF FlightOK, At
    <3>2. t.by = o => run'[t.by].sent
      BY <1>3, <1>4, Zenon
    <3>3. t.by # o => run'[t.by] = run[t.by]
      BY <1>4, <3>1, Zenon
    <3> QED
      BY <3>1, <3>2, <3>3, Zenon
  <2>2. CASE t = Sent(o)
    <3>1. t.by = o /\ t.attempt = attempts[o]
      BY <2>2, Zenon DEF Sent
    <3>2. attempts[o] \in Nat /\ attempts[o] <= attempts[o]
      BY SMTT(60) DEF ClusterOK
    <3> QED
      BY <3>1, <3>2, <1>3, <1>4, Zenon
  <2> QED
    BY <2>1, <2>2, Zenon
<1>7. ScriptsOK'
  <2> SUFFICES ASSUME NEW p \in Operators
               PROVE  /\ Ordered(run'[p])
                      /\ run'[p].stage = "idle" \/ attempts[p] # 0
                      /\ Informed(run'[p], config, landed,
                                  [by |-> p, attempt |-> attempts[p], plan |-> run'[p].plan])
                      /\ clean[p] => Current(run'[p], config, code)
    BY <1>2, Zenon DEF ScriptsOK, Sent, At
  <2>1. CASE p = o
    <3>1. Ordered(q)
      BY <1>1, <1>2, <1>3, Zenon DEF Ordered, Seeing
    <3>2. \A tx : Informed(q, config, landed, tx)
      BY <1>3, Zenon DEF Informed, Seeing
    <3>3. Current(r, config, code) => Current(q, config, code)
      BY <1>2, <1>3, Zenon DEF Current, Seeing
    <3>4. attempts[o] # 0
      BY <1>2, Zenon DEF ScriptsOK, At
    <3> QED
      BY <2>1, <1>1, <1>4, <3>1, <3>2, <3>3, <3>4, Zenon
  <2>2. CASE p # o
    BY <2>2, <1>4, Zenon DEF ScriptsOK, Sent, At
  <2> QED
    BY <2>1, <2>2, Zenon
<1> QED
  BY <1>5, <1>6, <1>7, Zenon

\* Deploying: the program's code changes, and every other run is marked as disturbed.
LEMMA DeployKeeps ==
  ASSUME ClusterOK, FlightOK, ScriptsOK, NEW o \in Operators, Deploy(o)
  PROVE  ClusterOK' /\ FlightOK' /\ ScriptsOK'
<1> DEFINE r == run[o]
           q == [r EXCEPT !.stage = "control", !.mode = "apply", !.seen = <<>>]
<1>1. Ordered(r) /\ r.stage = "deploy"
  BY Zenon DEF ScriptsOK, Deploy, At
<1>2. /\ code' = r.binary /\ run' = [run EXCEPT ![o] = q]
      /\ clean' = [p \in Operators |-> clean[p] /\ p = o]
      /\ UNCHANGED <<config, landed, flight, attempts>>
  BY Zenon DEF Deploy, DirtyExcept, ClusterOK
<1>3. /\ q \in Script /\ q.stage = "control" /\ q.plan = r.plan /\ q.binary = r.binary
      /\ q.mode = "apply" /\ q.sent = r.sent /\ q.seen = <<>>
  <2>1. r \in Script
    BY <1>1, Zenon DEF Ordered
  <2>2. "control" \in Stages /\ <<>> \in Seq(Account)
    BY SMTT(60) DEF Stages
  <2> HIDE DEF r
  <2> QED
    BY <2>1, <2>2, Zenon DEF Script
<1>4. ~r.sent /\ r.binary \in Codes /\ r.plan \in Plans
  BY <1>1, Zenon DEF Ordered, Seeing
<1> HIDE DEF q
<1>5. /\ DOMAIN run' = Operators /\ run'[o] = q
      /\ \A p \in Operators : p # o => run'[p] = run[p]
  BY <1>2, Zenon DEF ClusterOK
<1>6. clean' \in [Operators -> BOOLEAN] /\ \A p \in Operators : p # o => ~clean'[p]
  BY <1>2, Zenon
<1>7. ClusterOK'
  BY <1>2, <1>4, <1>5, <1>6, DeploymentAssumption, Zenon DEF ClusterOK
<1>8. FlightOK'
  <2> SUFFICES ASSUME NEW t \in flight
               PROVE  /\ t.by \in Operators /\ t.attempt \in Nat
                      /\ t.attempt <= attempts[t.by]
                      /\ t.attempt = attempts[t.by]
                           => run'[t.by].stage = "idle" \/ run'[t.by].sent
    BY <1>2, Zenon DEF FlightOK, At
  <2>1. /\ t.by \in Operators /\ t.attempt \in Nat
        /\ t.attempt <= attempts[t.by]
        /\ t.attempt = attempts[t.by] => run[t.by].stage = "idle" \/ run[t.by].sent
    BY Zenon DEF FlightOK, At
  <2>2. t.by = o => t.attempt # attempts[t.by]
    BY <2>1, <1>1, <1>4, Zenon
  <2> QED
    BY <2>1, <2>2, <1>5, Zenon
<1>9. ScriptsOK'
  <2> SUFFICES ASSUME NEW p \in Operators
               PROVE  /\ Ordered(run'[p])
                      /\ run'[p].stage = "idle" \/ attempts[p] # 0
                      /\ Informed(run'[p], config, landed,
                                  [by |-> p, attempt |-> attempts[p], plan |-> run'[p].plan])
                      /\ clean'[p] => Current(run'[p], config, code')
    BY <1>2, Zenon DEF ScriptsOK, Sent, At
  <2>1. CASE p = o
    <3>1. Ordered(q)
      BY <1>3, <1>4, Zenon DEF Ordered
    <3>2. \A tx : Informed(q, config, landed, tx)
      BY <1>3, Zenon DEF Informed, Seeing
    <3>3. Current(q, config, code')
      BY <1>2, <1>3, Zenon DEF Current, Seeing
    <3>4. attempts[o] # 0
      BY <1>1, Zenon DEF ScriptsOK, At
    <3> QED
      BY <2>1, <1>5, <3>1, <3>2, <3>3, <3>4, Zenon
  <2>2. CASE p # o
    BY <2>2, <1>5, <1>6, Zenon DEF ScriptsOK, Sent, At
  <2> QED
    BY <2>1, <2>2, Zenon
<1> QED
  BY <1>7, <1>8, <1>9, Zenon

\* Whoever changes the configuration of an initialised protocol, or its
\* upgrade authority, leaves the domain seed and marks every run.
LEMMA ChangeKeeps ==
  ASSUME ClusterOK, FlightOK, ScriptsOK, DirtyAll,
         UNCHANGED <<code, landed, flight, run, attempts>>,
         config' \in Config \cup {Nothing},
         config' = config \/ (config # Nothing /\ config' # Nothing /\ config'.seed = config.seed)
  PROVE  ClusterOK' /\ FlightOK' /\ ScriptsOK'
<1>1. clean' \in [Operators -> BOOLEAN] /\ \A p \in Operators : ~clean'[p]
  BY Zenon DEF DirtyAll
<1>2. ClusterOK'
  BY <1>1, Zenon DEF ClusterOK
<1>3. FlightOK'
  BY Zenon DEF FlightOK, At
<1>4. ScriptsOK'
  <2> SUFFICES ASSUME NEW p \in Operators
               PROVE  /\ Ordered(run[p])
                      /\ run[p].stage = "idle" \/ attempts[p] # 0
                      /\ Informed(run[p], config', landed, Sent(p))
    BY <1>1, Zenon DEF ScriptsOK, Sent, At
  <2>1. /\ Ordered(run[p])
        /\ run[p].stage = "idle" \/ attempts[p] # 0
        /\ Informed(run[p], config, landed, Sent(p))
    BY Zenon DEF ScriptsOK, At
  <2> QED
    BY <2>1, Zenon DEF Informed
<1> QED
  BY <1>2, <1>3, <1>4, Zenon

\* A transaction lands: nobody could have read the configuration before, so
\* the only run it leaves unmarked is one that waits for it.
LEMMA LandKeeps ==
  ASSUME ClusterOK, FlightOK, ScriptsOK, NEW t \in flight, Land(t)
  PROVE  ClusterOK' /\ FlightOK' /\ ScriptsOK'
<1>1. PICK seed \in Seeds : InitializeProtocol(t, seed)
  BY Zenon DEF Land
<1>2. /\ flight' = flight \ {t} /\ landed' = t
      /\ UNCHANGED <<code, run, attempts>>
      /\ IF ~At(t.by, "idle") /\ attempts[t.by] = t.attempt THEN DirtyExcept(t.by) ELSE DirtyAll
  BY Zenon DEF Land
<1>3. code # NoCode /\ config = Nothing /\ Bounded(t.plan)
  BY <1>1, Zenon DEF InitializeProtocol
<1>4. config' = [seed |-> seed,
                 accounts |-> [a \in Accounts |-> [setting |-> t.plan[a], drift |-> 0]]]
  BY <1>1, Zenon DEF InitializeProtocol
<1>5. config' \in Config /\ config' # Nothing
  <2>1. \A a \in Accounts : t.plan[a] \in Settings
    BY <1>3, DeploymentAssumption, Zenon DEF Bounded
  <2>2. \A a \in Accounts : [setting |-> t.plan[a], drift |-> 0] \in Account
    BY <2>1, Zenon DEF Account
  <2>3. [a \in Accounts |-> [setting |-> t.plan[a], drift |-> 0]] \in [Accounts -> Account]
    BY <2>2, Zenon
  <2>4. config' \in Config
    BY <2>3, <1>4, Zenon DEF Config
  <2> QED
    BY <2>4, DeploymentAssumption, Zenon
<1>6. /\ t.by \in Operators
      /\ t.attempt = attempts[t.by] => run[t.by].stage = "idle" \/ run[t.by].sent
  BY Zenon DEF FlightOK, At
<1>7. /\ clean' \in [Operators -> BOOLEAN]
      /\ \A p \in Operators : clean'[p] => clean[p] /\ run[p].stage # "idle" /\ run[p].sent
  <2>1. CASE ~At(t.by, "idle") /\ attempts[t.by] = t.attempt
    <3>1. clean' = [p \in Operators |-> clean[p] /\ p = t.by]
      BY <2>1, <1>2, Zenon DEF DirtyExcept
    <3>2. run[t.by].stage # "idle" /\ run[t.by].sent
      BY <2>1, <1>6, Zenon DEF At
    <3> QED
      BY <3>1, <3>2, Zenon
  <2>2. CASE ~(~At(t.by, "idle") /\ attempts[t.by] = t.attempt)
    <3>1. clean' = [p \in Operators |-> FALSE]
      BY <2>2, <1>2, Zenon DEF DirtyAll
    <3> QED
      BY <3>1, Zenon
  <2> QED
    BY <2>1, <2>2, Zenon
<1>8. ClusterOK'
  BY <1>2, <1>3, <1>5, <1>7, Zenon DEF ClusterOK
<1>9. FlightOK'
  BY <1>2, Zenon DEF FlightOK, At
<1>10. ScriptsOK'
  <2> SUFFICES ASSUME NEW p \in Operators
               PROVE  /\ Ordered(run[p])
                      /\ run[p].stage = "idle" \/ attempts[p] # 0
                      /\ Informed(run[p], config', t, Sent(p))
                      /\ clean'[p] => Current(run[p], config', code)
    BY <1>2, Zenon DEF ScriptsOK, Sent, At
  <2>1. /\ Ordered(run[p])
        /\ run[p].stage = "idle" \/ attempts[p] # 0
        /\ Informed(run[p], config, landed, Sent(p))
        /\ clean[p] => Current(run[p], config, code)
    BY Zenon DEF ScriptsOK, At
  <2>2. run[p].stage \notin Seeing \cup {"dump"}
    BY <2>1, <1>3, Zenon DEF Informed
  <2>3. Informed(run[p], config', t, Sent(p))
    BY <2>2, <1>5, Zenon DEF Informed
  <2>4. ASSUME clean'[p] PROVE Current(run[p], config', code)
    <3>1. run[p].stage = "send"
      BY <2>1, <2>2, <2>4, <1>7, Zenon DEF Ordered
    <3>2. run[p].mode = "apply" => run[p].binary = code
      BY <3>1, <2>1, <2>4, <1>7, Zenon DEF Current
    <3> QED
      BY <3>1, <3>2, Zenon DEF Current, Seeing
  <2> QED
    BY <2>1, <2>3, <2>4, Zenon
<1> QED
  BY <1>8, <1>9, <1>10, Zenon

\* The program and the network only take transactions away.
LEMMA FewerFlights ==
  ASSUME ClusterOK, FlightOK, ScriptsOK, flight' \subseteq flight,
         UNCHANGED <<code, config, landed, run, attempts, clean>>
  PROVE  ClusterOK' /\ FlightOK' /\ ScriptsOK'
<1>1. ClusterOK'
  BY Zenon DEF ClusterOK
<1>2. FlightOK'
  BY Zenon DEF FlightOK, At
<1>3. ScriptsOK'
  BY Zenon DEF ScriptsOK, Sent, At
<1> QED
  BY <1>1, <1>2, <1>3, Zenon

\* Receipts go on agreeing while the seed and the landed initialisation stay.
LEMMA AgreeKeeps ==
  ASSUME ReceiptsAgree, receipts' = receipts,
         config # Nothing => config' # Nothing /\ config'.seed = config.seed /\ landed' = landed
  PROVE  ReceiptsAgree'
BY Zenon DEF ReceiptsAgree

\* What a script publishes at its end.
LEMMA FinalizeKeeps ==
  ASSUME ClusterOK, FlightOK, ScriptsOK, ReceiptsAgree, NEW o \in Operators, Finalize(o)
  PROVE  ClusterOK' /\ FlightOK' /\ ScriptsOK' /\ ReceiptsAgree'
<1> DEFINE r == run[o]
<1>1. Ordered(r) /\ Informed(r, config, landed, Sent(o))
  BY Zenon DEF ScriptsOK
<1>2. /\ r.stage = "finalize" /\ Stop(o) /\ receipts' = receipts \cup {Receipt(o)}
      /\ UNCHANGED <<code, config, landed, flight, attempts, clean>>
  BY Zenon DEF Finalize, At, cluster
<1>3. r.seen # <<>>
  BY <1>1, <1>2, DeploymentAssumption, SMTT(60) DEF Ordered, Script
<1>4. config # Nothing /\ r.seed = config.seed /\ (r.sent => landed = Sent(o))
  BY <1>1, <1>2, <1>3, Zenon DEF Informed, Seeing
<1>5. /\ Receipt(o).seed = r.seed /\ Receipt(o).initialized = r.sent
      /\ Receipt(o).by = o /\ Receipt(o).attempt = attempts[o]
  BY Zenon DEF Receipt
<1>6. Sent(o).by = o /\ Sent(o).attempt = attempts[o]
  BY Zenon DEF Sent
<1>7. \A e \in receipts \cup {Receipt(o)} :
        /\ config # Nothing
        /\ e.seed = config.seed
        /\ e.initialized => landed.by = e.by /\ landed.attempt = e.attempt
  BY <1>4, <1>5, <1>6, Zenon DEF ReceiptsAgree
<1>8. ReceiptsAgree'
  BY <1>2, <1>7, Zenon DEF ReceiptsAgree
<1> QED
  BY <1>2, <1>8, StopMoves, Zenon

\* A governance change to one account between the steps of a script.
LEMMA ConfigureKeeps ==
  ASSUME ClusterOK, FlightOK, ScriptsOK, ReceiptsAgree,
         NEW a \in Accounts, NEW s \in Settings, Configure(a, s)
  PROVE  ClusterOK' /\ FlightOK' /\ ScriptsOK' /\ ReceiptsAgree'
<1> DEFINE acc == Changed(config.accounts[a], s)
<1>1. config \in Config /\ config # Nothing
  BY Zenon DEF Configure, ClusterOK
<1>2. config.seed \in Seeds /\ config.accounts \in [Accounts -> Account]
  BY <1>1, Zenon DEF Config
<1>3. \A x \in Account : Changed(x, s) \in Account
  BY SMTT(60) DEF Account, Changed
<1>4. acc \in Account
  BY <1>2, <1>3, Zenon
<1>5. config' = [config EXCEPT !.accounts = [config.accounts EXCEPT ![a] = acc]]
  BY <1>1, Zenon DEF Configure, Config
<1> HIDE DEF acc
<1>6. [config.accounts EXCEPT ![a] = acc] \in [Accounts -> Account]
  BY <1>2, <1>4, Zenon
<1>7. config' \in Config /\ config'.seed = config.seed
  BY <1>1, <1>5, <1>6, Zenon DEF Config
<1>8. config' # Nothing
  BY <1>7, DeploymentAssumption, Zenon
<1>9. DirtyAll /\ UNCHANGED <<code, landed, flight, run, attempts, receipts>>
  BY Zenon DEF Configure
<1>10. ReceiptsAgree'
  BY <1>7, <1>8, <1>9, AgreeKeeps, Zenon
<1> QED
  BY <1>1, <1>7, <1>8, <1>9, <1>10, ChangeKeeps, Zenon

\* Every step of an operator, the network or governance keeps the invariant.
LEMMA DeploymentStepInv ==
  ASSUME DeploymentInv, [DeploymentNext]_deploymentVars
  PROVE  DeploymentInv'
<1>1. ClusterOK /\ FlightOK /\ ScriptsOK /\ ReceiptsAgree
  BY Zenon DEF DeploymentInv
<1> SUFFICES ClusterOK' /\ FlightOK' /\ ScriptsOK' /\ ReceiptsAgree'
  BY Zenon DEF DeploymentInv
<1>2. ASSUME NEW t \in flight, Land(t)
      PROVE  ClusterOK' /\ FlightOK' /\ ScriptsOK' /\ ReceiptsAgree'
  <2>1. config = Nothing /\ receipts' = receipts
    BY <1>2, Zenon DEF Land, InitializeProtocol
  <2> QED
    BY <1>1, <1>2, <2>1, LandKeeps, AgreeKeeps, Zenon
<1>3. ASSUME NEW t \in flight, Reject(t) \/ Lose(t)
      PROVE  ClusterOK' /\ FlightOK' /\ ScriptsOK' /\ ReceiptsAgree'
  <2>1. flight' \subseteq flight /\ UNCHANGED <<code, config, landed, run, attempts, clean, receipts>>
    BY <1>3, Zenon DEF Reject, Lose, cluster
  <2> QED
    BY <1>1, <2>1, FewerFlights, AgreeKeeps, Zenon
<1>4. ASSUME NEW a \in Accounts, NEW s \in Settings, Configure(a, s)
      PROVE  ClusterOK' /\ FlightOK' /\ ScriptsOK' /\ ReceiptsAgree'
  BY <1>1, <1>4, ConfigureKeeps, Zenon
<1>5. ASSUME NEW k, SetUpgradeAuthority(k)
      PROVE  ClusterOK' /\ FlightOK' /\ ScriptsOK' /\ ReceiptsAgree'
  <2>1. DirtyAll /\ UNCHANGED <<code, config, landed, flight, run, attempts, receipts>>
    BY <1>5, Zenon DEF SetUpgradeAuthority
  <2>2. config' \in Config \cup {Nothing}
    BY <1>1, <2>1, Zenon DEF ClusterOK
  <2> QED
    BY <1>1, <2>1, <2>2, ChangeKeeps, AgreeKeeps, Zenon
<1>6. ASSUME NEW o \in Operators, NEW plan \in Plans, NEW binary \in Codes, Start(o, plan, binary)
      PROVE  ClusterOK' /\ FlightOK' /\ ScriptsOK' /\ ReceiptsAgree'
  <2>1. UNCHANGED <<config, landed, receipts>>
    BY <1>6, Zenon DEF Start, cluster
  <2> QED
    BY <1>1, <1>6, <2>1, StartKeeps, AgreeKeeps, Zenon
<1>7. ASSUME NEW o \in Operators, Reading(o),
             UNCHANGED <<cluster, flight, attempts, clean, receipts, changes, faults>>
      PROVE  ClusterOK' /\ FlightOK' /\ ScriptsOK' /\ ReceiptsAgree'
  <2>1. UNCHANGED <<code, config, landed, flight, attempts, clean, receipts>>
    BY <1>7, Zenon DEF cluster
  <2> QED
    BY <1>1, <1>7, <2>1, ReadingKeeps, AgreeKeeps, Zenon
<1>8. ASSUME NEW o \in Operators, Deploy(o)
      PROVE  ClusterOK' /\ FlightOK' /\ ScriptsOK' /\ ReceiptsAgree'
  <2>1. UNCHANGED <<config, landed, receipts>>
    BY <1>8, Zenon DEF Deploy
  <2> QED
    BY <1>1, <1>8, <2>1, DeployKeeps, AgreeKeeps, Zenon
<1>9. ASSUME NEW o \in Operators, Send(o)
      PROVE  ClusterOK' /\ FlightOK' /\ ScriptsOK' /\ ReceiptsAgree'
  <2>1. UNCHANGED <<config, landed, receipts>>
    BY <1>9, Zenon DEF Send, cluster
  <2> QED
    BY <1>1, <1>9, <2>1, SendKeeps, AgreeKeeps, Zenon
<1>10. ASSUME NEW o \in Operators, Finalize(o)
       PROVE  ClusterOK' /\ FlightOK' /\ ScriptsOK' /\ ReceiptsAgree'
  BY <1>1, <1>10, FinalizeKeeps, Zenon
<1>11. ASSUME NEW o \in Operators, Interrupt(o)
       PROVE  ClusterOK' /\ FlightOK' /\ ScriptsOK' /\ ReceiptsAgree'
  <2>1. Stop(o) /\ UNCHANGED <<code, config, landed, flight, attempts, clean, receipts>>
    BY <1>11, Zenon DEF Interrupt, cluster
  <2> QED
    BY <1>1, <2>1, StopMoves, AgreeKeeps, Zenon
<1>12. ASSUME UNCHANGED deploymentVars
       PROVE  ClusterOK' /\ FlightOK' /\ ScriptsOK' /\ ReceiptsAgree'
  <2>1. UNCHANGED <<code, config, landed, flight, run, attempts, clean, receipts>>
    BY <1>12, Zenon DEF deploymentVars, cluster
  <2> QED
    BY <1>1, <2>1, FewerFlights, AgreeKeeps, Zenon
<1> QED
  BY <1>2, <1>3, <1>4, <1>5, <1>6, <1>7, <1>8, <1>9, <1>10, <1>11, <1>12, ZenonT(60)
  DEF DeploymentNext, ClusterNext, ScriptNext, Progress

\* A receipt appears only where a script finalises, and is its own.
LEMMA WhoPublishes ==
  ASSUME DeploymentNext, NEW e \in receipts' \ receipts
  PROVE  \E o \in Operators : Finalize(o) /\ e = Receipt(o)
<1>1. ~(receipts' = receipts)
  OBVIOUS
<1>2. ~ClusterNext
  BY <1>1, Zenon DEF ClusterNext, Land, Reject, Lose, Configure, SetUpgradeAuthority
<1>3. PICK o \in Operators : Progress(o) \/ Interrupt(o)
  BY <1>2, Zenon DEF DeploymentNext, ScriptNext
<1>4. Finalize(o)
  BY <1>1, <1>3, Zenon DEF Progress, Interrupt, Start, Deploy, Send
<1> QED
  BY <1>4, Zenon DEF Finalize
-----------------------------------------------------------------------------
(* The theorems.                                                           *)

\* What scripts hold fits the cluster in every reachable state, however they
\* race, stop and start again (scripts/deploy-latest.sh, run_rpc).
THEOREM DeploymentInvariant == DeploymentSpec => []DeploymentInv
<1>1. DeploymentInv /\ [DeploymentNext]_deploymentVars => DeploymentInv'
  BY DeploymentStepInv, Zenon
<1> QED
  BY <1>1, InitKeeps, PTL DEF DeploymentSpec

\* Every receipt shows the domain the cluster has, and the one that names an
\* initialisation is of the run whose transaction did it (run_rpc;
\* handle_initialize_protocol).
THEOREM DeploymentReceiptsAgree == DeploymentSpec => []ReceiptsAgree
<1>1. DeploymentInv => ReceiptsAgree
  BY Zenon DEF DeploymentInv
<1> QED
  BY <1>1, DeploymentInvariant, PTL

\* A receipt published while nobody else wrote to the cluster shows the
\* configuration and the program that are there (finalize_deployment_receipt).
THEOREM DeploymentQuietReceipts == DeploymentSpec => QuietReceiptsTrue
<1> DEFINE Shown == \A r \in receipts' \ receipts :
                      clean[r.by] => r.accounts = config.accounts /\ r.code = code
<1>1. DeploymentInv /\ [DeploymentNext]_deploymentVars => [Shown]_deploymentVars
  <2> SUFFICES ASSUME DeploymentInv, DeploymentNext, NEW e \in receipts' \ receipts, clean[e.by]
               PROVE  e.accounts = config.accounts /\ e.code = code
    OBVIOUS
  <2>1. PICK o \in Operators : Finalize(o) /\ e = Receipt(o)
    BY WhoPublishes, Zenon
  <2>2. e.by = o /\ e.accounts = Snapshot(o) /\ e.code = run[o].binary
    BY <2>1, Zenon DEF Receipt
  <2>3. run[o].stage = "finalize"
    BY <2>1, Zenon DEF Finalize, At
  <2>4. Ordered(run[o]) /\ Current(run[o], config, code) /\ Informed(run[o], config, landed, Sent(o))
    BY <2>2, Zenon DEF DeploymentInv, ScriptsOK
  <2>5. config \in Config
    BY <2>3, <2>4, Zenon DEF Informed, Seeing, DeploymentInv, ClusterOK
  <2>6. Snapshot(o) = config.accounts
    BY <2>3, <2>4, <2>5, SnapshotWhole, Zenon
  <2>7. run[o].binary = code
    BY <2>3, <2>4, Zenon DEF Ordered, Current
  <2> QED
    BY <2>2, <2>6, <2>7, Zenon
<1> QED
  BY <1>1, DeploymentInvariant, PTL DEF DeploymentSpec, QuietReceiptsTrue

\* A script that replaces the code of an initialised protocol nobody else
\* touched holds the executable it replaces and the configuration it has to
\* find again (the dump and the fingerprint of scripts/deploy-latest.sh).
THEOREM DeploymentBackups == DeploymentSpec => UpgradesBackedUp
<1> DEFINE Held == \A o \in Operators :
                     (At(o, "deploy") /\ run'[o].stage = "control" /\ clean[o] /\ config # Nothing)
                       => run[o].rollback = code /\ run[o].before = config.accounts
<1>1. DeploymentInv => Held
  BY Zenon DEF DeploymentInv, ScriptsOK, Current, At
<1> QED
  BY <1>1, DeploymentInvariant, PTL DEF UpgradesBackedUp
-----------------------------------------------------------------------------
(* Whitelists: groups, policies and their invariant.                       *)

\* The groups and their members, with no curator a candidate to its own group.
GroupsOK ==
  /\ groups \in [GroupIds -> AddressGroup \cup {NoGroup}]
  /\ nextGroup \in 0..MaxGroups
  /\ members \subseteq GroupIds \X Users
  /\ \A g \in GroupIds : groups[g] # NoGroup => groups[g].pending # groups[g].curator

\* The whitelists: within their limit, and allowing groups that exist.
PoliciesOK ==
  /\ whitelists \in [Deposits -> DepositWhitelist \cup {NoWhitelist}]
  /\ direct \subseteq Deposits \X Users
  /\ \A d \in Deposits : whitelists[d] # NoWhitelist =>
       Cardinality(whitelists[d].allowed) <= MaxAllowed
  /\ AllowedGroupsExist

\* The invariant in three parts, one per kind of account.
LEMMA WhitelistParts ==
  WhitelistInv <=> GroupsOK /\ PoliciesOK /\ approves \subseteq Resolvers \X GroupIds \X Users
BY Zenon DEF WhitelistInv, WhitelistTypeOK, GroupsOK, PoliciesOK

\* Setting or clearing a flag keeps a set of flags within its type.
LEMMA WithType ==
  ASSUME NEW T, NEW S \in SUBSET T, NEW x \in T, NEW flag
  PROVE  With(S, x, flag) \in SUBSET T
BY Zenon DEF With

\* A step that leaves the policies alone and closes no group keeps the policies.
LEMMA PoliciesStand ==
  ASSUME PoliciesOK, UNCHANGED depositVars,
         \A g \in GroupIds : groups[g] # NoGroup => groups'[g] # NoGroup
  PROVE  PoliciesOK'
<1>1. whitelists' = whitelists /\ direct' = direct
  BY Zenon DEF depositVars
<1>2. AllowedGroupsExist'
  <2> SUFFICES ASSUME NEW d \in Deposits, whitelists[d] # NoWhitelist,
                      NEW g \in whitelists[d].allowed
               PROVE  groups'[g] # NoGroup
    BY <1>1, Zenon DEF AllowedGroupsExist, Exists
  <2>1. whitelists[d] \in DepositWhitelist
    BY Zenon DEF PoliciesOK
  <2>2. g \in GroupIds
    BY <2>1, SMTT(60) DEF DepositWhitelist
  <2> QED
    BY <2>2, Zenon DEF PoliciesOK, AllowedGroupsExist, Exists
<1> QED
  BY <1>1, <1>2, Zenon DEF PoliciesOK

\* A handler that writes one group, whose curator is not waiting for itself.
LEMMA GroupWritten ==
  ASSUME GroupsOK, PoliciesOK, NEW g \in GroupIds, NEW r \in AddressGroup,
         r.pending # r.curator, groups' = [groups EXCEPT ![g] = r],
         nextGroup' \in 0..MaxGroups, UNCHANGED <<members, depositVars, approves>>
  PROVE  GroupsOK' /\ PoliciesOK'
<1>1. r # NoGroup
  BY WhitelistAssumption, Zenon
<1>2. \A h \in GroupIds : groups'[h] = IF h = g THEN r ELSE groups[h]
  BY Zenon DEF GroupsOK
<1>3. groups' \in [GroupIds -> AddressGroup \cup {NoGroup}]
  BY Zenon DEF GroupsOK
<1>4. GroupsOK'
  BY <1>2, <1>3, Zenon DEF GroupsOK
<1>5. PoliciesOK'
  BY <1>1, <1>2, PoliciesStand, Zenon
<1> QED
  BY <1>4, <1>5, Zenon

\* A handler that writes memberships only.
LEMMA MemberWritten ==
  ASSUME GroupsOK, PoliciesOK, NEW g \in GroupIds, NEW v \in Users, NEW active,
         members' = With(members, <<g, v>>, active),
         UNCHANGED <<groups, nextGroup, depositVars, approves>>
  PROVE  GroupsOK' /\ PoliciesOK'
<1>1. members' \in SUBSET (GroupIds \X Users)
  BY WithType, ZenonT(60) DEF GroupsOK
<1>2. GroupsOK'
  BY <1>1, Zenon DEF GroupsOK
<1>3. PoliciesOK'
  BY PoliciesStand, Zenon
<1> QED
  BY <1>2, <1>3, Zenon

\* Everything a curator, a member or anybody creating a group can do.
LEMMA GroupStep ==
  ASSUME GroupsOK, PoliciesOK, GroupNext
  PROVE  GroupsOK' /\ PoliciesOK' /\ UNCHANGED approves
<1>1. PICK u \in Users :
        \/ \E public \in BOOLEAN : CreateAddressGroup(u, public)
        \/ \E g \in GroupIds :
             \/ \E public \in BOOLEAN, r \in Resolvers \cup {NoResolver},
                   v \in Users \cup {NoOne} : ConfigureAddressGroup(u, g, public, r, v)
             \/ AcceptGroupCurator(u, g)
             \/ \E v \in Users, active \in BOOLEAN : SetGroupMember(u, g, v, active)
             \/ \E active \in BOOLEAN : SetSelfGroupMember(u, g, active)
  BY Zenon DEF GroupNext
<1>2. ASSUME NEW public \in BOOLEAN, CreateAddressGroup(u, public)
      PROVE  GroupsOK' /\ PoliciesOK' /\ UNCHANGED approves
  <2> DEFINE r == [curator |-> u, pending |-> NoOne, public |-> public,
                   resolver |-> NoResolver]
  <2>1. r \in AddressGroup /\ r.pending # r.curator
    BY WhitelistAssumption, SMTT(60) DEF AddressGroup
  <2>2. nextGroup \in GroupIds /\ nextGroup' \in 0..MaxGroups
    BY <1>2, WhitelistAssumption, SMTT(60) DEF CreateAddressGroup, GroupsOK, GroupIds
  <2>3. /\ groups' = [groups EXCEPT ![nextGroup] = r]
        /\ UNCHANGED <<members, depositVars, approves>>
    BY <1>2, Zenon DEF CreateAddressGroup
  <2> HIDE DEF r
  <2> QED
    BY <2>1, <2>2, <2>3, GroupWritten, Zenon
<1>3. ASSUME NEW g \in GroupIds, NEW public \in BOOLEAN, NEW p \in Resolvers \cup {NoResolver},
             NEW v \in Users \cup {NoOne}, ConfigureAddressGroup(u, g, public, p, v)
      PROVE  GroupsOK' /\ PoliciesOK' /\ UNCHANGED approves
  <2> DEFINE r == [groups[g] EXCEPT !.public = public, !.resolver = p, !.pending = v]
  <2>1. groups[g] \in AddressGroup /\ groups[g].pending # groups[g].curator
    BY <1>3, Zenon DEF ConfigureAddressGroup, Exists, GroupsOK
  <2>2. v # groups[g].pending => v # groups[g].curator
    BY <1>3, Zenon DEF ConfigureAddressGroup
  <2>3. r \in AddressGroup /\ r.pending # r.curator
    <3>1. /\ r \in AddressGroup
          /\ r.pending = v /\ r.curator = groups[g].curator
      BY <2>1, Zenon DEF AddressGroup
    <3> QED
      BY <2>1, <2>2, <3>1, Zenon
  <2>4. /\ groups' = [groups EXCEPT ![g] = r] /\ nextGroup' = nextGroup
        /\ UNCHANGED <<members, depositVars, approves>>
    BY <1>3, Zenon DEF ConfigureAddressGroup
  <2> HIDE DEF r
  <2> QED
    BY <2>3, <2>4, GroupWritten, Zenon DEF GroupsOK
<1>4. ASSUME NEW g \in GroupIds, AcceptGroupCurator(u, g)
      PROVE  GroupsOK' /\ PoliciesOK' /\ UNCHANGED approves
  <2> DEFINE r == [groups[g] EXCEPT !.curator = u, !.pending = NoOne]
  <2>1. groups[g] \in AddressGroup
    BY <1>4, Zenon DEF AcceptGroupCurator, Exists, GroupsOK
  <2>2. r \in AddressGroup /\ r.pending # r.curator
    <3>1. /\ r \in AddressGroup
          /\ r.pending = NoOne /\ r.curator = u
      BY <2>1, Zenon DEF AddressGroup
    <3> QED
      BY <3>1, WhitelistAssumption, Zenon
  <2>3. /\ groups' = [groups EXCEPT ![g] = r] /\ nextGroup' = nextGroup
        /\ UNCHANGED <<members, depositVars, approves>>
    BY <1>4, Zenon DEF AcceptGroupCurator
  <2> HIDE DEF r
  <2> QED
    BY <2>2, <2>3, GroupWritten, Zenon DEF GroupsOK
<1>5. ASSUME NEW g \in GroupIds, NEW v \in Users, NEW active \in BOOLEAN,
             SetGroupMember(u, g, v, active) \/ (v = u /\ SetSelfGroupMember(u, g, active))
      PROVE  GroupsOK' /\ PoliciesOK' /\ UNCHANGED approves
  BY <1>5, MemberWritten, Zenon DEF SetGroupMember, SetSelfGroupMember
<1> QED
  BY <1>1, <1>2, <1>3, <1>4, <1>5, Zenon
-----------------------------------------------------------------------------
\* A handler that writes the policy of one deposit, within the cap and with
\* groups that exist.
LEMMA PolicyWritten ==
  ASSUME GroupsOK, PoliciesOK, NEW d \in Deposits, NEW w \in DepositWhitelist,
         Cardinality(w.allowed) <= MaxAllowed, \A g \in w.allowed : Exists(g),
         whitelists' = [whitelists EXCEPT ![d] = w], UNCHANGED <<groupVars, direct, approves>>
  PROVE  GroupsOK' /\ PoliciesOK'
<1>1. \A c \in Deposits : whitelists'[c] = IF c = d THEN w ELSE whitelists[c]
  BY Zenon DEF PoliciesOK
<1>2. whitelists' \in [Deposits -> DepositWhitelist \cup {NoWhitelist}]
  BY Zenon DEF PoliciesOK
<1>3. groups' = groups /\ nextGroup' = nextGroup /\ members' = members /\ direct' = direct
  BY Zenon DEF groupVars
<1>4. GroupsOK'
  BY <1>3, Zenon DEF GroupsOK
<1>5. AllowedGroupsExist'
  BY <1>1, <1>3, Zenon DEF PoliciesOK, AllowedGroupsExist, Exists
<1>6. PoliciesOK'
  BY <1>1, <1>2, <1>3, <1>5, Zenon DEF PoliciesOK
<1> QED
  BY <1>4, <1>6, Zenon

\* Allowing one group more, below the cap, or one fewer.
LEMMA AllowedCount ==
  ASSUME NEW S \in SUBSET GroupIds, NEW g \in GroupIds, NEW allowed \in BOOLEAN,
         allowed <=> g \notin S, Cardinality(S) <= MaxAllowed,
         allowed => Cardinality(S) < MaxAllowed
  PROVE  /\ With(S, g, allowed) \in SUBSET GroupIds
         /\ Cardinality(With(S, g, allowed)) <= MaxAllowed
<1>1. With(S, g, allowed) \in SUBSET GroupIds
  BY WithType, Zenon
<1>2. IsFiniteSet(GroupIds)
  BY FS_Interval, WhitelistAssumption, SMTT(60) DEF GroupIds
<1>3. IsFiniteSet(S) /\ Cardinality(S) \in Nat
  BY <1>2, FS_Subset, FS_CardinalityType, Zenon
<1>4. CASE allowed
  <2>1. With(S, g, allowed) = S \cup {g}
    BY <1>4, Zenon DEF With
  <2>2. Cardinality(S \cup {g}) = Cardinality(S) + 1
    BY <1>3, <1>4, FS_AddElement, Zenon
  <2>3. Cardinality(S) < MaxAllowed
    BY <1>4, Zenon
  <2>4. Cardinality(S \cup {g}) <= MaxAllowed
    BY <1>3, <2>2, <2>3, WhitelistAssumption, SMTT(60)
  <2> QED
    BY <1>1, <2>1, <2>4, Zenon
<1>5. CASE ~allowed
  <2>1. With(S, g, allowed) = S \ {g}
    BY <1>5, Zenon DEF With
  <2>2. Cardinality(S \ {g}) = Cardinality(S) - 1
    BY <1>3, <1>5, FS_RemoveElement, Zenon
  <2> QED
    BY <1>1, <1>3, <2>1, <2>2, WhitelistAssumption, SMTT(60)
<1> QED
  BY <1>4, <1>5, Zenon

\* Everything a depositor or a delegate can do to a policy.
LEMMA PolicyStep ==
  ASSUME GroupsOK, PoliciesOK, PolicyNext
  PROVE  GroupsOK' /\ PoliciesOK' /\ UNCHANGED approves
<1>1. PICK u \in Users, d \in Deposits :
        \/ \E enabled \in BOOLEAN :
             InitializeDepositWhitelist(u, d, enabled) \/ SetWhitelistEnabled(u, d, enabled)
        \/ \E g \in GroupIds, allowed \in BOOLEAN : SetDepositAllowedGroup(u, d, g, allowed)
        \/ \E v \in Users, active \in BOOLEAN : SetDepositWhitelistMember(u, d, v, active)
  BY Zenon DEF PolicyNext
<1>2. ASSUME whitelists[d] # NoWhitelist
      PROVE  /\ whitelists[d] \in DepositWhitelist
             /\ whitelists[d].allowed \in SUBSET GroupIds
             /\ Cardinality(whitelists[d].allowed) <= MaxAllowed
             /\ \A g \in whitelists[d].allowed : Exists(g)
  <2>1. whitelists[d] \in DepositWhitelist
    BY <1>2, Zenon DEF PoliciesOK
  <2>2. whitelists[d].allowed \in SUBSET GroupIds
    BY <2>1, Zenon DEF DepositWhitelist
  <2> QED
    BY <1>2, <2>1, <2>2, Zenon DEF PoliciesOK, AllowedGroupsExist
<1>3. ASSUME NEW enabled \in BOOLEAN, InitializeDepositWhitelist(u, d, enabled)
      PROVE  GroupsOK' /\ PoliciesOK' /\ UNCHANGED approves
  <2> DEFINE w == [enabled |-> enabled, allowed |-> {}]
  <2>1. w \in DepositWhitelist /\ w.allowed = {}
    BY Zenon DEF DepositWhitelist
  <2>2. /\ whitelists' = [whitelists EXCEPT ![d] = w]
        /\ UNCHANGED <<groupVars, direct, approves>>
    BY <1>3, Zenon DEF InitializeDepositWhitelist
  <2> HIDE DEF w
  <2>3. Cardinality(w.allowed) <= MaxAllowed
    BY <2>1, FS_EmptySet, WhitelistAssumption, SMTT(60)
  <2> QED
    BY <2>1, <2>2, <2>3, PolicyWritten, Zenon
<1>4. ASSUME NEW enabled \in BOOLEAN, SetWhitelistEnabled(u, d, enabled)
      PROVE  GroupsOK' /\ PoliciesOK' /\ UNCHANGED approves
  <2> DEFINE w == [whitelists[d] EXCEPT !.enabled = enabled]
  <2>1. whitelists[d] # NoWhitelist
    BY <1>4, Zenon DEF SetWhitelistEnabled
  <2>2. w \in DepositWhitelist /\ w.allowed = whitelists[d].allowed
    BY <1>2, <2>1, Zenon DEF DepositWhitelist
  <2>3. /\ whitelists' = [whitelists EXCEPT ![d] = w]
        /\ UNCHANGED <<groupVars, direct, approves>>
    BY <1>4, Zenon DEF SetWhitelistEnabled
  <2> HIDE DEF w
  <2> QED
    BY <1>2, <2>1, <2>2, <2>3, PolicyWritten, Zenon
<1>5. ASSUME NEW g \in GroupIds, NEW allowed \in BOOLEAN,
             SetDepositAllowedGroup(u, d, g, allowed)
      PROVE  GroupsOK' /\ PoliciesOK' /\ UNCHANGED approves
  <2> DEFINE S == whitelists[d].allowed
             w == [whitelists[d] EXCEPT !.allowed = With(S, g, allowed)]
  <2>1. /\ whitelists[d] # NoWhitelist /\ Exists(g)
        /\ allowed <=> g \notin S
        /\ allowed => Cardinality(S) < MaxAllowed
    BY <1>5, Zenon DEF SetDepositAllowedGroup
  <2>2. /\ With(S, g, allowed) \in SUBSET GroupIds
        /\ Cardinality(With(S, g, allowed)) <= MaxAllowed
    <3> HIDE DEF S
    <3>1. S \in SUBSET GroupIds /\ Cardinality(S) <= MaxAllowed
      BY <1>2, <2>1, Zenon DEF S
    <3> QED
      BY <2>1, <3>1, AllowedCount, Zenon
  <2>3. w \in DepositWhitelist /\ w.allowed = With(S, g, allowed)
    BY <1>2, <2>1, <2>2, Zenon DEF DepositWhitelist
  <2>4. \A h \in w.allowed : Exists(h)
    <3>1. With(S, g, allowed) \subseteq S \cup {g}
      BY Zenon DEF With
    <3> QED
      BY <1>2, <2>1, <2>3, <3>1, Zenon
  <2>5. /\ whitelists' = [whitelists EXCEPT ![d] = w]
        /\ UNCHANGED <<groupVars, direct, approves>>
    BY <1>5, Zenon DEF SetDepositAllowedGroup
  <2> HIDE DEF w
  <2> QED
    BY <2>2, <2>3, <2>4, <2>5, PolicyWritten, Zenon
<1>6. ASSUME NEW v \in Users, NEW active \in BOOLEAN, SetDepositWhitelistMember(u, d, v, active)
      PROVE  GroupsOK' /\ PoliciesOK' /\ UNCHANGED approves
  <2>1. /\ direct' = With(direct, <<d, v>>, active)
        /\ UNCHANGED <<groups, nextGroup, members, whitelists, approves>>
    BY <1>6, Zenon DEF SetDepositWhitelistMember, groupVars
  <2>2. direct' \in SUBSET (Deposits \X Users)
    BY <2>1, WithType, Zenon DEF PoliciesOK
  <2>3. GroupsOK'
    BY <2>1, Zenon DEF GroupsOK
  <2>4. AllowedGroupsExist'
    BY <2>1, Zenon DEF PoliciesOK, AllowedGroupsExist, Exists
  <2> QED
    BY <2>1, <2>2, <2>3, <2>4, Zenon DEF PoliciesOK
<1> QED
  BY <1>1, <1>3, <1>4, <1>5, <1>6, Zenon

\* The invariant holds before the first group and the first policy.
LEMMA WhitelistInitInv == WhitelistInit => WhitelistInv
<1> SUFFICES ASSUME WhitelistInit PROVE WhitelistInv
  OBVIOUS
<1>1. GroupsOK
  BY WhitelistAssumption, SMTT(60) DEF WhitelistInit, GroupsOK, GroupIds
<1>2. PoliciesOK
  BY Zenon DEF WhitelistInit, PoliciesOK, AllowedGroupsExist
<1> QED
  BY <1>1, <1>2, WhitelistParts, Zenon DEF WhitelistInit

\* Curators, members, makers and resolvers keep the invariant.
LEMMA WhitelistNextInv == WhitelistInv /\ [WhitelistNext]_whitelistVars => WhitelistInv'
<1> SUFFICES ASSUME WhitelistInv, [WhitelistNext]_whitelistVars PROVE WhitelistInv'
  OBVIOUS
<1> DEFINE Answers == Resolvers \X GroupIds \X Users
<1>1. GroupsOK /\ PoliciesOK /\ approves \subseteq Answers
  BY WhitelistParts, Zenon
<1>2. ASSUME UNCHANGED <<groupVars, depositVars>> PROVE GroupsOK' /\ PoliciesOK'
  BY <1>1, <1>2, PoliciesStand, Zenon DEF GroupsOK, groupVars
<1>3. ASSUME GroupsOK' /\ PoliciesOK' /\ approves' \subseteq Answers PROVE WhitelistInv'
  BY <1>3, Zenon DEF WhitelistInv, WhitelistTypeOK, GroupsOK, PoliciesOK
<1>4. CASE GroupNext \/ PolicyNext
  BY <1>1, <1>3, <1>4, GroupStep, PolicyStep, Zenon
<1>5. CASE ResolverNext
  <2>1. PICK r \in Resolvers, g \in GroupIds, v \in Users, yes \in BOOLEAN :
          ResolverChanges(r, g, v, yes)
    BY <1>5, Zenon DEF ResolverNext
  <2>2. <<r, g, v>> \in Answers
    BY SMTT(60)
  <2>3. approves' \in SUBSET Answers
    BY <1>1, <2>1, <2>2, WithType, Zenon DEF ResolverChanges
  <2> QED
    BY <1>2, <1>3, <2>1, <2>3, Zenon DEF ResolverChanges
<1> QED
  BY <1>1, <1>2, <1>3, <1>4, <1>5, Zenon DEF WhitelistNext, whitelistVars

\* In every reachable state policies stay within their cap and allow only groups
\* that exist, and no curator is waiting to succeed themselves.
THEOREM WhitelistInvariant == WhitelistSpec => []WhitelistInv
BY WhitelistInitInv, WhitelistNextInv, PTL DEF WhitelistSpec
-----------------------------------------------------------------------------
(* What evidence can prove.                                                *)

\* The fields of a taker's evidence.
LEMMA EvidenceFields ==
  ASSUME NEW d, NEW setting, NEW w, NEW e \in EvidenceFor(d, setting, w)
  PROVE  /\ e.whitelist \in BOOLEAN /\ (e.whitelist => whitelists[d] # NoWhitelist)
         /\ e.group = NoGroup \/ e.group \in GroupIds
         /\ e.resolver = NoResolver \/ e.resolver \in Resolvers
         /\ e.setting \in BOOLEAN /\ (e.setting => setting # "absent")
         /\ e.risk \in BOOLEAN /\ (e.risk => w # NoWindow)
         /\ e.dispute \in BOOLEAN
<1>1. /\ e.whitelist \in If(whitelists[d] # NoWhitelist)
      /\ e.group \in {g \in GroupIds : Exists(g)} \cup {NoGroup}
      /\ e.resolver \in Resolvers \cup {NoResolver}
      /\ e.setting \in If(setting # "absent")
      /\ e.risk \in If(w # NoWindow)
      /\ e.dispute \in BOOLEAN
  BY Zenon DEF EvidenceFor
<1>2. \A p, x : x \in If(p) => x \in BOOLEAN /\ (x => p)
  BY Zenon DEF If
<1> QED
  BY <1>1, <1>2, Zenon

\* The resolver half says yes only of a taker the group's resolver approves.
LEMMA ResolverSound ==
  ASSUME NEW t, NEW e, ResolverSaysYes(t, e) = "yes"
  PROVE  <<groups[e.group].resolver, e.group, t>> \in approves
BY SMTT(60) DEF ResolverSaysYes

\* No evidence makes the whitelist say yes to a taker who is no member.
LEMMA AllowsSound ==
  ASSUME NEW t, NEW d, NEW e, whitelists[d] # NoWhitelist,
         WhitelistAllows(t, d, e) = "yes"
  PROVE  Whitelisted(t, d)
<1>1. CASE e.direct /\ <<d, t>> \in direct
  BY <1>1, Zenon DEF Whitelisted
<1>2. CASE ~(e.direct /\ <<d, t>> \in direct) /\ e.group # NoGroup
  <2>1. e.group \in whitelists[d].allowed
    BY <1>2, SMTT(60) DEF WhitelistAllows
  <2>2. \/ <<e.group, t>> \in members
        \/ ResolverSaysYes(t, e) = "yes"
    BY <1>2, <2>1, SMTT(60) DEF WhitelistAllows
  <2> QED
    BY <2>1, <2>2, ResolverSound, Zenon DEF Whitelisted, InGroup
<1>3. CASE ~(e.direct /\ <<d, t>> \in direct) /\ e.group = NoGroup
  BY <1>3, SMTT(60) DEF WhitelistAllows
<1> QED
  BY <1>1, <1>2, <1>3, Zenon
\* The evidence of a call: membership by `dir`, `g`, `m` and `r`, and the accounts
\* of the dispute half.
Evidence(wl, dir, g, m, r, setting, risk, dispute) ==
  [whitelist |-> wl, direct |-> dir, group |-> g, member |-> m, resolver |-> r,
   setting |-> setting, risk |-> risk, dispute |-> dispute]

\* A taker can pass any accounts that exist.
LEMMA EvidencePassed ==
  ASSUME NEW d, NEW setting, NEW w,
         NEW wl \in BOOLEAN, wl => whitelists[d] # NoWhitelist,
         NEW dir \in BOOLEAN, NEW m \in BOOLEAN,
         NEW g, g = NoGroup \/ (g \in GroupIds /\ Exists(g)),
         NEW r \in Resolvers \cup {NoResolver},
         NEW s \in BOOLEAN, s => setting # "absent",
         NEW k \in BOOLEAN, k => w # NoWindow, NEW x \in BOOLEAN
  PROVE  Evidence(wl, dir, g, m, r, s, k, x) \in EvidenceFor(d, setting, w)
<1>1. \A p \in BOOLEAN, y \in BOOLEAN : (y => p) => y \in If(p)
  BY Zenon DEF If
<1>2. wl \in If(whitelists[d] # NoWhitelist) /\ s \in If(setting # "absent")
      /\ k \in If(w # NoWindow)
  BY <1>1, Zenon
<1>3. g \in {h \in GroupIds : Exists(h)} \cup {NoGroup}
  BY Zenon
<1> QED
  BY <1>2, <1>3, Zenon DEF Evidence, EvidenceFor

\* Every member has evidence that the whitelist accepts: the account of a direct
\* membership, the group's with the membership, or the group's with its resolver.
LEMMA MemberHasEvidence ==
  ASSUME WhitelistInv, NEW t \in Users, NEW d \in Deposits, Whitelisted(t, d),
         NEW setting, NEW w
  PROVE  \E e \in EvidenceFor(d, setting, w) :
           e.whitelist /\ NoDisputeEvidence(e) /\ WhitelistAllows(t, d, e) = "yes"
<1>0. whitelists[d] # NoWhitelist
  BY Zenon DEF Whitelisted
<1>1. CASE <<d, t>> \in direct
  <2> DEFINE e == Evidence(TRUE, TRUE, NoGroup, FALSE, NoResolver, FALSE, FALSE, FALSE)
  <2>1. e \in EvidenceFor(d, setting, w)
    BY <1>0, EvidencePassed, Zenon
  <2>2. e.whitelist /\ NoDisputeEvidence(e) /\ e.direct /\ NoGroupEvidence(e)
    BY Zenon DEF Evidence, NoDisputeEvidence, NoGroupEvidence
  <2> HIDE DEF e
  <2>3. WhitelistAllows(t, d, e) = "yes"
    BY <1>1, <2>2, Zenon DEF WhitelistAllows
  <2> QED
    BY <2>1, <2>2, <2>3, Zenon
<1>2. ASSUME NEW g \in whitelists[d].allowed, InGroup(t, g)
      PROVE  \E e \in EvidenceFor(d, setting, w) :
               e.whitelist /\ NoDisputeEvidence(e) /\ WhitelistAllows(t, d, e) = "yes"
  <2>1. whitelists[d] \in DepositWhitelist
    BY <1>0, Zenon DEF WhitelistInv, WhitelistTypeOK
  <2>2. g \in GroupIds /\ Exists(g) /\ g # NoGroup
    <3>1. g \in GroupIds
      BY <2>1, Zenon DEF DepositWhitelist
    <3> QED
      BY <1>0, <3>1, WhitelistAssumption, Zenon DEF WhitelistInv, AllowedGroupsExist
  <2>3. CASE <<g, t>> \in members
    <3> DEFINE e == Evidence(TRUE, FALSE, g, TRUE, NoResolver, FALSE, FALSE, FALSE)
    <3>1. e \in EvidenceFor(d, setting, w)
      BY <1>0, <2>2, EvidencePassed, Zenon
    <3>2. /\ e.whitelist /\ NoDisputeEvidence(e) /\ ~e.direct /\ e.group = g
          /\ e.member /\ e.resolver = NoResolver
      BY Zenon DEF Evidence, NoDisputeEvidence
    <3> HIDE DEF e
    <3>3. WhitelistAllows(t, d, e) = "yes"
      BY <1>2, <2>2, <2>3, <3>2, Zenon DEF WhitelistAllows
    <3> QED
      BY <3>1, <3>2, <3>3, Zenon
  <2>4. CASE <<groups[g].resolver, g, t>> \in approves
    <3> DEFINE r == groups[g].resolver
               e == Evidence(TRUE, FALSE, g, FALSE, r, FALSE, FALSE, FALSE)
    <3>0. r \in Resolvers /\ r # NoResolver
      BY <2>4, WhitelistAssumption, SMTT(60) DEF WhitelistInv, WhitelistTypeOK
    <3>1. e \in EvidenceFor(d, setting, w)
      BY <1>0, <2>2, <3>0, EvidencePassed, Zenon
    <3>2. /\ e.whitelist /\ NoDisputeEvidence(e) /\ ~e.direct /\ e.group = g
          /\ ~e.member /\ e.resolver = r
      BY Zenon DEF Evidence, NoDisputeEvidence
    <3> HIDE DEF e
    <3>3. ResolverSaysYes(t, e) = "yes"
      BY <2>4, <3>0, <3>2, Zenon DEF ResolverSaysYes
    <3>4. WhitelistAllows(t, d, e) = "yes"
      BY <1>2, <2>2, <3>2, <3>3, Zenon DEF WhitelistAllows
    <3> QED
      BY <3>1, <3>2, <3>4, Zenon
  <2> QED
    BY <1>2, <2>3, <2>4, Zenon DEF InGroup
<1> QED
  BY <1>1, <1>2, Zenon DEF Whitelisted
\* What the whitelist half of validate_lifecycle_admission makes of evidence.
Allows(t, d, e) ==
  IF e.whitelist /\ whitelists[d].enabled THEN WhitelistAllows(t, d, e)
  ELSE IF NoWhitelistEvidence(e) THEN "no" ELSE "refused"

\* Admission under a whitelist policy, and under a dispute policy, by that half.
LEMMA WhitelistPolicy ==
  ASSUME NEW setting, NEW w, NEW t, NEW d, NEW e
  PROVE  Admission("Whitelist", setting, w, t, d, e) = "open" <=>
           /\ Allows(t, d, e) # "refused"
           /\ ~(e.whitelist /\ whitelists[d].enabled) \/ Allows(t, d, e) = "yes"
           /\ NoDisputeEvidence(e)
BY SMTT(60) DEF Admission, Allows

\* What admission under a dispute policy makes of the whitelist's answer.
LEMMA DisputePolicy ==
  ASSUME NEW setting, NEW w, NEW t, NEW d, NEW e
  PROVE  LET A == Admission("WhitelistAndDispute", setting, w, t, d, e)
             optOut == e.setting /\ setting = "disabled"
         IN /\ Allows(t, d, e) = "refused" => A = "refused"
            /\ Allows(t, d, e) = "yes" => A = IF NoDisputeEvidence(e) THEN "open" ELSE "refused"
            /\ Allows(t, d, e) = "no" /\ optOut => A \in {"open", "refused"}
            /\ /\ Allows(t, d, e) = "no" /\ optOut
               /\ ~e.dispute /\ ~e.risk /\ ~(e.whitelist /\ whitelists[d].enabled)
               => A = "open"
            /\ Allows(t, d, e) = "no" /\ ~optOut => A = DisputeAdmission(w, e)
BY SMTT(60) DEF Admission, Allows

\* The whitelist half answers yes, no or with an error, and yes only for a member
\* of an enabled whitelist.
LEMMA AllowsAnswers ==
  ASSUME NEW t, NEW d, NEW e, e.whitelist => whitelists[d] # NoWhitelist
  PROVE  /\ Allows(t, d, e) \in {"yes", "no", "refused"}
         /\ Allows(t, d, e) = "yes" => Whitelisted(t, d) /\ whitelists[d].enabled
<1>1. ResolverSaysYes(t, e) \in {"yes", "no", "refused"}
  BY SMTT(60) DEF ResolverSaysYes
<1>2. WhitelistAllows(t, d, e) \in {"yes", "no", "refused"}
  <2> DEFINE R == ResolverSaysYes(t, e)
  <2>1. R \in {"yes", "no", "refused"}
    BY <1>1, Zenon
  <2> HIDE DEF R
  <2> QED
    BY <2>1, SMTT(60) DEF WhitelistAllows, R
<1>3. CASE e.whitelist /\ whitelists[d].enabled
  BY <1>2, <1>3, AllowsSound, Zenon DEF Allows
<1>4. CASE ~(e.whitelist /\ whitelists[d].enabled)
  BY <1>4, Zenon DEF Allows
<1> QED
  BY <1>3, <1>4, Zenon

\* On an enabled whitelist whose account is passed, a taker is admitted exactly
\* when a member: validate_lifecycle_admission accepts no evidence of another, and
\* some evidence of every one.
THEOREM WhitelistExact == WhitelistSpec => []SuppliedWhitelistExact
<1>1. ASSUME WhitelistInv PROVE SuppliedWhitelistExact
  <2> SUFFICES ASSUME NEW d \in Deposits, NEW t \in Users,
                      whitelists[d] # NoWhitelist, whitelists[d].enabled
               PROVE  (\E e \in EvidenceFor(d, "absent", NoWindow) :
                         e.whitelist /\ Admission("Whitelist", "absent", NoWindow, t, d, e) = "open")
                        <=> Whitelisted(t, d)
    BY Zenon DEF SuppliedWhitelistExact
  <2>1. ASSUME NEW e, e.whitelist, Admission("Whitelist", "absent", NoWindow, t, d, e) = "open"
        PROVE  Whitelisted(t, d)
    <3>1. Allows(t, d, e) = "yes"
      BY <2>1, WhitelistPolicy, Zenon
    <3> QED
      BY <3>1, AllowsAnswers, Zenon
  <2>2. ASSUME Whitelisted(t, d)
        PROVE  \E e \in EvidenceFor(d, "absent", NoWindow) :
                 e.whitelist /\ Admission("Whitelist", "absent", NoWindow, t, d, e) = "open"
    <3>1. PICK e \in EvidenceFor(d, "absent", NoWindow) :
            e.whitelist /\ NoDisputeEvidence(e) /\ WhitelistAllows(t, d, e) = "yes"
      BY <1>1, <2>2, MemberHasEvidence, Zenon
    <3>2. Allows(t, d, e) = "yes"
      BY <3>1, Zenon DEF Allows
    <3>3. Allows(t, d, e) # "refused"
      BY <3>2, Zenon
    <3> QED
      BY <3>1, <3>2, <3>3, WhitelistPolicy, Zenon
  <2> QED
    BY <2>1, <2>2, Zenon
<1> QED
  BY <1>1, WhitelistInvariant, PTL
\* The dispute half admits without collateral only at a zero window and with
\* collateral only at a positive one.
LEMMA DisputeAnswers ==
  ASSUME NEW w, NEW e
  PROVE  /\ DisputeAdmission(w, e) = "open" => w = 0
         /\ DisputeAdmission(w, e) = "collateral" => e.risk /\ w # 0
         /\ e.risk /\ w = 0 /\ ~e.dispute => DisputeAdmission(w, e) = "open"
         /\ e.risk /\ w # 0 /\ e.dispute => DisputeAdmission(w, e) = "collateral"
BY SMTT(60) DEF DisputeAdmission

\* A call without whitelist accounts leaves the decision to the dispute half.
LEMMA Bare ==
  ASSUME NEW t, NEW d, NEW e, ~e.whitelist, NoWhitelistEvidence(e)
  PROVE  Allows(t, d, e) = "no"
BY Zenon DEF Allows

\* Under a dispute policy the accounts a taker may leave out open exactly three
\* ways in without collateral (a membership, the maker's opt-out, a zero risk
\* window), and collateral is taken exactly where there is a risk window.
THEOREM WhitelistAdmission == WhitelistSpec => []AdmissionExact
<1>1. ASSUME WhitelistInv PROVE AdmissionExact
  <2> SUFFICES ASSUME NEW d \in Deposits, NEW t \in Users,
                      NEW setting \in DisputeSettings, NEW w \in Windows
               PROVE  /\ (\E e \in EvidenceFor(d, setting, w) :
                            Admission("WhitelistAndDispute", setting, w, t, d, e) = "open") <=>
                           \/ Whitelisted(t, d) /\ whitelists[d].enabled
                           \/ setting = "disabled"
                           \/ w = 0
                      /\ (\E e \in EvidenceFor(d, setting, w) :
                            Admission("WhitelistAndDispute", setting, w, t, d, e) = "collateral")
                           <=> w = 1
    BY Zenon DEF AdmissionExact
  <2> DEFINE A(e) == Admission("WhitelistAndDispute", setting, w, t, d, e)
  <2>0. 0 # NoWindow /\ 1 # NoWindow /\ 1 # 0 /\ (w # NoWindow /\ w # 0 => w = 1)
    BY WhitelistAssumption, SMTT(60) DEF Windows
  <2>1. ASSUME NEW e \in EvidenceFor(d, setting, w)
        PROVE  /\ A(e) = "open" => \/ Whitelisted(t, d) /\ whitelists[d].enabled
                                   \/ setting = "disabled"
                                   \/ w = 0
               /\ A(e) = "collateral" => w = 1
    <3>1. (e.whitelist => whitelists[d] # NoWhitelist) /\ (e.risk => w # NoWindow)
      BY EvidenceFields, Zenon
    <3>2. Allows(t, d, e) \in {"yes", "no", "refused"}
      BY <3>1, AllowsAnswers, Zenon
    <3>3. CASE Allows(t, d, e) = "refused"
      <4>1. A(e) = "refused"
        BY <3>3, DisputePolicy, Zenon
      <4> QED
        BY <4>1, Zenon
    <3>4. CASE Allows(t, d, e) = "yes"
      <4>1. A(e) = IF NoDisputeEvidence(e) THEN "open" ELSE "refused"
        BY <3>4, DisputePolicy, Zenon
      <4>2. A(e) # "collateral"
        BY <4>1, Zenon
      <4> QED
        BY <3>1, <3>4, <4>2, AllowsAnswers, Zenon
    <3>5. CASE Allows(t, d, e) = "no" /\ e.setting /\ setting = "disabled"
      <4>1. A(e) \in {"open", "refused"}
        BY <3>5, DisputePolicy, Zenon
      <4>2. A(e) # "collateral"
        BY <4>1, Zenon
      <4> QED
        BY <3>5, <4>2, Zenon
    <3>6. CASE Allows(t, d, e) = "no" /\ ~(e.setting /\ setting = "disabled")
      <4>1. A(e) = DisputeAdmission(w, e)
        BY <3>6, DisputePolicy, SMTT(60)
      <4> QED
        BY <2>0, <3>1, <4>1, DisputeAnswers, Zenon
    <3> QED
      BY <3>2, <3>3, <3>4, <3>5, <3>6, Zenon
  <2>2. ASSUME Whitelisted(t, d), whitelists[d].enabled
        PROVE  \E e \in EvidenceFor(d, setting, w) : A(e) = "open"
    <3>1. PICK e \in EvidenceFor(d, setting, w) :
            e.whitelist /\ NoDisputeEvidence(e) /\ WhitelistAllows(t, d, e) = "yes"
      BY <1>1, <2>2, MemberHasEvidence, Zenon
    <3>2. Allows(t, d, e) = "yes"
      BY <2>2, <3>1, Zenon DEF Allows
    <3>3. A(e) = "open"
      BY <3>1, <3>2, DisputePolicy, SMTT(60)
    <3> QED
      BY <3>3, Zenon
  <2>3. ASSUME setting = "disabled"
        PROVE  \E e \in EvidenceFor(d, setting, w) : A(e) = "open"
    <3>0. setting # "absent"
      BY <2>3, Zenon
    <3> DEFINE e == Evidence(FALSE, FALSE, NoGroup, FALSE, NoResolver, TRUE, FALSE, FALSE)
    <3>1. e \in EvidenceFor(d, setting, w)
      BY <3>0, EvidencePassed, Zenon
    <3>2. /\ ~e.whitelist /\ NoWhitelistEvidence(e)
          /\ e.setting /\ ~e.risk /\ ~e.dispute
      BY Zenon DEF Evidence, NoWhitelistEvidence, NoGroupEvidence
    <3> HIDE DEF e
    <3>3. Allows(t, d, e) = "no"
      BY <3>2, Bare, Zenon
    <3>4. A(e) = "open"
      BY <2>3, <3>3, <3>2, DisputePolicy, Zenon
    <3> QED
      BY <3>1, <3>4, Zenon
  <2>4. ASSUME w = 0
        PROVE  \E e \in EvidenceFor(d, setting, w) : A(e) = "open"
    <3> DEFINE e == Evidence(FALSE, FALSE, NoGroup, FALSE, NoResolver, FALSE, TRUE, FALSE)
    <3>1. e \in EvidenceFor(d, setting, w)
      BY <2>0, <2>4, EvidencePassed, Zenon
    <3>2. /\ ~e.whitelist /\ NoWhitelistEvidence(e)
          /\ ~e.setting /\ e.risk /\ ~e.dispute
      BY Zenon DEF Evidence, NoWhitelistEvidence, NoGroupEvidence
    <3> HIDE DEF e
    <3>3. Allows(t, d, e) = "no"
      BY <3>2, Bare, Zenon
    <3>4. A(e) = DisputeAdmission(w, e)
      BY <3>3, <3>2, DisputePolicy, Zenon
    <3> QED
      BY <2>4, <3>1, <3>2, <3>4, DisputeAnswers, Zenon
  <2>5. ASSUME w = 1
        PROVE  \E e \in EvidenceFor(d, setting, w) : A(e) = "collateral"
    <3> DEFINE e == Evidence(FALSE, FALSE, NoGroup, FALSE, NoResolver, FALSE, TRUE, TRUE)
    <3>1. e \in EvidenceFor(d, setting, w)
      BY <2>0, <2>5, EvidencePassed, Zenon
    <3>2. /\ ~e.whitelist /\ NoWhitelistEvidence(e)
          /\ ~e.setting /\ e.risk /\ e.dispute
      BY Zenon DEF Evidence, NoWhitelistEvidence, NoGroupEvidence
    <3> HIDE DEF e
    <3>3. Allows(t, d, e) = "no"
      BY <3>2, Bare, Zenon
    <3>4. A(e) = DisputeAdmission(w, e)
      BY <3>3, <3>2, DisputePolicy, Zenon
    <3> QED
      BY <2>0, <2>5, <3>1, <3>2, <3>4, DisputeAnswers, ZenonT(60)
  <2> HIDE DEF A
  <2>6. /\ (\E e \in EvidenceFor(d, setting, w) : A(e) = "open") <=>
             \/ Whitelisted(t, d) /\ whitelists[d].enabled
             \/ setting = "disabled"
             \/ w = 0
        /\ (\E e \in EvidenceFor(d, setting, w) : A(e) = "collateral") <=> w = 1
    BY <2>1, <2>2, <2>3, <2>4, <2>5, Zenon
  <2> QED
    BY <2>6, Zenon DEF A
<1> QED
  BY <1>1, WhitelistInvariant, PTL
=============================================================================
