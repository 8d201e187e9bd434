--------------------------- MODULE ExecutionProofs ---------------------------
(***************************************************************************)
(* Proofs about what a run does at its target and what becomes of its      *)
(* findings, for every value of the constants of MCExecution: the database *)
(* phase, the login, the execution of scripts by concurrent runs, the      *)
(* inbox and the documents; and the types of all of them.                  *)
(***************************************************************************)
EXTENDS LimitsProofs

-----------------------------------------------------------------------------
(* The database phase                                                      *)

USE DEF dbVars

\* Whoever is about to write, or to build a database, has passed the gate.
DbGuarded ==
  /\ pc \in {"gate", "connect"} => inForce # "off"
  /\ pc = "connect" /\ inForce = "full" => DbState!Disposable(target)
  /\ conn = "rw" => DbState!Disposable(target)
  /\ db = "empty" => DbState!MayProvision

DbInv ==
  /\ DbState!DbTypeOK
  /\ DbGuarded
  /\ DbState!FindingsAreFailures

-----------------------------------------------------------------------------
\* The edges of the Brain, and the checks derived from them.
LEMMA DbWrites ==
  /\ Len(MCWrites) \in Nat /\ DOMAIN MCWrites = 1 .. Len(MCWrites)
  /\ Len(DbState!Checks) = Len(MCWrites)
  /\ \A i \in DOMAIN MCWrites :
       /\ DbState!Checks[i] = DbState!CheckFor(MCWrites[i])
       /\ MCWrites[i][2] \in DbState!Tables
<1>1. Len(MCWrites) = 3 /\ DOMAIN MCWrites = 1 .. 3
  BY DEF MCWrites
<1>2. \A i \in DOMAIN MCWrites : MCWrites[i][2] \in DbState!Tables
  BY DEF DbState!Tables, DbState!ToSet
<1>3. DOMAIN DbState!Checks = 1 .. 3
  BY <1>1 DEF DbState!Checks
<1>4. Len(DbState!Checks) = 3
  BY <1>3
<1> QED
  BY <1>1, <1>2, <1>4 DEF DbState!Checks

\* A check is of its table, and of the rule where a DELETE is soft.
LEMMA DbCheck ==
  ASSUME NEW i \in DOMAIN MCWrites
  PROVE  /\ DbState!Checks[i] \in DbState!Finding
         /\ DbState!Checks[i].table = MCWrites[i][2]
         /\ DbState!Checks[i].oracle = "rule_derived" <=> DbState!IsSoft(i)
         /\ \A seen \in DbState!Contents :
              DbState!Holds(DbState!Checks[i], seen) <=>
                ~(seen = "empty" \/ (DbState!IsSoft(i) /\ seen = "live"))
<1>1. DbState!Checks[i] = DbState!CheckFor(MCWrites[i]) /\ MCWrites[i][2] \in DbState!Tables
  BY DbWrites
<1>2. CASE DbState!IsSoft(i)
  <2>1. DbState!Checks[i] = [table |-> MCWrites[i][2], predicate |-> "soft_deleted",
                             oracle |-> "rule_derived"]
    BY <1>1, <1>2 DEF DbState!CheckFor, DbState!IsSoft
  <2> QED
    BY <1>1, <1>2, <2>1 DEF DbState!Finding, DbState!Holds, DbState!Contents
<1>3. CASE ~DbState!IsSoft(i)
  <2>1. DbState!Checks[i] = [table |-> MCWrites[i][2], predicate |-> "row_present",
                             oracle |-> "characterization"]
    BY <1>1, <1>3 DEF DbState!CheckFor, DbState!IsSoft
  <2> QED
    BY <1>1, <1>3, <2>1 DEF DbState!Finding, DbState!Holds, DbState!Contents
<1> QED
  BY <1>2, <1>3

LEMMA DbInit == DbState!Init => DbInv
<1> SUFFICES ASSUME DbState!Init PROVE DbInv
  OBVIOUS
<1>1. DbState!DbTypeOK
  <2>1. /\ observed \in Seq(DbState!Contents) /\ Len(observed) = 0
        /\ dbFindings \in Seq(DbState!Finding) /\ Len(dbFindings) = 0
    BY DEF DbState!Init
  <2>2. 1 \in 1 .. Len(MCWrites) + 1
    BY DbWrites
  <2>3. next = 1 /\ Len(observed) = next - 1 /\ Len(dbFindings) < next
    BY <2>1 DEF DbState!Init
  <2> QED
    BY <2>1, <2>2, <2>3, Zenon DEF DbState!Init, DbState!DbTypeOK, DbState!Tiers
<1>2. DbGuarded
  BY DEF DbState!Init, DbGuarded
<1>3. DbState!FindingsAreFailures
  <2> DEFINE at == [k \in {} |-> 0]
  <2>1. DOMAIN dbFindings = {} /\ DOMAIN observed = {}
    BY DEF DbState!Init
  <2>2. at \in [DOMAIN dbFindings -> DOMAIN observed]
    BY <2>1
  <2> QED
    BY <2>1, <2>2, Zenon DEF DbState!FindingsAreFailures
<1> QED
  BY <1>1, <1>2, <1>3 DEF DbInv

LEMMA DbNext == DbInv /\ [DbState!Next]_dbVars => DbInv'
<1> SUFFICES ASSUME DbInv, [DbState!Next]_dbVars PROVE DbInv'
  OBVIOUS
<1>t. DbState!DbTypeOK /\ DbGuarded /\ DbState!FindingsAreFailures
  BY DEF DbInv
<1>1. ASSUME UNCHANGED <<observed, dbFindings>>, DbState!DbTypeOK', DbGuarded' PROVE DbInv'
  BY <1>1, <1>t DEF DbInv, DbState!FindingsAreFailures, DbState!Failed
<1>2. ASSUME NEW t \in DbState!Tiers, DbState!SetTier(t) PROVE DbInv'
  BY <1>1, <1>2, <1>t DEF DbState!SetTier, DbState!DbTypeOK, DbGuarded, DbState!MayProvision
<1>3. ASSUME NEW t \in DbState!Tables, NEW c \in DbState!Contents, DbState!Application(t, c)
      PROVE  DbInv'
  BY <1>1, <1>3, <1>t DEF DbState!Application, DbState!DbTypeOK, DbGuarded, DbState!MayProvision
<1>4. ASSUME NEW h \in BOOLEAN, DbState!BeginPhase(h) PROVE DbInv'
  BY <1>1, <1>4, <1>t DEF DbState!BeginPhase, DbState!DbTypeOK, DbGuarded, DbState!MayProvision
<1>5. CASE DbState!Gate
  <2>1. /\ pc = "gate" /\ pc' \in {"done", "connect"}
        /\ pc' = "connect" => DbState!Admits(target) /\ outcome' = outcome
        /\ outcome' \in {outcome, "refused", "completed"}
        /\ UNCHANGED <<tier, target, inForce, anchored, conn, rows, next, observed,
                       dbFindings, db>>
    BY <1>5 DEF DbState!Gate
  <2> QED
    BY <1>1, <1>t, <2>1 DEF DbState!DbTypeOK, DbGuarded, DbState!MayProvision, DbState!Admits
<1>6. CASE DbState!Connect
  BY <1>1, <1>6, <1>t DEF DbState!Connect, DbState!DbTypeOK, DbState!Tiers, DbGuarded,
     DbState!MayProvision
<1>7. CASE DbState!ConnectFailed
  BY <1>1, <1>7, <1>t DEF DbState!ConnectFailed, DbState!DbTypeOK, DbGuarded,
     DbState!MayProvision
<1>8. CASE DbState!AssertState
  <2> DEFINE check == DbState!Checks[next]
             seen == rows[check.table]
  <2>1. /\ pc = "assert" /\ next <= Len(DbState!Checks) /\ next' = next + 1
        /\ observed' = Append(observed, seen)
        /\ dbFindings' = IF DbState!Holds(check, seen) THEN dbFindings
                         ELSE Append(dbFindings, check)
        /\ UNCHANGED <<tier, target, pc, inForce, anchored, conn, rows, outcome, db>>
    BY <1>8 DEF DbState!AssertState
  <2>2. next \in DOMAIN MCWrites /\ next \in Nat
    BY <1>t, <2>1, DbWrites DEF DbState!DbTypeOK
  <2>3. /\ check \in DbState!Finding /\ check.table = MCWrites[next][2]
        /\ check.table \in DbState!Tables
        /\ check.oracle = "rule_derived" <=> DbState!IsSoft(next)
        /\ \A s \in DbState!Contents : DbState!Holds(check, s) <=>
                ~(s = "empty" \/ (DbState!IsSoft(next) /\ s = "live"))
    BY <2>2, DbCheck, DbWrites
  <2> HIDE DEF check
  <2>4. seen \in DbState!Contents
    BY <1>t, <2>3 DEF DbState!DbTypeOK
  <2> HIDE DEF seen
  <2>5. /\ observed \in Seq(DbState!Contents) /\ Len(observed) = next - 1
        /\ dbFindings \in Seq(DbState!Finding) /\ Len(dbFindings) < next
    BY <1>t DEF DbState!DbTypeOK
  <2>6. DbState!DbTypeOK'
    BY <1>t, <2>1, <2>2, <2>3, <2>4, <2>5, DbWrites DEF DbState!DbTypeOK
  <2>7. DbGuarded'
    BY <1>t, <2>1 DEF DbGuarded, DbState!MayProvision
  <2>8. DbState!FindingsAreFailures'
    <3>1. PICK at \in [DOMAIN dbFindings -> DOMAIN observed] :
            /\ \A i \in DOMAIN observed :
                 DbState!Failed(i) <=> \E k \in DOMAIN dbFindings : at[k] = i
            /\ \A j, k \in DOMAIN dbFindings : j < k => at[j] < at[k]
            /\ \A k \in DOMAIN dbFindings :
                 /\ dbFindings[k].table = MCWrites[at[k]][2]
                 /\ dbFindings[k].oracle = "rule_derived" <=> DbState!IsSoft(at[k])
      BY <1>t DEF DbState!FindingsAreFailures
    <3>2. /\ DOMAIN observed = 1 .. next - 1 /\ DOMAIN observed' = 1 .. next
          /\ observed'[next] = seen /\ \A i \in DOMAIN observed : observed'[i] = observed[i]
          /\ DOMAIN dbFindings = 1 .. Len(dbFindings) /\ Len(dbFindings) \in Nat
      <4>1. DOMAIN observed = 1 .. next - 1 /\ DOMAIN dbFindings = 1 .. Len(dbFindings)
        BY <2>5
      <4>2. observed' = Append(observed, seen)
        BY <2>1
      <4> QED
        BY <2>2, <2>4, <2>5, <4>1, <4>2
    <3>3. /\ \A i \in DOMAIN observed : DbState!Failed(i)' <=> DbState!Failed(i)
          /\ \A i : i = next => (DbState!Failed(i)' <=> ~DbState!Holds(check, seen))
      BY <2>3, <2>4, <3>2 DEF DbState!Failed
    <3>4. CASE DbState!Holds(check, seen)
      <4>1. dbFindings' = dbFindings /\ at \in [DOMAIN dbFindings' -> DOMAIN observed']
        BY <2>1, <2>2, <3>2, <3>4
      <4>2. \A i \in DOMAIN observed' :
              DbState!Failed(i)' <=> \E k \in DOMAIN dbFindings' : at[k] = i
        <5>1. ASSUME NEW k \in DOMAIN dbFindings PROVE at[k] # next
          BY <2>2, <3>1, <3>2
        <5>2. \A i \in DOMAIN observed' : i = next \/ i \in DOMAIN observed
          BY <2>2, <3>2
        <5> QED
          BY <3>1, <3>3, <3>4, <4>1, <5>1, <5>2
      <4> QED
        BY <3>1, <4>1, <4>2 DEF DbState!FindingsAreFailures, DbState!Failed
    <3>5. CASE ~DbState!Holds(check, seen)
      <4> DEFINE n == Len(dbFindings) + 1
                 more == [k \in 1 .. n |-> IF k = n THEN next ELSE at[k]]
      <4>1. /\ DOMAIN dbFindings' = 1 .. n /\ dbFindings'[n] = check
            /\ \A k \in DOMAIN dbFindings : dbFindings'[k] = dbFindings[k]
        BY <2>1, <2>3, <2>5, <3>5
      <4>2. /\ more[n] = next /\ \A k \in DOMAIN dbFindings : more[k] = at[k] /\ k < n
            /\ \A k \in 1 .. n : k = n \/ k \in DOMAIN dbFindings
        BY <3>2
      <4>3. more \in [DOMAIN dbFindings' -> DOMAIN observed']
        BY <2>2, <3>1, <3>2, <4>1
      <4> HIDE DEF more, n
      <4>4. \A i \in DOMAIN observed' :
              DbState!Failed(i)' <=> \E k \in DOMAIN dbFindings' : more[k] = i
        <5>1. ASSUME NEW k \in DOMAIN dbFindings PROVE at[k] # next
          BY <2>2, <3>1, <3>2
        <5>2. \A i \in DOMAIN observed' : i = next \/ i \in DOMAIN observed
          BY <2>2, <3>2
        <5>3. n \in DOMAIN dbFindings' /\ DOMAIN dbFindings \subseteq DOMAIN dbFindings'
          BY <3>2, <4>1 DEF n
        <5>4. (\A i : i = next => DbState!Failed(i)') /\ more[n] = next
          BY <3>3, <3>5, <4>2
        <5>5. ASSUME NEW i \in DOMAIN observed, i # next
              PROVE  DbState!Failed(i)' <=> \E k \in DOMAIN dbFindings' : more[k] = i
          BY <3>1, <3>3, <4>1, <4>2, <5>3, <5>4, <5>5
        <5> QED
          BY <5>2, <5>3, <5>4, <5>5
      <4>5. \A j, k \in DOMAIN dbFindings' : j < k => more[j] < more[k]
        BY <2>2, <3>1, <3>2, <4>1, <4>2 DEF n
      <4>6. \A k \in DOMAIN dbFindings' :
              /\ dbFindings'[k].table = MCWrites[more[k]][2]
              /\ dbFindings'[k].oracle = "rule_derived" <=> DbState!IsSoft(more[k])
        BY <2>3, <3>1, <3>2, <4>1, <4>2
      <4> QED
        BY <4>3, <4>4, <4>5, <4>6 DEF DbState!FindingsAreFailures, DbState!Failed,
           DbState!IsSoft
    <3> QED
      BY <3>4, <3>5
  <2> QED
    BY <2>6, <2>7, <2>8 DEF DbInv
<1>9. ASSUME NEW result \in {"refused_mid", "raised"}, DbState!AssertFailed(result) PROVE DbInv'
  BY <1>1, <1>9, <1>t DEF DbState!AssertFailed, DbState!DbTypeOK, DbGuarded, DbState!MayProvision
<1>10. CASE DbState!AllAsserted
  BY <1>1, <1>10, <1>t DEF DbState!AllAsserted, DbState!DbTypeOK, DbGuarded, DbState!MayProvision
<1>11. CASE DbState!Close
  BY <1>1, <1>11, <1>t DEF DbState!Close, DbState!DbTypeOK, DbGuarded, DbState!MayProvision
<1>12. CASE DbState!DropAndCreate \/ DbState!CreateFailed \/ DbState!Migrate
  BY <1>1, <1>12, <1>t DEF DbState!DropAndCreate, DbState!CreateFailed, DbState!Migrate,
     DbState!DbTypeOK, DbGuarded, DbState!MayProvision
<1>13. CASE UNCHANGED dbVars
  BY <1>1, <1>13, <1>t DEF DbState!DbTypeOK, DbGuarded, DbState!MayProvision
<1> QED
  BY <1>2, <1>3, <1>4, <1>5, <1>6, <1>7, <1>8, <1>9, <1>10, <1>11, <1>12, <1>13
     DEF DbState!Next

\* What the findings are, and the types, of the invariant; the action property follows from
\* what DbGuarded says of whoever writes.
LEMMA DbReal ==
  DbInv /\ [DbState!Next]_dbVars =>
    /\ conn' = "rw" => ~DbState!Real(target) /\ target.flagged
    /\ db' # db => ~DbState!Real(target)
<1> SUFFICES ASSUME DbInv, [DbState!Next]_dbVars
             PROVE  /\ conn' = "rw" => ~DbState!Real(target) /\ target.flagged
                    /\ db' # db => ~DbState!Real(target)
  OBVIOUS
<1>1. DbGuarded /\ DbGuarded'
  BY DbNext DEF DbInv
<1>2. target' = target
  BY DEF DbState!Next, DbState!SetTier, DbState!Application, DbState!BeginPhase, DbState!Gate,
     DbState!Connect, DbState!ConnectFailed, DbState!AssertState, DbState!AssertFailed,
     DbState!AllAsserted, DbState!Close, DbState!DropAndCreate, DbState!CreateFailed,
     DbState!Migrate
<1>3. conn' = "rw" => DbState!Disposable(target)
  BY <1>1, <1>2 DEF DbGuarded, DbState!Disposable
<1>4. db' # db => DbState!MayProvision
  BY <1>1 DEF DbGuarded, DbState!Next, DbState!SetTier, DbState!Application,
     DbState!BeginPhase, DbState!Gate, DbState!Connect, DbState!ConnectFailed,
     DbState!AssertState, DbState!AssertFailed, DbState!AllAsserted, DbState!Close,
     DbState!DropAndCreate, DbState!CreateFailed, DbState!Migrate
<1>5. target.flagged \in BOOLEAN /\ \E t \in MCTargets : t = target
  BY DEF DbInv, DbState!DbTypeOK, MCTargets
<1>6. DbState!Disposable(target) => ~DbState!Real(target) /\ target.flagged
  BY DEF DbState!Disposable, DbState!Real
<1>7. DbState!MayProvision => ~DbState!Real(target)
  BY <1>5 DEF DbState!MayProvision, DbState!Disposable, DbState!Real, MCTargets
<1> QED
  BY <1>3, <1>4, <1>6, <1>7

\* The phase is in one focus of the run and stutters in the others.
LEMMA DbSpec == Spec => []DbInv
<1>1. Init => DbInv
  BY DbInit DEF Init
<1>2. DbInv /\ [Next]_vars => DbInv'
  <2>1. [Next]_vars => [DbState!Next]_dbVars
    BY DEF Next, vars
  <2> QED
    BY <2>1, DbNext
<1> QED
  BY <1>1, <1>2, PTL DEF Spec

\* The findings of the database phase (db_state/oracle.py) are the checks that failed, in their
\* order, each with the table it is about and the oracle that decided it, whether or not the
\* phase got through them all.
THEOREM FindingsAreFailuresHolds == Spec => []FindingsAreFailures
<1>1. DbInv => FindingsAreFailures
  BY DEF DbInv, FindingsAreFailures
<1> QED
  BY <1>1, DbSpec, PTL

\* A database that may be a real one is never opened for writing, created over or dropped
\* (ADR-0043): the gate of db_state/gate.py stands before both, whatever a target's flag says.
THEOREM RealIsUntouchedHolds == Spec => RealIsUntouched
<1> DEFINE A == /\ conn' = "rw" => ~DbState!Real(target) /\ target.flagged
                /\ db' # db => ~DbState!Real(target)
<1>1. DbInv /\ [Next]_vars => [A]_(DbState!dbVars)
  <2>1. [Next]_vars => [DbState!Next]_dbVars
    BY DEF Next, vars
  <2> QED
    BY <2>1, DbReal
<1> QED
  BY <1>1, DbSpec, PTL DEF Spec, RealIsUntouched, DbState!RealIsUntouched

-----------------------------------------------------------------------------
(* The login at the target                                                 *)

USE DEF loginVars

LoginSealed(values) == [key : VaultKeys \cup {Login!NoKey}, value : values \cup {"nothing"}]
LoginVault ==
  [mode : {"none", "polaris_creates", "specific_account"}, account : Accounts \cup {"nobody"},
   secret : LoginSealed(Passwords), totp : LoginSealed(Login!Seeds)]
LoginSession == [who : Accounts \cup {"anonymous", "none"}, made : Nat]
LoginRun ==
  [pc : {"idle", "named", "ready", "crawl", "skipped", "failed"},
   mode : {"none", "polaris_creates", "specific_account"}, account : Accounts \cup {"nobody"},
   secret : Passwords \cup {"nothing"}, seed : Login!Seeds \cup {"nothing"},
   checked : BOOLEAN, session : LoginSession, logins : 0 .. MaxLogins]

\* The types of the rows and records in full.
LoginTypes ==
  /\ key \in VaultKeys \cup {Login!NoKey} /\ password \in Passwords /\ moved \in BOOLEAN
  /\ vault \in LoginVault /\ run \in LoginRun /\ cache \in LoginSession
  /\ config \in {"absent", "blank", "unchecked", "checked"}
  /\ written \subseteq {"success", "failure"} /\ clock \in Nat /\ edits \in 0 .. MaxEdits

\* A vault that is set up for an account holds one, and a secret.
LoginStored ==
  vault.mode = "specific_account" =>
    vault.account \in Accounts /\ vault.secret.key # Login!NoKey

\* A session is kept since a login of this run, is in the log and is the account's.
LoginKept ==
  /\ run.pc \in {"named", "ready", "failed"} => cache = Login!NoSession
  /\ run.pc # "idle" /\ cache # Login!NoSession =>
       "success" \in written /\ (run.checked => cache.who = run.account)

\* What the run has read is what is stored, unless it was changed since.
LoginRead ==
  /\ run.pc = "idle" => run = Login!Idle
  /\ run.pc = "named" => run.account = "nobody"
  /\ run.account = "nobody" => ~run.checked
  /\ run.pc = "named" /\ ~moved /\ vault.mode = "specific_account" =>
       run.mode = "specific_account"
  /\ run.pc \in {"ready", "crawl"} /\ ~moved /\
     vault.mode = "specific_account" /\ Login!IsConfigured =>
       run.account = vault.account /\ run.mode = "specific_account"

LoginInv ==
  /\ LoginTypes
  /\ LoginStored
  /\ LoginKept
  /\ LoginRead
  /\ Login!CheckedSessionIsReal

-----------------------------------------------------------------------------
LEMMA LoginConstants ==
  /\ Login!NoSession \in LoginSession /\ Login!NoRow \in LoginVault /\ Login!Idle \in LoginRun
  /\ Login!NoRow.mode = "none" /\ Login!NoSecret.key = Login!NoKey
  /\ Login!Idle.pc = "idle" /\ Login!Idle.account = "nobody" /\ ~Login!Idle.checked
  /\ Login!Idle.logins = 0
  /\ Login!NoSecret \in LoginSealed(Passwords) /\ Login!NoSecret \in LoginSealed(Login!Seeds)
BY LoginAssumption DEF Login!NoSession, LoginSession, Login!NoRow, LoginVault, Login!Idle,
   LoginRun, Login!NoSecret, LoginSealed, Login!NoKey

\* The whole types give those the module states.
LEMMA LoginFields == LoginTypes => Login!TypeOK
BY DEF LoginTypes, Login!TypeOK, LoginVault, LoginRun, LoginSession, LoginSealed

LEMMA LoginInit == Login!Init => LoginInv
<1> SUFFICES ASSUME Login!Init PROVE LoginInv
  OBVIOUS
<1>1. /\ vault = Login!NoRow /\ run = Login!Idle /\ cache = Login!NoSession
      /\ key \in VaultKeys /\ password \in Passwords /\ written = {} /\ clock = 0 /\ edits = 0
      /\ moved = FALSE /\ config \in {"absent", "blank", "unchecked", "checked"}
  BY DEF Login!Init
<1>2. 0 \in 0 .. MaxEdits /\ 0 \in Nat
  BY LoginAssumption
<1>3. moved \in BOOLEAN
  BY <1>1
<1>4. LoginTypes
  BY <1>1, <1>2, <1>3, LoginConstants, Zenon DEF LoginTypes
<1>5. run.pc = "idle" /\ run.account = "nobody" /\ ~run.checked /\ vault.mode = "none"
  BY <1>1, LoginConstants
<1> QED
  BY <1>1, <1>4, <1>5 DEF LoginInv, LoginStored, LoginKept, LoginRead, Login!IsConfigured,
     Login!CheckedSessionIsReal

\* What a run has once it has logged in: the session, and one login more.
LEMMA LoginAsked ==
  ASSUME NEW session \in LoginSession, NEW status \in {"crawl", "skipped"}, run \in LoginRun,
         run.logins < MaxLogins, MaxLogins \in Nat, Login!Asked(session, status)
  PROVE  /\ run' \in LoginRun
         /\ run'.pc = status /\ run'.session = session
         /\ run'.logins = run.logins + 1 /\ run'.mode = run.mode
         /\ run'.account = run.account /\ run'.checked = run.checked
<1>1. run.logins + 1 \in 0 .. MaxLogins
  BY DEF LoginRun
<1> QED
  BY <1>1 DEF LoginRun, Login!Asked

\* The account a login is made for, and the mode, the run has read.
LEMMA LoginResolved ==
  /\ Login!ResolveLogin \in {"none", "raises", "login"}
  /\ Login!ResolveLogin = "login" =>
       vault.mode = "specific_account" /\ vault.account # "nobody"
  /\ LoginInv /\ vault.mode = "specific_account" => Login!ResolveLogin # "none"
BY LoginConstants, LoginAssumption DEF Login!ResolveLogin, LoginInv, LoginStored

\* What a login answers is typed, and succeeds as the account where that is checked.
LEMMA LoginAnswers ==
  ASSUME LoginTypes, NEW answer \in Login!RunLogin
  PROVE  /\ answer.who \in {run.account, "anonymous"}
         /\ answer.success /\ run.checked => answer.who = run.account
<1>1. run.account \in Accounts \cup {"nobody"} /\ run.checked \in BOOLEAN
  BY DEF LoginTypes, LoginRun
<1>2. \/ answer = Login!Died \/ answer = Login!Failed
      \/ answer = Login!Reported("anonymous") \/ answer = Login!Reported(run.account)
  BY DEF Login!RunLogin
<1>3. /\ ~Login!Died.success /\ Login!Died.who = "anonymous"
      /\ ~Login!Failed.success /\ Login!Failed.who = "anonymous"
  BY DEF Login!Died, Login!Failed
<1>4. ASSUME NEW who
      PROVE  /\ Login!Reported(who).who = who
             /\ Login!Reported(who).success /\ run.checked => who = run.account
  BY DEF Login!Reported
<1> QED
  BY <1>2, <1>3, <1>4

LEMMA LoginNext == LoginInv /\ [Login!Next]_loginVars => LoginInv'
<1> SUFFICES ASSUME LoginInv, [Login!Next]_loginVars PROVE LoginInv'
  OBVIOUS
<1>t. /\ vault \in LoginVault /\ run \in LoginRun /\ cache \in LoginSession
      /\ key \in VaultKeys \cup {Login!NoKey} /\ password \in Passwords /\ moved \in BOOLEAN
      /\ config \in {"absent", "blank", "unchecked", "checked"}
      /\ written \subseteq {"success", "failure"} /\ clock \in Nat /\ edits \in 0 .. MaxEdits
      /\ LoginTypes /\ LoginStored /\ LoginKept /\ LoginRead /\ Login!CheckedSessionIsReal
  BY DEF LoginInv, LoginTypes
<1>r. /\ run.pc \in {"idle", "named", "ready", "crawl", "skipped", "failed"}
      /\ run.account \in Accounts \cup {"nobody"} /\ run.logins \in 0 .. MaxLogins
      /\ run.checked \in BOOLEAN
  BY <1>t DEF LoginRun
<1>m. edits < MaxEdits /\ edits' = edits + 1 => edits' \in 0 .. MaxEdits
  BY <1>t, LoginAssumption
<1>v. /\ vault.mode \in {"none", "polaris_creates", "specific_account"}
      /\ vault.account \in Accounts \cup {"nobody"}
      /\ vault.secret \in LoginSealed(Passwords) /\ vault.totp \in LoginSealed(Login!Seeds)
      /\ vault.secret.value \in Passwords \cup {"nothing"}
      /\ vault.totp.value \in Login!Seeds \cup {"nothing"}
  BY <1>t DEF LoginVault, LoginSealed
<1>1. ASSUME NEW row \in LoginVault, Login!EditVault(row),
             row.mode = "specific_account" => row.account \in Accounts /\ row.secret.key # Login!NoKey
      PROVE  LoginInv'
  <2>1. /\ moved' = TRUE /\ vault' = row
        /\ UNCHANGED <<key, config, password, run, cache, written, clock>>
    BY <1>1 DEF Login!EditVault
  <2>2. edits' \in 0 .. MaxEdits /\ moved' \in BOOLEAN
    BY <1>1, <1>m, <2>1, Zenon DEF Login!EditVault
  <2>3. LoginTypes'
    BY <1>1, <1>t, <2>1, <2>2 DEF LoginTypes
  <2>4. LoginStored' /\ LoginKept' /\ Login!CheckedSessionIsReal'
    BY <1>1, <1>t, <2>1 DEF LoginStored, LoginKept, Login!CheckedSessionIsReal
  <2>5. LoginRead'
    BY <1>t, <2>1 DEF LoginRead, Login!IsConfigured
  <2> QED
    BY <2>3, <2>4, <2>5 DEF LoginInv
<1>2. ASSUME NEW account \in Accounts, NEW secret \in Passwords,
             NEW seed \in Login!Seeds \cup {"omitted"}, Login!SetAccount(account, secret, seed)
      PROVE  LoginInv'
  <2> DEFINE totp == IF seed = "omitted" THEN vault.totp ELSE Login!Sealed(seed)
             row == [mode |-> "specific_account", account |-> account,
                     secret |-> Login!Sealed(secret), totp |-> totp]
  <2>1. Login!EditVault(row) /\ key # Login!NoKey
    BY <1>2 DEF Login!SetAccount
  <2>2. totp \in LoginSealed(Login!Seeds)
    <3>1. seed = "omitted" => totp = vault.totp
      OBVIOUS
    <3>2. seed # "omitted" => totp = [key |-> key, value |-> seed] /\ seed \in Login!Seeds
      BY DEF Login!Sealed
    <3> QED
      BY <1>t, <1>v, <3>1, <3>2 DEF LoginSealed
  <2>3. Login!Sealed(secret) \in LoginSealed(Passwords) /\ Login!Sealed(secret).key = key
    BY <1>t DEF LoginSealed, Login!Sealed
  <2> HIDE DEF totp
  <2>4. row \in LoginVault /\ row.account \in Accounts /\ row.secret.key # Login!NoKey
    BY <2>1, <2>2, <2>3 DEF LoginVault
  <2> HIDE DEF row
  <2> QED
    BY <1>1, <2>1, <2>4
<1>3. CASE Login!LetPolarisProvision
  <2> DEFINE row == [Login!NoRow EXCEPT !.mode = "polaris_creates"]
  <2>1. row \in LoginVault /\ row.mode = "polaris_creates"
    BY LoginConstants DEF LoginVault
  <2>2. Login!EditVault(row)
    BY <1>3 DEF Login!LetPolarisProvision
  <2> HIDE DEF row
  <2> QED
    BY <1>1, <2>1, <2>2
<1>4. CASE Login!ClearCredentials
  BY <1>1, <1>4, LoginConstants DEF Login!ClearCredentials
<1>5. CASE Login!SetAuthConfig \/ Login!ClearAuthConfig
  <2>1. PICK setting \in {"absent", "blank", "unchecked", "checked"} : Login!EditConfig(setting)
    BY <1>5 DEF Login!SetAuthConfig, Login!ClearAuthConfig
  <2>2. /\ moved' = TRUE /\ config' \in {"absent", "blank", "unchecked", "checked"}
        /\ UNCHANGED <<key, vault, password, run, cache, written, clock>>
    BY <2>1 DEF Login!EditConfig
  <2>3. edits' \in 0 .. MaxEdits /\ moved' \in BOOLEAN
    BY <2>1, <2>2, <1>m, Zenon DEF Login!EditConfig
  <2>4. LoginTypes'
    BY <1>t, <2>2, <2>3 DEF LoginTypes
  <2>5. LoginStored' /\ LoginKept' /\ Login!CheckedSessionIsReal'
    BY <1>t, <2>2 DEF LoginStored, LoginKept, Login!CheckedSessionIsReal
  <2>6. LoginRead'
    BY <1>t, <2>2 DEF LoginRead, Login!IsConfigured
  <2> QED
    BY <2>4, <2>5, <2>6 DEF LoginInv
<1>6. CASE Login!Begin
  <2>1. /\ moved' = FALSE /\ cache' = Login!NoSession /\ written' = {} /\ clock' = 0
        /\ UNCHANGED <<key, vault, config, password, edits>>
    BY <1>6 DEF Login!Begin
  <2>2. /\ run' \in LoginRun /\ run'.pc \in {"named", "failed"} /\ run'.account = "nobody"
        /\ ~run'.checked
        /\ run'.pc = "named" => Login!ResolveLogin # "raises"
        /\ run'.pc = "named" /\ Login!ResolveLogin = "login" => run'.mode = "specific_account"
    BY <1>6, LoginConstants DEF Login!Begin, LoginRun, Login!Idle
  <2>3. moved' \in BOOLEAN /\ clock' \in Nat
    BY <2>1
  <2>4. LoginTypes'
    BY <1>t, <2>1, <2>2, <2>3, LoginConstants DEF LoginTypes
  <2>5. LoginStored' /\ LoginKept' /\ Login!CheckedSessionIsReal'
    BY <1>t, <2>1, <2>2 DEF LoginStored, LoginKept, Login!CheckedSessionIsReal
  <2>6. LoginRead'
    BY <2>1, <2>2, LoginResolved DEF LoginRead, Login!IsConfigured
  <2> QED
    BY <2>4, <2>5, <2>6 DEF LoginInv
<1>7. CASE Login!BuildCrawler
  <2>1. run.pc = "named" /\ UNCHANGED <<key, vault, config, password, cache, written, clock, edits, moved>>
    BY <1>7 DEF Login!BuildCrawler
  <2>2. CASE Login!ResolveLogin = "raises"
    <3>1. run' = [run EXCEPT !.pc = "failed"]
      BY <1>7, <2>2 DEF Login!BuildCrawler
    <3>2. /\ run' \in LoginRun /\ run'.pc = "failed" /\ run'.account = run.account
          /\ run'.checked = run.checked
      BY <1>t, <3>1 DEF LoginRun
    <3>3. LoginTypes'
      BY <1>t, <2>1, <3>2 DEF LoginTypes
    <3> QED
      BY <1>t, <2>1, <3>2, <3>3 DEF LoginInv, LoginStored, LoginKept, LoginRead,
         Login!IsConfigured, Login!CheckedSessionIsReal
  <2>3. CASE Login!ResolveLogin = "login" /\ Login!IsConfigured
    <3>1. run' = [run EXCEPT !.pc = "ready", !.account = vault.account,
                             !.secret = vault.secret.value, !.seed = vault.totp.value,
                             !.checked = config = "checked"]
      BY <1>7, <2>3 DEF Login!BuildCrawler
    <3>2. /\ run' \in LoginRun /\ run'.pc = "ready" /\ run'.account = vault.account
          /\ run'.mode = run.mode
      BY <1>t, <1>v, <3>1 DEF LoginRun
    <3>3. LoginTypes'
      BY <1>t, <2>1, <3>2 DEF LoginTypes
    <3>4. LoginStored' /\ LoginKept' /\ Login!CheckedSessionIsReal'
      BY <1>t, <2>1, <3>2 DEF LoginStored, LoginKept, Login!CheckedSessionIsReal
    <3>5. LoginRead'
      BY <1>t, <2>1, <2>3, <3>2, LoginResolved DEF LoginRead, Login!IsConfigured
    <3> QED
      BY <3>3, <3>4, <3>5 DEF LoginInv
  <2>4. CASE Login!ResolveLogin # "raises" /\ ~(Login!ResolveLogin = "login" /\ Login!IsConfigured)
    <3>1. run' = [run EXCEPT !.pc = "ready"]
      BY <1>7, <2>4, Zenon DEF Login!BuildCrawler
    <3>2. /\ run' \in LoginRun /\ run'.pc = "ready" /\ run'.account = run.account
          /\ run'.mode = run.mode /\ run'.checked = run.checked
      BY <1>t, <3>1 DEF LoginRun
    <3>3. LoginTypes'
      BY <1>t, <2>1, <3>2 DEF LoginTypes
    <3>4. LoginStored' /\ LoginKept' /\ Login!CheckedSessionIsReal'
      BY <1>t, <2>1, <3>2 DEF LoginStored, LoginKept, Login!CheckedSessionIsReal
    <3>5. vault.mode = "specific_account" => ~Login!IsConfigured
      BY <2>4, LoginResolved
    <3>6. LoginRead'
      BY <1>t, <2>1, <3>2, <3>5 DEF LoginRead, Login!IsConfigured
    <3> QED
      BY <3>3, <3>4, <3>6 DEF LoginInv
  <2> QED
    BY <2>2, <2>3, <2>4
<1>8. CASE Login!LogIn
  <2>1. /\ run.pc \in {"ready", "crawl"} /\ run.logins < MaxLogins
        /\ UNCHANGED <<key, vault, config, password, clock, edits, moved>>
    BY <1>8 DEF Login!LogIn
  <2>2. ASSUME NEW session \in LoginSession, NEW status \in {"crawl", "skipped"},
               Login!Asked(session, status), cache' \in LoginSession,
               written' \subseteq {"success", "failure"},
               status = "crawl" /\ run.checked => session.who = run.account,
               cache' # Login!NoSession =>
                 "success" \in written' /\ (run.checked => cache'.who = run.account)
        PROVE  LoginInv'
    <3>1. /\ run' \in LoginRun /\ run'.pc = status /\ run'.session = session
          /\ run'.mode = run.mode /\ run'.account = run.account /\ run'.checked = run.checked
      BY <1>t, <2>1, <2>2, LoginAsked, LoginAssumption
    <3>2. LoginTypes'
      BY <1>t, <2>1, <2>2, <3>1 DEF LoginTypes
    <3>3. LoginStored' /\ LoginKept' /\ Login!CheckedSessionIsReal'
      BY <1>t, <2>1, <2>2, <3>1 DEF LoginStored, LoginKept, Login!CheckedSessionIsReal
    <3>4. LoginRead'
      BY <1>t, <2>1, <2>2, <3>1 DEF LoginRead, Login!IsConfigured
    <3> QED
      BY <3>2, <3>3, <3>4 DEF LoginInv
  <2>3. cache # Login!NoSession =>
          "success" \in written /\ (run.checked => cache.who = run.account)
    BY <1>t, <2>1 DEF LoginKept
  <2>4. CASE Login!NoAuth
    BY <1>t, <2>2, <2>3, <2>4, LoginConstants DEF Login!NoAuth, LoginRead, Login!IsConfigured
  <2>5. CASE Login!Reuse
    BY <1>t, <2>2, <2>3, <2>5 DEF Login!Reuse
  <2>6. CASE run.account # "nobody" /\ Login!Attempt
    <3>1. PICK answer \in Login!RunLogin :
            LET session == [who |-> answer.who, made |-> clock]
            IN IF answer.success
               THEN /\ written' = written \cup {"success"}
                    /\ cache' = session /\ Login!Asked(session, "crawl")
               ELSE /\ written' = IF answer.answered THEN written \cup {"failure"} ELSE written
                    /\ Login!Asked(Login!NoSession, "skipped") /\ UNCHANGED cache
      BY <2>6 DEF Login!Attempt
    <3> DEFINE session == [who |-> answer.who, made |-> clock]
    <3>2. answer.success /\ run.checked => answer.who = run.account
      BY <1>t, LoginAnswers
    <3>3. session \in LoginSession /\ session.who = answer.who
      BY <1>t, <1>r, <2>6, LoginAnswers DEF LoginSession
    <3>4. CASE answer.success
      <4>1. /\ written' = written \cup {"success"}
            /\ cache' = session /\ Login!Asked(session, "crawl")
        BY <3>1, <3>4
      <4> HIDE DEF session
      <4> QED
        BY <1>t, <2>2, <3>2, <3>3, <3>4, <4>1
    <3>5. CASE ~answer.success
      <4>1. /\ written' = IF answer.answered THEN written \cup {"failure"} ELSE written
            /\ Login!Asked(Login!NoSession, "skipped") /\ UNCHANGED cache
        BY <3>1, <3>5
      <4> QED
        BY <1>t, <2>2, <2>3, <4>1, LoginConstants
    <3> QED
      BY <3>4, <3>5
  <2> QED
    BY <1>8, <2>4, <2>5, <2>6 DEF Login!LogIn
<1>9. CASE Login!Finish
  <2>1. run' = Login!Idle /\ UNCHANGED <<key, vault, config, password, cache, written, clock, edits, moved>>
    BY <1>9 DEF Login!Finish
  <2>2. run'.pc = "idle" /\ run'.account = "nobody" /\ ~run'.checked /\ run' \in LoginRun
    BY <2>1, LoginConstants
  <2>3. LoginTypes'
    BY <1>t, <2>1, <2>2 DEF LoginTypes
  <2> QED
    BY <1>t, <2>1, <2>2, <2>3 DEF LoginInv, LoginStored, LoginKept, LoginRead,
       Login!CheckedSessionIsReal
<1>10. CASE Login!Tick
  <2>1. clock' \in Nat /\ UNCHANGED <<key, vault, config, password, run, cache, written, edits, moved>>
    BY <1>t, <1>10 DEF Login!Tick
  <2>2. LoginTypes'
    BY <1>t, <2>1 DEF LoginTypes
  <2>3. LoginStored' /\ LoginKept' /\ Login!CheckedSessionIsReal'
    BY <1>t, <2>1 DEF LoginStored, LoginKept, Login!CheckedSessionIsReal
  <2>4. LoginRead'
    BY <1>t, <2>1 DEF LoginRead, Login!IsConfigured
  <2> QED
    BY <2>2, <2>3, <2>4 DEF LoginInv
<1>11. CASE Login!TargetChangesPassword
  <2>1. password' \in Passwords /\ UNCHANGED <<key, vault, config, run, cache, written, clock, moved>>
    BY <1>11 DEF Login!TargetChangesPassword
  <2>2. edits' \in 0 .. MaxEdits
    BY <1>11, <1>m DEF Login!TargetChangesPassword
  <2>3. LoginTypes'
    BY <1>t, <2>1, <2>2 DEF LoginTypes
  <2>4. LoginStored' /\ LoginKept' /\ Login!CheckedSessionIsReal'
    BY <1>t, <2>1 DEF LoginStored, LoginKept, Login!CheckedSessionIsReal
  <2>5. LoginRead'
    BY <1>t, <2>1 DEF LoginRead, Login!IsConfigured
  <2> QED
    BY <2>3, <2>4, <2>5 DEF LoginInv
<1>12. CASE Login!Redeploy
  <2>1. /\ key' \in VaultKeys \cup {Login!NoKey} /\ run' = Login!Idle
        /\ cache' = Login!NoSession /\ UNCHANGED <<vault, config, password, written, clock, moved>>
    BY <1>12 DEF Login!Redeploy
  <2>2. run'.pc = "idle" /\ run'.account = "nobody" /\ ~run'.checked /\ run' \in LoginRun
    BY <2>1, LoginConstants
  <2>3. edits' \in 0 .. MaxEdits
    BY <1>12, <1>m DEF Login!Redeploy
  <2>4. LoginTypes'
    BY <1>t, <2>1, <2>2, <2>3, LoginConstants DEF LoginTypes
  <2> QED
    BY <1>t, <2>1, <2>2, <2>4 DEF LoginInv, LoginStored, LoginKept, LoginRead,
       Login!CheckedSessionIsReal
<1>13. CASE UNCHANGED loginVars
  <2>1. LoginTypes'
    BY <1>t, <1>13 DEF LoginTypes
  <2>2. LoginStored' /\ LoginKept' /\ Login!CheckedSessionIsReal'
    BY <1>t, <1>13 DEF LoginStored, LoginKept, Login!CheckedSessionIsReal
  <2>3. LoginRead'
    BY <1>t, <1>13 DEF LoginRead, Login!IsConfigured
  <2> QED
    BY <2>1, <2>2, <2>3 DEF LoginInv
<1> QED
  BY <1>2, <1>3, <1>4, <1>5, <1>6, <1>7, <1>8, <1>9, <1>10, <1>11, <1>12, <1>13 DEF Login!Next

\* What no login leaves anonymous follows from what the run has read.
LEMMA LoginNeverAnonymous == LoginInv => Login!NeverQuietlyAnonymous
BY DEF LoginInv, LoginRead, Login!NeverQuietlyAnonymous

\* A login hands out a session that is fresh and in the log.
LEMMA LoginFresh ==
  ASSUME LoginInv, [Login!Next]_loginVars, run'.logins > run.logins, run'.pc = "crawl",
         run.account # "nobody"
  PROVE  clock < run'.session.made + SessionTtl /\ "success" \in written'
<1>t. /\ run \in LoginRun /\ cache \in LoginSession /\ clock \in Nat /\ edits \in 0 .. MaxEdits
      /\ LoginTypes /\ LoginKept
  BY DEF LoginInv, LoginTypes
<1>r. run.logins \in Nat /\ run.account \in Accounts \cup {"nobody"}
  BY <1>t, LoginAssumption DEF LoginRun
<1>1. Login!LogIn
  <2>1. run' = run => FALSE
    BY <1>r
  <2>2. run' = Login!Idle => FALSE
    BY <1>r, LoginConstants
  <2>3. ~Login!Begin
    BY <1>r, LoginConstants DEF Login!Begin, Login!Idle
  <2>4. ~Login!BuildCrawler
    <3>1. SUFFICES ASSUME Login!BuildCrawler PROVE run'.logins = run.logins
      BY <1>r
    <3> QED
      BY <1>t, <3>1 DEF LoginRun, Login!BuildCrawler
  <2>5. ~Login!EditConfig("absent") /\ ~\E setting \in {"blank", "unchecked", "checked"} : Login!EditConfig(setting)
    BY <2>1 DEF Login!EditConfig
  <2>6. \A row : ~Login!EditVault(row)
    BY <2>1 DEF Login!EditVault
  <2> QED
    BY <2>1, <2>2, <2>3, <2>4, <2>5, <2>6 DEF Login!Next, Login!SetAccount, Login!LetPolarisProvision,
       Login!ClearCredentials, Login!SetAuthConfig, Login!ClearAuthConfig, Login!Finish, Login!Tick,
       Login!TargetChangesPassword, Login!Redeploy
<1>2. run.pc \in {"ready", "crawl"} /\ run.logins < MaxLogins /\ (Login!Reuse \/ Login!Attempt)
  BY <1>1 DEF Login!LogIn, Login!NoAuth
<1>3. CASE Login!Reuse
  <2>1. Login!Asked(cache, "crawl") /\ cache # Login!NoSession /\ written' = written
    BY <1>3 DEF Login!Reuse
  <2>2. run'.session = cache
    BY <1>t, <1>2, <2>1, LoginAsked, LoginAssumption
  <2>3. clock < cache.made + SessionTtl
    <3>1. cache.made \in Nat
      BY <1>t DEF LoginSession
    <3> QED
      BY <1>3, <1>t, <3>1, LoginAssumption DEF Login!Reuse, Login!IsExpired
  <2>4. "success" \in written
    BY <1>t, <1>2, <2>1 DEF LoginKept
  <2> QED
    BY <2>1, <2>2, <2>3, <2>4
<1>4. CASE Login!Attempt
  <2>1. PICK answer \in Login!RunLogin :
          LET session == [who |-> answer.who, made |-> clock]
          IN IF answer.success
             THEN /\ written' = written \cup {"success"}
                  /\ cache' = session /\ Login!Asked(session, "crawl")
             ELSE /\ written' = IF answer.answered THEN written \cup {"failure"} ELSE written
                  /\ Login!Asked(Login!NoSession, "skipped") /\ UNCHANGED cache
    BY <1>4 DEF Login!Attempt
  <2> DEFINE session == [who |-> answer.who, made |-> clock]
  <2>2. session \in LoginSession /\ session.made = clock
    BY <1>t, <1>r, LoginAnswers DEF LoginSession
  <2>3. answer.success
    BY <1>t, <1>2, <2>1, LoginAsked, LoginConstants, LoginAssumption
  <2>4. written' = written \cup {"success"} /\ Login!Asked(session, "crawl")
    BY <2>1, <2>3
  <2> HIDE DEF session
  <2>5. run'.session = session
    BY <1>t, <1>2, <2>2, <2>4, LoginAsked, LoginAssumption
  <2> QED
    BY <1>t, <2>2, <2>4, <2>5, LoginAssumption
<1> QED
  BY <1>2, <1>3, <1>4

\* A seed that is there is kept, replaced, or goes with the account.
LEMMA LoginSeed ==
  ASSUME [Login!Next]_loginVars, vault.totp # Login!NoSecret, vault'.totp = Login!NoSecret
  PROVE  vault'.mode # "specific_account"
<1>1. CASE \E account \in Accounts, secret \in Passwords, seed \in Login!Seeds \cup {"omitted"} :
             Login!SetAccount(account, secret, seed)
  <2>1. PICK account \in Accounts, secret \in Passwords, seed \in Login!Seeds \cup {"omitted"} :
          Login!SetAccount(account, secret, seed)
    BY <1>1
  <2>2. key # Login!NoKey /\ vault'.totp = (IF seed = "omitted" THEN vault.totp ELSE Login!Sealed(seed))
    BY <2>1 DEF Login!SetAccount, Login!EditVault
  <2>3. Login!Sealed(seed).key = key
    BY DEF Login!Sealed
  <2> QED
    BY <2>2, <2>3, LoginConstants
<1>2. CASE Login!LetPolarisProvision
  BY <1>2 DEF Login!LetPolarisProvision, Login!EditVault, Login!NoRow
<1>3. CASE Login!ClearCredentials
  BY <1>3, LoginConstants DEF Login!ClearCredentials, Login!EditVault
<1>4. CASE vault' = vault
  BY <1>4
<1> QED
  BY <1>1, <1>2, <1>3, <1>4 DEF Login!Next, Login!SetAuthConfig, Login!ClearAuthConfig,
     Login!EditConfig, Login!Begin, Login!BuildCrawler, Login!LogIn, Login!Finish, Login!Tick,
     Login!TargetChangesPassword, Login!Redeploy

LEMMA LoginSpec == Spec => []LoginInv
<1>1. Init => LoginInv
  BY LoginInit DEF Init
<1>2. LoginInv /\ [Next]_vars => LoginInv'
  <2>1. [Next]_vars => [Login!Next]_loginVars
    BY DEF Next, vars
  <2> QED
    BY <2>1, LoginNext
<1> QED
  BY <1>1, <1>2, PTL DEF Spec

\* What a crawl behind a target's login may be relied on for (credentials/resolver.py and
\* auth/strategy.py): with a success selector the pages are the account's; a project that is
\* set up for a login is never quietly crawled without one; a session that is replayed is
\* within its time to live and its login is in the log; and no edit of the credentials turns
\* an unattended two-factor login off.
THEOREM LoginIsHonestHolds == Spec => LoginIsHonest
<1> DEFINE F == run.logins' > run.logins /\ run'.pc = "crawl" /\ run.account # "nobody" =>
                  clock < run'.session.made + SessionTtl /\ "success" \in written'
           S == vault.totp # Login!NoSecret /\ vault'.totp = Login!NoSecret =>
                  vault'.mode # "specific_account"
<1>1. [Next]_vars => [Login!Next]_loginVars
  BY DEF Next, vars
<1>2. LoginInv => Login!CheckedSessionIsReal /\ Login!NeverQuietlyAnonymous
  BY LoginNeverAnonymous DEF LoginInv
<1>3. LoginInv /\ [Next]_vars => [F]_(Login!vars)
  BY <1>1, LoginFresh
<1>4. LoginInv /\ [Next]_vars => [S]_(Login!vars)
  BY <1>1, LoginSeed
<1> QED
  BY <1>2, <1>3, <1>4, LoginSpec, PTL DEF Spec, LoginIsHonest, Login!LoginIsHonest,
     Login!ReplayedIsFreshAndLogged, Login!SeedSurvives

-----------------------------------------------------------------------------
(* The execution of scripts                                                *)

USE DEF execVars

\* The types in full.
ExecLoneRow ==
  [run : Slots \cup {"none"}, app : Projects \cup {"none"},
   lib : Projects \cup {"mixed", "none"}, told : [Scripts -> Tellings],
   wrote : BOOLEAN, provisioned : BOOLEAN]
ExecReport == [of : Projects \cup {"none"}, cases : [Scripts -> Tellings]]
ExecRest ==
  /\ framework \in [Projects -> Exec!Frameworks]
  /\ checkout \in Projects \cup {"none"} /\ marker \in Projects \cup {"none"}
  /\ vendor \in Projects \cup {"mixed", "none"}
  /\ \A f \in files : f[2] \in Projects /\ f[3] \in Scripts
  /\ report \in [Exec!Frameworks -> ExecReport]
  /\ died \in BOOLEAN /\ spoiled \in BOOLEAN
  /\ lone \in ExecLoneRow

\* A run that is executed is some project's, and has results only at its end.
ExecLive ==
  \A r \in Slots :
    /\ slots[r].pc # "free" => slots[r].project \in Projects
    /\ slots[r].pc # "finish" => slots[r].results = Exec!NoResults

\* The run that is alone is the only one.
ExecAlone == lone.run # "none" => \A q \in Slots : slots[q].pc # "free" <=> q = lone.run

\* What a run that is alone stands on: its checkout and dependencies while it has them, the
\* report of its own framework, and what the history says of both once they were used.
ExecGround(r) ==
  LET R == slots[r] IN
  /\ R.pc \in {"resolve", "deps"} => ~lone.provisioned
  /\ R.pc = "deps" => checkout = R.project
  /\ R.pc \in {"write", "spawn"} /\ lone.provisioned /\ framework[R.project] = "pest" =>
       checkout = R.project /\ (~spoiled => vendor = R.project)
  /\ (R.pc \in {"running", "parse"} \/ R.results # Exec!NoResults) /\ lone.provisioned =>
       lone.app = R.project /\ (~spoiled => lone.lib = R.project)
  /\ R.pc = "running" => lone.told = R.told
  /\ R.pc = "parse" /\ lone.wrote =>
       report[framework[R.project]] = [of |-> R.project, cases |-> lone.told]
  /\ R.results # Exec!NoResults /\ lone.wrote =>
       \A s \in R.scripts :
         /\ R.results[s] = "error" <=> (lone.told[s] = {} \/ "error" \in lone.told[s])
         /\ R.results[s] \in {"pass", "skipped"} => "fail" \notin lone.told[s]

\* A generated test is of a run that will remove it.
ExecLate == {"spawn", "running", "parse", "finish"}
ExecFiles ==
  ~died => \A f \in files : \E q \in Slots :
             /\ slots[q].pc \in ExecLate
             /\ framework[f[2]] = framework[slots[q].project]

ExecInv ==
  /\ slots \in [Slots -> Exec!Run] /\ ExecRest
  /\ ExecLive
  /\ ExecAlone
  /\ \A r \in Slots : lone.run = r => ExecGround(r)
  /\ ExecFiles

-----------------------------------------------------------------------------
LEMMA ExecConstants ==
  /\ Exec!NoResults \in [Scripts -> Exec!Outcome \cup {"none"}]
  /\ Exec!Absent \in [Scripts -> Tellings]
  /\ \A p \in Projects \cup {"none"} :
       /\ Exec!Fresh(p) \in Exec!Run /\ Exec!Fresh(p).pc = "resolve"
       /\ Exec!Fresh(p).project = p /\ Exec!Fresh(p).results = Exec!NoResults
  /\ Exec!Free \in Exec!Run /\ Exec!Free.pc = "free" /\ Exec!Free.results = Exec!NoResults
  /\ Exec!NoLone \in ExecLoneRow /\ Exec!NoLone.run = "none"
  /\ \A r \in Slots :
       LET alone == [Exec!NoLone EXCEPT !.run = r]
       IN alone \in ExecLoneRow /\ alone.run = r /\ ~alone.provisioned
  /\ Exec!NoReport \in ExecReport
<1>1. /\ Exec!NoResults \in [Scripts -> Exec!Outcome \cup {"none"}]
      /\ Exec!Absent \in [Scripts -> Tellings]
  BY ExecutionAssumption DEF Exec!NoResults, Exec!Absent
<1>2. ASSUME NEW p \in Projects \cup {"none"}
      PROVE  /\ Exec!Fresh(p) \in Exec!Run /\ Exec!Fresh(p).pc = "resolve"
             /\ Exec!Fresh(p).project = p /\ Exec!Fresh(p).results = Exec!NoResults
  BY <1>1 DEF Exec!Fresh, Exec!Run
<1>3. Exec!Free \in Exec!Run /\ Exec!Free.pc = "free" /\ Exec!Free.results = Exec!NoResults
  BY <1>2 DEF Exec!Free, Exec!Run
<1>4. /\ Exec!NoLone \in ExecLoneRow /\ Exec!NoLone.run = "none" /\ ~Exec!NoLone.provisioned
      /\ Exec!NoReport \in ExecReport
  BY <1>1 DEF Exec!NoLone, ExecLoneRow, Exec!NoReport, ExecReport
<1>5. ASSUME NEW r \in Slots
      PROVE  LET alone == [Exec!NoLone EXCEPT !.run = r]
             IN alone \in ExecLoneRow /\ alone.run = r /\ ~alone.provisioned
  BY <1>4 DEF ExecLoneRow
<1> QED
  BY <1>1, <1>2, <1>3, <1>4, <1>5

LEMMA ExecInit == Exec!Init => ExecInv
<1> SUFFICES ASSUME Exec!Init PROVE ExecInv
  OBVIOUS
<1>1. /\ framework \in [Projects -> Exec!Frameworks] /\ slots = [r \in Slots |-> Exec!Free]
      /\ checkout = "none" /\ vendor = "none" /\ marker = "none" /\ files = {}
      /\ report = [f \in Exec!Frameworks |-> Exec!NoReport]
      /\ died = FALSE /\ spoiled = FALSE /\ lone = Exec!NoLone
  BY DEF Exec!Init
<1>2. died \in BOOLEAN /\ spoiled \in BOOLEAN
  BY <1>1
<1>3. ExecRest
  BY <1>1, <1>2, ExecConstants DEF ExecRest
<1>4. \A r \in Slots : slots[r] = Exec!Free
  BY <1>1
<1> QED
  BY <1>1, <1>3, <1>4, ExecConstants, ExecutionAssumption
     DEF ExecInv, ExecLive, ExecAlone, ExecFiles

\* A run goes on: it stays the one it is, and leaves the files to itself.
LEMMA ExecMoves ==
  ASSUME ExecInv, NEW r \in Slots, NEW row \in Exec!Run,
         slots' = [slots EXCEPT ![r] = row], slots[r].pc # "free", row.pc # "free",
         row.project = slots[r].project,
         row.pc # "finish" => row.results = Exec!NoResults,
         ExecRest', framework' = framework, died' = died, lone'.run = lone.run,
         lone.run = r => ExecGround(r)',
         \A f \in files' : \/ f \in files
                           \/ row.pc \in ExecLate /\ framework[f[2]] = framework[row.project],
         slots[r].pc \in ExecLate => row.pc \in ExecLate
  PROVE  ExecInv'
<1>1. slots' \in [Slots -> Exec!Run] /\ slots'[r] = row /\ \A q \in Slots \ {r} : slots'[q] = slots[q]
  BY DEF ExecInv
<1>2. ExecLive'
  BY <1>1 DEF ExecInv, ExecLive
<1>3. ExecAlone'
  BY <1>1 DEF ExecInv, ExecAlone
<1>4. \A q \in Slots : lone'.run = q => q = r
  BY ExecutionAssumption DEF ExecInv, ExecAlone
<1>5. \A q \in Slots : lone'.run = q => ExecGround(q)'
  BY <1>4
<1>6. ExecFiles'
  <2> SUFFICES ASSUME ~died, NEW f \in files'
               PROVE  \E q \in Slots : /\ slots'[q].pc \in ExecLate
                                       /\ framework[f[2]] = framework[slots'[q].project]
    BY DEF ExecFiles
  <2>1. CASE f \in files
    <3>1. PICK q \in Slots : /\ slots[q].pc \in ExecLate
                             /\ framework[f[2]] = framework[slots[q].project]
      BY <2>1 DEF ExecInv, ExecFiles
    <3> QED
      BY <1>1, <3>1
  <2>2. CASE row.pc \in ExecLate /\ framework[f[2]] = framework[row.project]
    BY <1>1, <2>2
  <2> QED
    BY <2>1, <2>2
<1> QED
  BY <1>1, <1>2, <1>3, <1>5, <1>6 DEF ExecInv

\* The worst outcome of a script's tests, as its own results have it.
LEMMA ExecResults ==
  ASSUME NEW r \in Slots, NEW rep
  PROVE  LET results == Exec!MapResults(r, rep)
         IN /\ results \in [Scripts -> Exec!Outcome \cup {"none"}]
            /\ rep.of = slots[r].project =>
                 \A s \in Scripts : s \in slots[r].scripts =>
                   /\ results[s] = "error" <=> (rep.cases[s] = {} \/ "error" \in rep.cases[s])
                   /\ results[s] \in {"pass", "skipped"} => "fail" \notin rep.cases[s]
<1>1. ASSUME NEW found
      PROVE  /\ Exec!Aggregate(found) \in Exec!Outcome
             /\ Exec!Aggregate(found) = "error" <=> "error" \in found
             /\ Exec!Aggregate(found) \in {"pass", "skipped"} => "fail" \notin found
  BY DEF Exec!Aggregate, Exec!Outcome
<1> QED
  BY <1>1 DEF Exec!MapResults, Exec!Outcome

LEMMA ExecNext == ExecInv /\ [Exec!Next]_execVars => ExecInv'
<1> SUFFICES ASSUME ExecInv, [Exec!Next]_execVars PROVE ExecInv'
  OBVIOUS
<1>t. /\ slots \in [Slots -> Exec!Run] /\ ExecRest /\ ExecLive /\ ExecAlone /\ ExecFiles
      /\ \A r \in Slots : lone.run = r => ExecGround(r)
  BY DEF ExecInv
<1>a. Exec!Absent \in [Scripts -> Tellings]
  BY ExecConstants
<1>l. lone \in ExecLoneRow /\ lone.run \in Slots \cup {"none"}
  BY <1>t DEF ExecRest, ExecLoneRow
<1>r. ASSUME NEW r \in Slots
      PROVE  /\ slots[r] \in Exec!Run
             /\ slots[r].project \in Projects \cup {"none"}
             /\ slots[r].pc \in {"free", "resolve", "deps", "write", "spawn", "running",
                                 "parse", "finish"}
             /\ slots[r].scripts \subseteq Scripts /\ slots[r].told \in [Scripts -> Tellings]
             /\ slots[r].pc # "free" => slots[r].project \in Projects
             /\ slots[r].pc # "finish" => slots[r].results = Exec!NoResults
             /\ slots[r].pc # "free" => Exec!Of(r) \in Exec!Frameworks
  BY <1>t DEF Exec!Run, ExecLive, ExecRest, Exec!Of
<1>1. ASSUME NEW r \in Slots, NEW p \in Projects, Exec!Start(r, p) PROVE ExecInv'
  <2> DEFINE row == Exec!Fresh(p)
             alone == [Exec!NoLone EXCEPT !.run = r]
  <2>1. /\ slots' = [slots EXCEPT ![r] = row] /\ slots[r].pc = "free"
        /\ lone' = IF \E q \in Slots : Exec!Live(q) THEN Exec!NoLone ELSE alone
        /\ UNCHANGED <<framework, checkout, vendor, marker, files, report, died, spoiled>>
    BY <1>1 DEF Exec!Start, Exec!Live, Exec!disk
  <2>2. /\ row \in Exec!Run /\ row.pc = "resolve" /\ row.project = p
        /\ row.results = Exec!NoResults
        /\ alone \in ExecLoneRow /\ alone.run = r /\ ~alone.provisioned
    BY ExecConstants
  <2> HIDE DEF row, alone
  <2>3. slots' \in [Slots -> Exec!Run] /\ slots'[r] = row /\ \A q \in Slots \ {r} : slots'[q] = slots[q]
    BY <1>t, <2>1, <2>2
  <2>4. ExecRest'
    BY <1>t, <2>1, <2>2, ExecConstants DEF ExecRest
  <2>5. ExecLive'
    BY <1>t, <2>2, <2>3 DEF ExecLive
  <2>6. ExecAlone' /\ \A q \in Slots : lone'.run = q => ExecGround(q)'
    <3>1. CASE \E q \in Slots : Exec!Live(q)
      <4>1. lone'.run = "none"
        BY <2>1, <3>1, ExecConstants
      <4> QED
        BY <4>1, ExecutionAssumption DEF ExecAlone
    <3>2. CASE ~\E q \in Slots : Exec!Live(q)
      <4>1. lone'.run = r /\ ~lone'.provisioned
        BY <2>1, <2>2, <3>2
      <4>2. ExecAlone'
        BY <2>2, <2>3, <3>2, <4>1 DEF ExecAlone, Exec!Live
      <4>3. ExecGround(r)'
        BY <2>2, <2>3, <4>1 DEF ExecGround
      <4> QED
        BY <4>1, <4>2, <4>3
    <3> QED
      BY <3>1, <3>2
  <2>7. ExecFiles'
    BY <1>t, <2>1, <2>2, <2>3 DEF ExecFiles, ExecLate
  <2> QED
    BY <2>3, <2>4, <2>5, <2>6, <2>7 DEF ExecInv
<1>2. ASSUME NEW r \in Slots, Exec!Sync(r) PROVE ExecInv'
  <2>p. slots[r].pc = "resolve" /\ Exec!Of(r) = framework[slots[r].project]
    BY <1>2 DEF Exec!Sync, Exec!At, Exec!Of
  <2>1. CASE Exec!Of(r) = "pest"
    <3> DEFINE row == [slots[r] EXCEPT !.pc = "deps"]
    <3>1. /\ slots' = [slots EXCEPT ![r] = row] /\ checkout' = slots[r].project
          /\ UNCHANGED <<framework, vendor, marker, files, report, died, spoiled, lone>>
      BY <1>t, <1>2, <2>1 DEF Exec!Sync
    <3>2. /\ row \in Exec!Run /\ row.pc = "deps" /\ row.project = slots[r].project
          /\ row.results = slots[r].results
      BY <1>r DEF Exec!Run
    <3> HIDE DEF row
    <3>3. ExecRest'
      BY <1>t, <1>r, <3>1 DEF ExecRest
    <3>4. slots'[r] = row
      BY <1>t, <3>1
    <3>5. lone.run = r => ExecGround(r)'
      BY <1>t, <1>r, <2>p, <3>1, <3>2, <3>4 DEF ExecGround
    <3> QED
      BY <1>r, <2>p, <3>1, <3>2, <3>3, <3>5, ExecMoves DEF ExecLate
  <2>2. CASE Exec!Of(r) # "pest"
    <3> DEFINE row == [slots[r] EXCEPT !.pc = "write"]
               entry == [lone EXCEPT !.provisioned = TRUE]
    <3>1. /\ slots' = [slots EXCEPT ![r] = row] /\ lone' = IF lone.run = r THEN entry ELSE lone
          /\ UNCHANGED <<framework, checkout, vendor, marker, files, report, died, spoiled>>
      BY <1>t, <1>2, <2>2 DEF Exec!Sync, Exec!Note
    <3>2. /\ row \in Exec!Run /\ row.pc = "write" /\ row.project = slots[r].project
          /\ row.results = slots[r].results
      BY <1>r DEF Exec!Run
    <3>3. entry \in ExecLoneRow /\ entry.run = lone.run
      BY <1>l DEF ExecLoneRow
    <3> HIDE DEF row, entry
    <3>4. lone' \in ExecLoneRow /\ lone'.run = lone.run
      BY <1>l, <3>1, <3>3
    <3>5. ExecRest'
      BY <1>t, <3>1, <3>4 DEF ExecRest
    <3>6. slots'[r] = row
      BY <1>t, <3>1
    <3>7. lone.run = r => ExecGround(r)'
      BY <1>t, <1>r, <2>p, <2>2, <3>1, <3>2, <3>6 DEF ExecGround
    <3> QED
      BY <1>r, <2>p, <3>1, <3>2, <3>4, <3>5, <3>7, ExecMoves DEF ExecLate
  <2> QED
    BY <2>1, <2>2
<1>3. ASSUME NEW r \in Slots, Exec!SyncFailed(r) PROVE ExecInv'
  <2> DEFINE row == [slots[r] EXCEPT !.pc = "write"]
  <2>p. slots[r].pc = "resolve"
    BY <1>3 DEF Exec!SyncFailed, Exec!At
  <2>1. /\ slots' = [slots EXCEPT ![r] = row]
        /\ UNCHANGED <<framework, checkout, vendor, marker, files, report, died, spoiled, lone>>
    BY <1>t, <1>3 DEF Exec!SyncFailed, Exec!disk
  <2>2. /\ row \in Exec!Run /\ row.pc = "write" /\ row.project = slots[r].project
        /\ row.results = slots[r].results
    BY <1>r DEF Exec!Run
  <2> HIDE DEF row
  <2>3. ExecRest'
    BY <1>t, <2>1 DEF ExecRest
  <2>4. slots'[r] = row
    BY <1>t, <2>1
  <2>5. lone.run = r => ExecGround(r)'
    BY <1>t, <1>r, <2>p, <2>1, <2>2, <2>4 DEF ExecGround
  <2> QED
    BY <1>r, <2>p, <2>1, <2>2, <2>3, <2>5, ExecMoves DEF ExecLate
<1>4. ASSUME NEW r \in Slots, Exec!Deps(r) PROVE ExecInv'
  <2> DEFINE row == [slots[r] EXCEPT !.pc = "write"]
             entry == [lone EXCEPT !.provisioned = TRUE]
  <2>p. slots[r].pc = "deps" /\ slots[r].project \in Projects
    BY <1>4, <1>r DEF Exec!Deps, Exec!At
  <2>1. /\ slots' = [slots EXCEPT ![r] = row] /\ lone' = IF lone.run = r THEN entry ELSE lone
        /\ \/ Exec!Cached /\ UNCHANGED <<vendor, marker>>
           \/ vendor' = checkout /\ marker' \in {checkout, marker}
        /\ spoiled' = (spoiled \/ marker' \notin {"none", vendor'})
        /\ UNCHANGED <<framework, checkout, files, report, died>>
    BY <1>t, <1>4 DEF Exec!Deps, Exec!Note
  <2>2. /\ row \in Exec!Run /\ row.pc = "write" /\ row.project = slots[r].project
        /\ row.results = slots[r].results
    BY <1>r DEF Exec!Run
  <2>3. entry \in ExecLoneRow /\ entry.run = lone.run
    BY <1>l DEF ExecLoneRow
  <2> HIDE DEF row, entry
  <2>4. lone' \in ExecLoneRow /\ lone'.run = lone.run
    BY <1>l, <2>1, <2>3
  <2>5. spoiled' \in BOOLEAN
    BY <2>1
  <2>6. ExecRest'
    BY <1>t, <2>1, <2>4, <2>5 DEF ExecRest
  <2>7. slots'[r] = row
    BY <1>t, <2>1
  <2>8. checkout = slots[r].project /\ ~spoiled' => vendor' = slots[r].project
    BY <2>p, <2>1, ExecutionAssumption DEF Exec!Cached
  <2>9. lone.run = r => ExecGround(r)'
    <3> SUFFICES ASSUME lone.run = r PROVE ExecGround(r)'
      OBVIOUS
    <3>1. checkout = slots[r].project
      BY <1>t, <2>p DEF ExecGround
    <3> QED
      BY <1>r, <2>p, <2>1, <2>2, <2>7, <2>8, <3>1 DEF ExecGround
  <2> QED
    BY <1>r, <2>p, <2>1, <2>2, <2>4, <2>6, <2>9, ExecMoves DEF ExecLate
<1>5. ASSUME NEW r \in Slots, Exec!DepsFailed(r) PROVE ExecInv'
  <2> DEFINE row == [slots[r] EXCEPT !.pc = "write"]
  <2>p. slots[r].pc = "deps"
    BY <1>5 DEF Exec!DepsFailed, Exec!At
  <2>1. /\ slots' = [slots EXCEPT ![r] = row] /\ vendor' \in {vendor, "mixed"}
        /\ spoiled' = (spoiled \/ marker \notin {"none", vendor'})
        /\ UNCHANGED <<framework, checkout, marker, files, report, died, lone>>
    BY <1>t, <1>5 DEF Exec!DepsFailed
  <2>2. /\ row \in Exec!Run /\ row.pc = "write" /\ row.project = slots[r].project
        /\ row.results = slots[r].results
    BY <1>r DEF Exec!Run
  <2> HIDE DEF row
  <2>3. spoiled' \in BOOLEAN
    BY <2>1
  <2>4. ExecRest'
    BY <1>t, <2>1, <2>3 DEF ExecRest
  <2>5. slots'[r] = row
    BY <1>t, <2>1
  <2>6. lone.run = r => ExecGround(r)'
    BY <1>t, <1>r, <2>p, <2>1, <2>2, <2>5 DEF ExecGround
  <2> QED
    BY <1>r, <2>p, <2>1, <2>2, <2>4, <2>6, ExecMoves DEF ExecLate
<1>6. ASSUME NEW r \in Slots, NEW scripts \in SUBSET Scripts, Exec!Write(r, scripts) PROVE ExecInv'
  <2>p. slots[r].pc = "write" /\ Exec!Of(r) = framework[slots[r].project] /\ slots[r].project \in Projects
    BY <1>6, <1>r DEF Exec!Write, Exec!At, Exec!Of
  <2>1. PICK runnable \in BOOLEAN :
          /\ slots' = [slots EXCEPT ![r].scripts = IF runnable THEN scripts ELSE {},
                                    ![r].pc = IF runnable THEN "spawn" ELSE "finish",
                                    ![r].status = IF runnable THEN @ ELSE "passed"]
          /\ files' = IF runnable THEN files \union {Exec!FileOf(r, s) : s \in scripts} ELSE files
          /\ UNCHANGED <<framework, checkout, vendor, marker, report, died, spoiled, lone>>
    BY <1>6 DEF Exec!Write
  <2> DEFINE row == [slots[r] EXCEPT !.scripts = IF runnable THEN scripts ELSE {},
                                     !.pc = IF runnable THEN "spawn" ELSE "finish",
                                     !.status = IF runnable THEN @ ELSE "passed"]
  <2>2. slots' = [slots EXCEPT ![r] = row]
    BY <1>t, <2>1 DEF Exec!Run
  <2>3. /\ row \in Exec!Run /\ row.pc = (IF runnable THEN "spawn" ELSE "finish")
        /\ row.project = slots[r].project /\ row.results = slots[r].results
    BY <1>r DEF Exec!Run
  <2> HIDE DEF row
  <2>4. \A f \in files' : f \in files \/ (f[2] = slots[r].project /\ f[3] \in Scripts)
    BY <2>1 DEF Exec!FileOf
  <2>5. ExecRest'
    BY <1>t, <2>p, <2>1, <2>4 DEF ExecRest
  <2>6. slots'[r] = row
    BY <1>t, <2>2
  <2>7. lone.run = r => ExecGround(r)'
    <3> SUFFICES ASSUME lone.run = r PROVE ExecGround(r)'
      OBVIOUS
    <3>1. /\ row.results = Exec!NoResults /\ row.pc \in {"spawn", "finish"}
          /\ row.project = slots[r].project
      BY <1>r, <2>p, <2>3
    <3>2. lone.provisioned /\ framework[row.project] = "pest" =>
            checkout = row.project /\ (~spoiled => vendor = row.project)
      BY <1>t, <2>p, <3>1 DEF ExecGround
    <3> QED
      BY <2>1, <2>6, <3>1, <3>2 DEF ExecGround
  <2>8. row.pc \in ExecLate
    BY <2>3 DEF ExecLate
  <2>9. \A f \in files' : \/ f \in files
                          \/ row.pc \in ExecLate /\ framework[f[2]] = framework[row.project]
    BY <2>3, <2>4, <2>8
  <2> QED
    BY <1>r, <2>p, <2>1, <2>2, <2>3, <2>5, <2>7, <2>8, <2>9, ExecMoves
<1>7. ASSUME NEW r \in Slots, NEW found \in [Scripts -> Tellings], Exec!Spawn(r, found) PROVE ExecInv'
  <2> DEFINE row == [slots[r] EXCEPT !.pc = "running", !.told = found]
             entry == [lone EXCEPT !.told = found,
                         !.app = IF Exec!Of(r) = "pest" THEN checkout ELSE slots[r].project,
                         !.lib = IF Exec!Of(r) = "pest" THEN vendor ELSE slots[r].project]
  <2>p. slots[r].pc = "spawn" /\ slots[r].project \in Projects /\ Exec!Of(r) = framework[slots[r].project]
    BY <1>7, <1>r DEF Exec!Spawn, Exec!At, Exec!Of
  <2>1. /\ slots' = [slots EXCEPT ![r] = row] /\ lone' = IF lone.run = r THEN entry ELSE lone
        /\ UNCHANGED <<framework, checkout, vendor, marker, files, report, died, spoiled>>
    BY <1>t, <1>7 DEF Exec!Spawn, Exec!Note, Exec!disk, Exec!Run
  <2>2. /\ row \in Exec!Run /\ row.pc = "running" /\ row.project = slots[r].project
        /\ row.results = slots[r].results /\ row.told = found
    BY <1>r DEF Exec!Run
  <2>3. checkout \in Projects \cup {"none"} /\ vendor \in Projects \cup {"mixed", "none"}
    BY <1>t DEF ExecRest
  <2>4. /\ entry \in ExecLoneRow /\ entry.run = lone.run /\ entry.told = found
        /\ entry.provisioned = lone.provisioned
        /\ entry.app = IF Exec!Of(r) = "pest" THEN checkout ELSE slots[r].project
        /\ entry.lib = IF Exec!Of(r) = "pest" THEN vendor ELSE slots[r].project
    BY <1>l, <2>p, <2>3 DEF ExecLoneRow
  <2> HIDE DEF row, entry
  <2>5. lone' \in ExecLoneRow /\ lone'.run = lone.run
    BY <1>l, <2>1, <2>4
  <2>6. ExecRest'
    BY <1>t, <2>1, <2>5 DEF ExecRest
  <2>7. slots'[r] = row
    BY <1>t, <2>1
  <2>8. lone.run = r => ExecGround(r)'
    <3> SUFFICES ASSUME lone.run = r PROVE ExecGround(r)'
      OBVIOUS
    <3>1. row.results = Exec!NoResults /\ lone' = entry
      BY <1>r, <2>p, <2>1, <2>2
    <3>2. lone.provisioned /\ Exec!Of(r) = "pest" =>
            checkout = row.project /\ (~spoiled => vendor = row.project)
      BY <1>t, <2>p, <2>2 DEF ExecGround
    <3>3. lone.provisioned => entry.app = row.project /\ (~spoiled => entry.lib = row.project)
      BY <2>2, <2>4, <3>2
    <3> QED
      BY <2>1, <2>2, <2>4, <2>7, <3>1, <3>3 DEF ExecGround
  <2> QED
    BY <1>r, <2>p, <2>1, <2>2, <2>5, <2>6, <2>8, ExecMoves DEF ExecLate
<1>8. ASSUME NEW r \in Slots, NEW writes \in BOOLEAN, Exec!Exit(r, writes) PROVE ExecInv'
  <2> DEFINE row == [slots[r] EXCEPT !.pc = "parse", !.told = Exec!Absent]
             entry == [lone EXCEPT !.wrote = writes]
             made == [of |-> slots[r].project, cases |-> slots[r].told]
             at == framework[slots[r].project]
  <2>p. slots[r].pc = "running" /\ slots[r].project \in Projects /\ at \in Exec!Frameworks
    BY <1>8, <1>r DEF Exec!Exit, Exec!Of
  <2>1. /\ slots' = [slots EXCEPT ![r] = row] /\ lone' = IF lone.run = r THEN entry ELSE lone
        /\ report' = IF writes THEN [report EXCEPT ![at] = made] ELSE report
        /\ UNCHANGED <<framework, checkout, vendor, marker, files, died, spoiled>>
    <3>1. slots' = [slots EXCEPT ![r].pc = "parse", ![r].told = Exec!Absent]
      BY <1>8 DEF Exec!Exit
    <3>2. slots' = [slots EXCEPT ![r] = row]
      BY <1>t, <1>r, <3>1 DEF Exec!Run
    <3> QED
      BY <1>8, <3>2 DEF Exec!Exit, Exec!Note, Exec!Of
  <2>2. /\ row \in Exec!Run /\ row.pc = "parse" /\ row.project = slots[r].project
        /\ row.results = slots[r].results
    BY <1>r, <1>a DEF Exec!Run
  <2>3. /\ entry \in ExecLoneRow /\ entry.run = lone.run /\ entry.wrote = writes
        /\ entry.provisioned = lone.provisioned /\ entry.told = lone.told
        /\ entry.app = lone.app /\ entry.lib = lone.lib
    BY <1>l DEF ExecLoneRow
  <2>4. made \in ExecReport
    BY <1>r, <2>p DEF ExecReport
  <2> HIDE DEF row, entry
  <2>5. lone' \in ExecLoneRow /\ lone'.run = lone.run
    BY <1>l, <2>1, <2>3
  <2>6. report' \in [Exec!Frameworks -> ExecReport] /\ (writes => report'[at] = made)
    BY <1>t, <2>p, <2>1, <2>4 DEF ExecRest
  <2>7. ExecRest'
    BY <1>t, <2>1, <2>5, <2>6 DEF ExecRest
  <2>8. slots'[r] = row
    BY <1>t, <2>1
  <2>9. lone.run = r => ExecGround(r)'
    <3> SUFFICES ASSUME lone.run = r PROVE ExecGround(r)'
      OBVIOUS
    <3>1. row.results = Exec!NoResults /\ lone' = entry
      BY <1>r, <2>p, <2>1, <2>2
    <3>2. lone.provisioned => lone.app = row.project /\ (~spoiled => lone.lib = row.project)
      BY <1>t, <2>p, <2>2 DEF ExecGround
    <3>3. lone.told = slots[r].told
      BY <1>t, <2>p DEF ExecGround
    <3>4. entry.wrote => report'[framework[row.project]] = [of |-> row.project, cases |-> entry.told]
      BY <2>2, <2>3, <2>6, <3>3
    <3> QED
      BY <2>1, <2>2, <2>3, <2>8, <3>1, <3>2, <3>4 DEF ExecGround
  <2> QED
    BY <1>r, <2>p, <2>1, <2>2, <2>5, <2>7, <2>9, ExecMoves DEF ExecLate
<1>9. ASSUME NEW r \in Slots, Exec!RunnerFailed(r) PROVE ExecInv'
  <2> DEFINE row == [slots[r] EXCEPT !.pc = "finish", !.status = "errored", !.told = Exec!Absent]
  <2>p. slots[r].pc = "running" /\ slots[r].results = Exec!NoResults
    BY <1>9, <1>r DEF Exec!RunnerFailed
  <2>1. /\ slots' = [slots EXCEPT ![r] = row]
        /\ UNCHANGED <<framework, checkout, vendor, marker, files, report, died, spoiled, lone>>
    <3>1. slots' = [slots EXCEPT ![r].pc = "finish", ![r].status = "errored",
                                 ![r].told = Exec!Absent]
      BY <1>9 DEF Exec!RunnerFailed
    <3>2. slots' = [slots EXCEPT ![r] = row]
      BY <1>t, <1>r, <3>1 DEF Exec!Run
    <3> QED
      BY <1>9, <3>2 DEF Exec!RunnerFailed, Exec!disk
  <2>2. /\ row \in Exec!Run /\ row.pc = "finish" /\ row.project = slots[r].project
        /\ row.results = slots[r].results
    BY <1>r, <1>a DEF Exec!Run
  <2> HIDE DEF row
  <2>3. ExecRest'
    BY <1>t, <2>1 DEF ExecRest
  <2>4. slots'[r] = row
    BY <1>t, <2>1
  <2>5. lone.run = r => ExecGround(r)'
    BY <2>p, <2>2, <2>4 DEF ExecGround
  <2> QED
    BY <1>r, <2>p, <2>1, <2>2, <2>3, <2>5, ExecMoves DEF ExecLate
<1>10. ASSUME NEW r \in Slots, Exec!Parse(r) PROVE ExecInv'
  <2> DEFINE results == Exec!MapResults(r, report[Exec!Of(r)])
             status == IF \E s \in Scripts : results[s] \in {"fail", "error"}
                         THEN "failed" ELSE "passed"
             row == [slots[r] EXCEPT !.pc = "finish", !.results = results, !.status = status]
  <2>p. slots[r].pc = "parse" /\ slots[r].project \in Projects /\ Exec!Of(r) = framework[slots[r].project]
    BY <1>10, <1>r DEF Exec!Parse, Exec!Of
  <2>1. /\ slots' = [slots EXCEPT ![r] = row]
        /\ UNCHANGED <<framework, checkout, vendor, marker, files, report, died, spoiled, lone>>
    BY <1>t, <1>10 DEF Exec!Parse, Exec!disk, Exec!Run
  <2>2. results \in [Scripts -> Exec!Outcome \cup {"none"}]
    BY ExecResults
  <2>3. report[Exec!Of(r)].of = slots[r].project =>
          \A s \in Scripts : s \in slots[r].scripts =>
            /\ results[s] = "error" <=> (report[Exec!Of(r)].cases[s] = {} \/ "error" \in report[Exec!Of(r)].cases[s])
            /\ results[s] \in {"pass", "skipped"} => "fail" \notin report[Exec!Of(r)].cases[s]
    BY ExecResults
  <2> HIDE DEF results
  <2>4. status \in {"running", "passed", "failed", "errored"}
    OBVIOUS
  <2> HIDE DEF status
  <2>5. /\ row \in Exec!Run /\ row.pc = "finish" /\ row.project = slots[r].project
        /\ row.results = results /\ row.scripts = slots[r].scripts
    BY <1>r, <2>2, <2>4 DEF Exec!Run
  <2> HIDE DEF row
  <2>6. ExecRest'
    BY <1>t, <2>1 DEF ExecRest
  <2>7. slots'[r] = row
    BY <1>t, <2>1
  <2>8. lone.run = r => ExecGround(r)'
    <3> SUFFICES ASSUME lone.run = r PROVE ExecGround(r)'
      OBVIOUS
    <3>1. lone.provisioned => lone.app = row.project /\ (~spoiled => lone.lib = row.project)
      BY <1>t, <2>p, <2>5 DEF ExecGround
    <3>2. lone.wrote =>
            /\ report[Exec!Of(r)].of = slots[r].project /\ report[Exec!Of(r)].cases = lone.told
      <4>1. lone.wrote =>
              report[Exec!Of(r)] = [of |-> slots[r].project, cases |-> lone.told]
        BY <1>t, <2>p DEF ExecGround
      <4> QED
        BY <4>1
    <3>3. lone.wrote => \A s \in row.scripts :
            /\ row.results[s] = "error" <=> (lone.told[s] = {} \/ "error" \in lone.told[s])
            /\ row.results[s] \in {"pass", "skipped"} => "fail" \notin lone.told[s]
      BY <1>r, <2>3, <2>5, <3>2
    <3> QED
      BY <2>1, <2>5, <2>7, <3>1, <3>3 DEF ExecGround
  <2> QED
    BY <1>r, <2>p, <2>1, <2>5, <2>6, <2>8, ExecMoves DEF ExecLate
<1>11. ASSUME NEW r \in Slots, Exec!Finish(r) PROVE ExecInv'
  <2>p. slots[r].pc = "finish" /\ Exec!Of(r) = framework[slots[r].project]
    BY <1>11 DEF Exec!Finish, Exec!At, Exec!Of
  <2>1. /\ slots' = [slots EXCEPT ![r] = Exec!Free]
        /\ files' = {f \in files : framework[f[2]] # framework[slots[r].project]}
        /\ died' = (died /\ files' # {})
        /\ lone' = IF lone.run = r THEN Exec!NoLone ELSE lone
        /\ UNCHANGED <<framework, checkout, vendor, marker, report, spoiled>>
    BY <1>11, <2>p DEF Exec!Finish, Exec!Teardown, Exec!Note
  <2>2. slots' \in [Slots -> Exec!Run] /\ slots'[r] = Exec!Free /\ \A q \in Slots \ {r} : slots'[q] = slots[q]
    BY <1>t, <2>1, ExecConstants
  <2>3. lone' \in ExecLoneRow /\ died' \in BOOLEAN
    BY <1>l, <2>1, ExecConstants
  <2>4. ExecRest'
    BY <1>t, <2>1, <2>3 DEF ExecRest
  <2>5. ExecLive'
    BY <1>t, <2>2, ExecConstants DEF ExecLive
  <2>6. lone'.run = "none"
    BY <1>t, <1>l, <2>p, <2>1, ExecConstants, ExecutionAssumption DEF ExecAlone
  <2>7. ExecFiles'
    <3> SUFFICES ASSUME ~died', NEW f \in files'
                 PROVE  \E q \in Slots : /\ slots'[q].pc \in ExecLate
                                         /\ framework[f[2]] = framework[slots'[q].project]
      BY <2>1 DEF ExecFiles
    <3>1. ~died /\ f \in files /\ framework[f[2]] # framework[slots[r].project]
      BY <1>t, <2>1 DEF ExecRest
    <3>2. PICK q \in Slots : /\ slots[q].pc \in ExecLate
                             /\ framework[f[2]] = framework[slots[q].project]
      BY <1>t, <3>1 DEF ExecFiles
    <3> QED
      BY <2>2, <3>1, <3>2
  <2> QED
    BY <2>2, <2>4, <2>5, <2>6, <2>7, ExecutionAssumption DEF ExecInv, ExecAlone
<1>12. ASSUME NEW w \in Slots, Exec!ProcessDies(w) PROVE ExecInv'
  <2>1. /\ slots' = [q \in Slots |-> IF q = w THEN Exec!Free ELSE slots[q]]
        /\ slots[w].pc # "free" /\ died' = (files # {})
        /\ UNCHANGED <<framework, checkout, vendor, marker, files, report, spoiled>>
    BY <1>12 DEF Exec!ProcessDies, MCProcessOf, Exec!Live, Exec!disk
  <2>2. lone' = IF lone.run # "none" /\ lone.run = w THEN Exec!NoLone ELSE lone
    BY <1>12, <1>l DEF Exec!ProcessDies, MCProcessOf
  <2>3. slots' \in [Slots -> Exec!Run] /\ slots'[w] = Exec!Free /\ \A q \in Slots \ {w} : slots'[q] = slots[q]
    BY <1>t, <2>1, ExecConstants
  <2>4. lone' \in ExecLoneRow /\ died' \in BOOLEAN
    BY <1>l, <2>1, <2>2, ExecConstants
  <2>5. ExecRest'
    BY <1>t, <2>1, <2>4 DEF ExecRest
  <2>6. ExecLive'
    BY <1>t, <2>3, ExecConstants DEF ExecLive
  <2>7. lone'.run = "none"
    BY <1>t, <1>l, <2>1, <2>2, ExecConstants DEF ExecAlone
  <2>8. ExecFiles'
    BY <2>1 DEF ExecFiles
  <2> QED
    BY <2>3, <2>5, <2>6, <2>7, <2>8, ExecutionAssumption DEF ExecInv, ExecAlone
<1>13. CASE UNCHANGED execVars
  <2>1. ExecRest' /\ ExecLive' /\ ExecAlone' /\ ExecFiles'
    BY <1>t, <1>13 DEF ExecRest, ExecLive, ExecAlone, ExecFiles
  <2>2. \A q \in Slots : lone'.run = q => ExecGround(q)'
    BY <1>t, <1>13 DEF ExecGround
  <2> QED
    BY <1>t, <1>13, <2>1, <2>2 DEF ExecInv
<1>14. \A w : w \in {MCProcessOf[r] : r \in Slots} => w \in Slots
  BY DEF MCProcessOf
<1> QED
  BY <1>1, <1>2, <1>3, <1>4, <1>5, <1>6, <1>7, <1>8, <1>9, <1>10, <1>11, <1>12, <1>13, <1>14
     DEF Exec!Next

LEMMA ExecAloneFollows == ExecInv => Exec!AloneIsItsOwn
<1> SUFFICES ASSUME ExecInv PROVE Exec!AloneIsItsOwn
  OBVIOUS
<1>1. Exec!OwnVerdictsInTurn
  BY DEF ExecInv, ExecGround, Exec!OwnVerdictsInTurn, Exec!Judged
<1>2. Exec!OwnApplicationInTurn
  BY DEF ExecInv, ExecGround, Exec!OwnApplicationInTurn, Exec!Judged
<1>3. Exec!NothingLeftBehind
  BY DEF ExecInv, ExecFiles, ExecLate, Exec!NothingLeftBehind, Exec!Live
<1> QED
  BY <1>1, <1>2, <1>3 DEF Exec!AloneIsItsOwn

LEMMA ExecTyped == ExecInv => Exec!ExecTypeOK
BY DEF ExecInv, ExecRest, ExecReport, Exec!ExecTypeOK

\* Runs execute in one focus, and stutter in the others.
LEMMA ExecSpec == Spec => []ExecInv
<1>1. Init => ExecInv
  BY ExecInit DEF Init
<1>2. ExecInv /\ [Next]_vars => ExecInv'
  <2>1. [Next]_vars => [Exec!Next]_execVars
    BY DEF Next, vars
  <2> QED
    BY <2>1, ExecNext
<1> QED
  BY <1>1, <1>2, PTL DEF Spec

\* However the workers' runs overlap before and after, a run that is alone from its checkout
\* to its verdicts is judged by its own report, on its own application with its own
\* dependencies (execution/lifecycle.py and provision.py, which share one workspace); and
\* when no run is left no generated test is, unless a process died.
THEOREM AloneIsItsOwnHolds == Spec => []AloneIsItsOwn
<1>1. ExecInv => AloneIsItsOwn
  BY ExecAloneFollows DEF AloneIsItsOwn
<1> QED
  BY <1>1, ExecSpec, PTL

-----------------------------------------------------------------------------
(* The findings                                                            *)

USE DEF inboxVars

InboxRow ==
  [status : {"running"} \cup Inbox!Verdicts, results : [Cases -> Outcomes \cup {"none"}],
   findings : SUBSET Inbox!Findings, report : {"due", "done", "lost"}]

\* A run has results once it has been executed, and fails where one of its cases does; its
\* findings come with its report.
InboxSettled(R) ==
  /\ R.status = "running" => R.report = "due" /\ R.results = Inbox!NoResults
  /\ R.report = "due" => R.status \in {"running", "failed"}
  /\ R.findings # {} => R.report = "done" /\ R.status = "failed"
  /\ (\E c \in Cases : R.results[c] \in Inbox!Failing) => R.status = "failed"

\* A finding holds the whole of its group, and the report a finding of every group.
InboxGrouped(r) ==
  /\ \A f \in runs[r].findings : f.members = Inbox!Group(r, f.key) /\ f.rep \in f.members
  /\ runs[r].status = "failed" /\ runs[r].report = "done" =>
       \A k \in Inbox!Groups(r) : \E f \in runs[r].findings : f.key = k

\* Only a failure that drifted is healed, and only one of a run there is.
InboxHealed ==
  \A c \in Cases : healed[c] # 0 =>
    healed[c] \in DOMAIN runs /\ runs[healed[c]].results[c] = "drifted"

\* While runs take turns, only the last one has its report to come, and what a finding was
\* classified as is what it would be classified as now.
InboxTurns ==
  RunsAtOnce = 1 => \A r \in DOMAIN runs :
    /\ r < Len(runs) => runs[r].report # "due"
    /\ \A f \in runs[r].findings : f.status = Inbox!ClassifyHistory(f.key, r)

InboxInv ==
  /\ runs \in Seq(InboxRow) /\ Len(runs) <= MaxRuns
  /\ triage \in [Inbox!Keys -> Inbox!Dispositions] /\ healed \in [Cases -> 0 .. MaxRuns]
  /\ \A r \in DOMAIN runs : InboxSettled(runs[r]) /\ InboxGrouped(r)
  /\ InboxHealed
  /\ InboxTurns

-----------------------------------------------------------------------------
LEMMA InboxCardinality == \A S : Inbox!Cardinality(S) = Cardinality(S)
BY DEF Inbox!Cardinality, Cardinality

\* The runs looked back at are finitely many, and come before.
LEMMA InboxPrior ==
  ASSUME NEW r \in Nat
  PROVE  /\ \A q \in Inbox!PriorRuns(r) : q \in Nat /\ 1 <= q /\ q < r
         /\ r - 1 >= 1 => r - 1 \in Inbox!PriorRuns(r)
         /\ \A S : S \subseteq Inbox!PriorRuns(r) => IsFiniteSet(S) /\ Cardinality(S) \in Nat
<1>1. Inbox!PriorRuns(r) \subseteq 1 .. (r - 1)
  BY DEF Inbox!PriorRuns
<1>2. IsFiniteSet(1 .. (r - 1))
  BY FS_Interval
<1>3. r - 1 >= 1 => r - 1 \in Inbox!PriorRuns(r)
  BY InboxBoundsAssumption DEF Inbox!PriorRuns
<1> QED
  BY <1>1, <1>2, <1>3, FS_Subset, FS_CardinalityType

\* The class of a finding, by the presence of its root cause in the runs before.
LEMMA InboxClasses ==
  ASSUME NEW k, NEW r \in Nat
  PROVE  LET class == Inbox!ClassifyHistory(k, r)
         IN /\ class \in Inbox!History
            /\ class = "regression" <=> Inbox!Seen(k, r) /\ ~Inbox!Last(k, r)
            /\ class = "new" <=> ~Inbox!Seen(k, r)
<1> DEFINE S == {q \in Inbox!PriorRuns(r) :
                   q + 1 \in Inbox!PriorRuns(r) /\ Inbox!Present(k, q) # Inbox!Present(k, q + 1)}
<1>1. Inbox!Last(k, r) => Inbox!Seen(k, r)
  BY DEF Inbox!Last, Inbox!Seen
<1>2. Cardinality(S) \in Nat
  BY InboxPrior
<1>3. Inbox!Flips(k, r) \in Nat
  BY <1>2, InboxCardinality, Zenon DEF Inbox!Flips
<1>4. Inbox!Flips(k, r) >= 2 \/ Inbox!Flips(k, r) < 2
  BY <1>3
<1>5. Inbox!Seen(k, r) \in BOOLEAN /\ Inbox!Last(k, r) \in BOOLEAN
  BY DEF Inbox!Seen, Inbox!Last
<1>6. CASE Inbox!Seen(k, r) /\ ~Inbox!Last(k, r)
  <2>1. Inbox!ClassifyHistory(k, r) = "regression"
    BY <1>6, Zenon DEF Inbox!ClassifyHistory
  <2> QED
    BY <1>6, <2>1 DEF Inbox!History
<1>7. CASE Inbox!Last(k, r)
  <2>1. Inbox!ClassifyHistory(k, r) \in {"flaky", "known"}
    BY <1>4, <1>7 DEF Inbox!ClassifyHistory
  <2> QED
    BY <1>1, <1>7, <2>1 DEF Inbox!History
<1>8. CASE ~Inbox!Seen(k, r)
  <2>1. Inbox!ClassifyHistory(k, r) = "new"
    BY <1>1, <1>8, Zenon DEF Inbox!ClassifyHistory
  <2> QED
    BY <1>8, <2>1 DEF Inbox!History
<1> QED
  BY <1>6, <1>7, <1>8

\* ... which depends on the findings of those runs alone.
LEMMA InboxSame ==
  ASSUME NEW k, NEW r \in Nat,
         \A q \in 1 .. (r - 1) : runs'[q].findings = runs[q].findings
  PROVE  Inbox!ClassifyHistory(k, r)' = Inbox!ClassifyHistory(k, r)
<1>1. Inbox!PriorRuns(r)' = Inbox!PriorRuns(r)
  BY DEF Inbox!PriorRuns
<1>2. \A q \in Inbox!PriorRuns(r) : Inbox!Present(k, q)' <=> Inbox!Present(k, q)
  BY InboxPrior DEF Inbox!Present
<1>3. \A q \in Inbox!PriorRuns(r) : Inbox!Present(k, q)' = Inbox!Present(k, q)
  BY <1>2 DEF Inbox!Present
<1>4. Inbox!Flips(k, r)' = Inbox!Flips(k, r)
  <2>1. {q \in Inbox!PriorRuns(r) :
           q + 1 \in Inbox!PriorRuns(r) /\ Inbox!Present(k, q)' # Inbox!Present(k, q + 1)'}
        = {q \in Inbox!PriorRuns(r) :
             q + 1 \in Inbox!PriorRuns(r) /\ Inbox!Present(k, q) # Inbox!Present(k, q + 1)}
    BY <1>3
  <2> QED
    BY <1>1, <2>1, Zenon DEF Inbox!Flips
<1>5. (Inbox!Seen(k, r)' <=> Inbox!Seen(k, r)) /\ (Inbox!Last(k, r)' <=> Inbox!Last(k, r))
  BY <1>1, <1>2 DEF Inbox!Seen, Inbox!Last
<1> QED
  BY <1>4, <1>5 DEF Inbox!ClassifyHistory

\* A run that stays as it was is grouped as it was.
LEMMA InboxKept ==
  ASSUME NEW q, runs'[q] = runs[q], InboxGrouped(q)
  PROVE  InboxGrouped(q)'
<1>1. \A k : Inbox!Group(q, k)' = Inbox!Group(q, k)
  BY DEF Inbox!Group
<1>2. Inbox!Groups(q)' = Inbox!Groups(q)
  BY <1>1 DEF Inbox!Groups
<1> QED
  BY <1>1, <1>2 DEF InboxGrouped

\* When no run changes, nothing changes that is said of the runs alone.
LEMMA InboxStill ==
  ASSUME InboxInv, runs' = runs
  PROVE  /\ InboxTurns'
         /\ \A q \in DOMAIN runs' : InboxSettled(runs'[q]) /\ InboxGrouped(q)'
<1>1. DOMAIN runs = 1 .. Len(runs) /\ Len(runs) \in Nat
  BY DEF InboxInv
<1>2. \A q \in DOMAIN runs' : InboxSettled(runs'[q]) /\ InboxGrouped(q)'
  BY InboxKept DEF InboxInv
<1>3. ASSUME NEW q \in DOMAIN runs, NEW k
      PROVE  Inbox!ClassifyHistory(k, q)' = Inbox!ClassifyHistory(k, q)
  BY <1>1, InboxSame
<1>4. InboxTurns'
  BY <1>3 DEF InboxInv, InboxTurns
<1> QED
  BY <1>2, <1>4

\* A run more.
LEMMA InboxGrown ==
  ASSUME NEW S, runs \in Seq(S), NEW row, row \in S, runs' = Append(runs, row)
  PROVE  /\ runs' \in Seq(S) /\ Len(runs') = Len(runs) + 1
         /\ DOMAIN runs' = 1 .. Len(runs) + 1 /\ runs'[Len(runs) + 1] = row
         /\ \A q \in DOMAIN runs : runs'[q] = runs[q]
  OBVIOUS

LEMMA InboxInit == Inbox!Init => InboxInv
<1> SUFFICES ASSUME Inbox!Init PROVE InboxInv
  OBVIOUS
<1>1. runs = << >> /\ triage = [k \in Inbox!Keys |-> "open"] /\ healed = [c \in Cases |-> 0]
  BY DEF Inbox!Init
<1>2. runs \in Seq(InboxRow) /\ Len(runs) = 0 /\ DOMAIN runs = {}
  BY <1>1
<1>3. triage \in [Inbox!Keys -> Inbox!Dispositions] /\ healed \in [Cases -> 0 .. MaxRuns]
  BY <1>1, InboxBoundsAssumption DEF Inbox!Dispositions
<1> QED
  BY <1>1, <1>2, <1>3, InboxBoundsAssumption DEF InboxInv, InboxHealed, InboxTurns

\* Results, and findings that were there, are kept.
LEMMA InboxChange ==
  ASSUME InboxInv, NEW r \in DOMAIN runs, NEW row \in InboxRow,
         runs' = [runs EXCEPT ![r] = row], UNCHANGED <<triage, healed>>,
         runs[r].report = "due", InboxSettled(row),
         runs[r].status = "running" \/ row.results = runs[r].results,
         InboxGrouped(r)',
         \A f \in row.findings : f.status = Inbox!ClassifyHistory(f.key, r)
  PROVE  InboxInv'
<1>1. /\ runs \in Seq(InboxRow) /\ Len(runs) \in Nat /\ DOMAIN runs = 1 .. Len(runs)
      /\ Len(runs) <= MaxRuns
  BY DEF InboxInv
<1>2. /\ runs' \in Seq(InboxRow) /\ Len(runs') = Len(runs) /\ DOMAIN runs' = DOMAIN runs
      /\ runs'[r] = row /\ \A q \in DOMAIN runs \ {r} : runs'[q] = runs[q]
  BY <1>1
<1>3. \A q \in DOMAIN runs \ {r} : InboxSettled(runs[q]) /\ InboxGrouped(q)
  BY DEF InboxInv
<1>4. ASSUME NEW q \in DOMAIN runs, q # r PROVE InboxGrouped(q)'
  BY <1>2, <1>3, <1>4, InboxKept
<1>5. InboxHealed'
  <2> SUFFICES ASSUME NEW c \in Cases, healed[c] # 0
               PROVE  healed[c] \in DOMAIN runs' /\ runs'[healed[c]].results[c] = "drifted"
    BY DEF InboxHealed
  <2>1. healed[c] \in DOMAIN runs /\ runs[healed[c]].results[c] = "drifted"
    BY DEF InboxInv, InboxHealed
  <2>2. CASE healed[c] = r
    <3>1. runs[r].status # "running"
      <4> SUFFICES ASSUME runs[r].status = "running" PROVE FALSE
        OBVIOUS
      <4>1. runs[r].results = Inbox!NoResults
        BY DEF InboxInv, InboxSettled
      <4> QED
        BY <2>1, <2>2, <4>1 DEF Inbox!NoResults
    <3> QED
      BY <1>2, <2>1, <2>2, <3>1
  <2>3. CASE healed[c] # r
    BY <1>2, <2>1, <2>3
  <2> QED
    BY <2>2, <2>3
<1>6. InboxTurns'
  <2> SUFFICES ASSUME RunsAtOnce = 1, NEW q \in DOMAIN runs'
               PROVE  /\ q < Len(runs') => runs'[q].report # "due"
                      /\ \A f \in runs'[q].findings :
                           f.status = Inbox!ClassifyHistory(f.key, q)'
    BY DEF InboxTurns
  <2>1. /\ \A p \in DOMAIN runs : p < Len(runs) => runs[p].report # "due"
        /\ \A p \in DOMAIN runs : \A f \in runs[p].findings :
             f.status = Inbox!ClassifyHistory(f.key, p)
    BY DEF InboxInv, InboxTurns
  <2>2. r = Len(runs) /\ q \in Nat /\ q <= r /\ q \in DOMAIN runs
    BY <1>1, <1>2, <2>1
  <2>3. \A k : Inbox!ClassifyHistory(k, q)' = Inbox!ClassifyHistory(k, q)
    <3>1. \A p \in 1 .. (q - 1) : runs'[p].findings = runs[p].findings
      BY <1>1, <1>2, <2>2
    <3> QED
      BY <2>2, <3>1, InboxSame
  <2>4. CASE q = r
    BY <1>2, <2>2, <2>3, <2>4
  <2>5. CASE q # r
    BY <1>2, <2>1, <2>2, <2>3, <2>5
  <2> QED
    BY <2>4, <2>5
<1>7. ASSUME NEW q \in DOMAIN runs' PROVE InboxSettled(runs'[q]) /\ InboxGrouped(q)'
  <2>1. CASE q = r
    BY <1>2, <2>1
  <2>2. CASE q # r
    BY <1>2, <1>3, <1>4, <2>2
  <2> QED
    BY <2>1, <2>2
<1>8. /\ triage' \in [Inbox!Keys -> Inbox!Dispositions] /\ healed' \in [Cases -> 0 .. MaxRuns]
      /\ Len(runs') <= MaxRuns
  BY <1>1, <1>2 DEF InboxInv
<1> QED
  BY <1>2, <1>5, <1>6, <1>7, <1>8 DEF InboxInv

LEMMA InboxNext == InboxInv /\ [Inbox!Next]_inboxVars => InboxInv'
<1> SUFFICES ASSUME InboxInv, [Inbox!Next]_inboxVars PROVE InboxInv'
  OBVIOUS
<1>t. /\ runs \in Seq(InboxRow) /\ Len(runs) \in Nat /\ DOMAIN runs = 1 .. Len(runs)
      /\ Len(runs) <= MaxRuns /\ InboxHealed /\ InboxTurns
      /\ triage \in [Inbox!Keys -> Inbox!Dispositions] /\ healed \in [Cases -> 0 .. MaxRuns]
      /\ \A r \in DOMAIN runs : InboxSettled(runs[r]) /\ InboxGrouped(r)
  BY DEF InboxInv
<1>r. ASSUME NEW r \in DOMAIN runs
      PROVE  /\ runs[r] \in InboxRow /\ r \in Nat
             /\ runs[r].findings \subseteq Inbox!Findings
             /\ runs[r].results \in [Cases -> Outcomes \cup {"none"}]
             /\ runs[r].status \in {"running"} \cup Inbox!Verdicts
             /\ runs[r].report \in {"due", "done", "lost"}
             /\ runs[r].report = "due" => runs[r].findings = {}
  <2>1. runs[r] \in InboxRow /\ r \in Nat /\ InboxSettled(runs[r])
    BY <1>t
  <2>2. runs[r].report = "due" => runs[r].findings = {}
    BY <2>1 DEF InboxSettled
  <2> QED
    BY <2>1, <2>2 DEF InboxRow
<1>n. Inbox!NoResults \in [Cases -> Outcomes \cup {"none"}] /\ \A c \in Cases : Inbox!NoResults[c] = "none"
  BY DEF Inbox!NoResults
<1>1. CASE Inbox!Start
  <2> DEFINE row == [status |-> "running", results |-> Inbox!NoResults,
                     findings |-> {}, report |-> "due"]
  <2>1. /\ runs' = Append(runs, row) /\ Len(runs) < MaxRuns /\ UNCHANGED <<triage, healed>>
        /\ Inbox!Cardinality(Inbox!Live) < RunsAtOnce
    BY <1>1 DEF Inbox!Start
  <2>2. /\ row \in InboxRow /\ row.findings = {} /\ row.status = "running"
        /\ row.results = Inbox!NoResults /\ row.report = "due"
    BY <1>n DEF InboxRow
  <2> HIDE DEF row
  <2>3. /\ runs' \in Seq(InboxRow) /\ Len(runs') = Len(runs) + 1
        /\ DOMAIN runs' = 1 .. Len(runs) + 1 /\ runs'[Len(runs) + 1] = row
        /\ \A q \in DOMAIN runs : runs'[q] = runs[q]
    <3>1. runs \in Seq(InboxRow) /\ Len(runs) \in Nat /\ DOMAIN runs = 1 .. Len(runs)
      BY <1>t
    <3>2. row \in InboxRow /\ runs' = Append(runs, row)
      BY <2>1, <2>2
    <3> QED
      BY <3>1, <3>2, InboxGrown
  <2>8. InboxSettled(row)
    BY <1>n, <2>2 DEF InboxSettled, Inbox!Failing
  <2>4. ASSUME NEW q \in DOMAIN runs' PROVE InboxSettled(runs'[q]) /\ InboxGrouped(q)'
    <3>1. CASE q \in DOMAIN runs
      BY <1>t, <2>3, <3>1, InboxKept
    <3>2. CASE q = Len(runs) + 1
      BY <2>2, <2>3, <2>8, <3>2 DEF InboxGrouped
    <3> QED
      BY <1>t, <2>3, <3>1, <3>2
  <2>5. InboxHealed'
    <3>1. DOMAIN runs \subseteq DOMAIN runs'
      BY <1>t, <2>3
    <3> QED
      BY <1>t, <2>1, <2>3, <3>1 DEF InboxHealed
  <2>6. InboxTurns'
    <3> SUFFICES ASSUME RunsAtOnce = 1, NEW q \in DOMAIN runs'
                 PROVE  /\ q < Len(runs') => runs'[q].report # "due"
                        /\ \A f \in runs'[q].findings :
                             f.status = Inbox!ClassifyHistory(f.key, q)'
      BY DEF InboxTurns
    <3>1. Inbox!Live = {}
      <4>1. Inbox!Live \subseteq 1 .. Len(runs)
        BY <1>t DEF Inbox!Live
      <4>2. IsFiniteSet(Inbox!Live) /\ Cardinality(Inbox!Live) \in Nat
        <5>1. IsFiniteSet(1 .. Len(runs))
          BY <1>t, FS_Interval
        <5> QED
          BY <4>1, <5>1, FS_Subset, FS_CardinalityType
      <4>3. Cardinality(Inbox!Live) < 1
        BY <2>1, InboxCardinality
      <4>4. Cardinality(Inbox!Live) = 0
        BY <4>2, <4>3
      <4> QED
        BY <4>2, <4>4, FS_EmptySet
    <3>2. \A p \in DOMAIN runs : runs[p].report # "due"
      BY <3>1 DEF Inbox!Live
    <3>3. CASE q \in DOMAIN runs
      <4>1. \A k : Inbox!ClassifyHistory(k, q)' = Inbox!ClassifyHistory(k, q)
        <5>1. q \in Nat /\ \A p \in 1 .. (q - 1) : runs'[p].findings = runs[p].findings
          BY <1>t, <2>3, <3>3
        <5> QED
          BY <5>1, InboxSame
      <4> QED
        BY <1>t, <2>3, <3>2, <3>3, <4>1 DEF InboxTurns
    <3>4. CASE q = Len(runs) + 1
      BY <1>t, <2>2, <2>3, <3>4
    <3> QED
      BY <1>t, <2>3, <3>3, <3>4
  <2>7. /\ Len(runs') <= MaxRuns /\ triage' \in [Inbox!Keys -> Inbox!Dispositions]
        /\ healed' \in [Cases -> 0 .. MaxRuns]
    <3>1. MaxRuns \in Nat /\ Len(runs) \in Nat /\ Len(runs) < MaxRuns
      BY <1>t, <2>1, InboxBoundsAssumption
    <3>2. Len(runs') <= MaxRuns
      BY <2>3, <3>1
    <3> QED
      BY <1>t, <2>1, <3>2
  <2> QED
    BY <2>3, <2>4, <2>5, <2>6, <2>7 DEF InboxInv
<1>2. ASSUME NEW r \in DOMAIN runs, NEW results \in [Cases -> Outcomes \cup {"none"}],
             Inbox!Execute(r, results)
      PROVE  InboxInv'
  <2> DEFINE fails == \E c \in Cases : results[c] \in Inbox!Failing
             row == [runs[r] EXCEPT !.status = IF fails THEN "failed" ELSE "passed",
                                    !.results = results,
                                    !.report = IF fails THEN "due" ELSE "done"]
  <2>1. /\ runs' = [runs EXCEPT ![r].status = IF fails THEN "failed" ELSE "passed",
                                ![r].results = results,
                                ![r].report = IF fails THEN "due" ELSE "done"]
        /\ runs[r].status = "running" /\ UNCHANGED <<triage, healed>>
    BY <1>2 DEF Inbox!Execute
  <2> HIDE DEF fails
  <2>2. runs' = [runs EXCEPT ![r] = row]
    BY <1>t, <1>r, <2>1 DEF InboxRow
  <2>3. runs[r].report = "due" /\ runs[r].findings = {}
    BY <1>t, <1>r, <2>1 DEF InboxSettled
  <2>4. /\ row \in InboxRow /\ row.results = results /\ row.findings = {}
        /\ row.status = (IF fails THEN "failed" ELSE "passed")
        /\ row.report = (IF fails THEN "due" ELSE "done")
    BY <1>r, <2>3 DEF InboxRow, Inbox!Verdicts
  <2> HIDE DEF row
  <2>5. InboxSettled(row)
    BY <2>4 DEF InboxSettled, fails
  <2>6. runs'[r] = row
    BY <1>t, <2>2
  <2>7. InboxGrouped(r)'
    BY <2>4, <2>6 DEF InboxGrouped
  <2> QED
    BY <2>1, <2>2, <2>3, <2>4, <2>5, <2>7, InboxChange
<1>3. ASSUME NEW r \in DOMAIN runs, NEW verdict \in {"errored", "interrupted"}, Inbox!Stop(r, verdict)
      PROVE  InboxInv'
  <2> DEFINE row == [runs[r] EXCEPT !.status = verdict, !.report = "lost"]
  <2>1. /\ runs' = [runs EXCEPT ![r].status = verdict, ![r].report = "lost"]
        /\ runs[r].status = "running" /\ UNCHANGED <<triage, healed>>
    BY <1>3 DEF Inbox!Stop
  <2>2. runs' = [runs EXCEPT ![r] = row]
    BY <1>t, <1>r, <2>1 DEF InboxRow
  <2>3. runs[r].report = "due" /\ runs[r].findings = {} /\ runs[r].results = Inbox!NoResults
    BY <1>t, <1>r, <2>1 DEF InboxSettled
  <2>4. /\ row \in InboxRow /\ row.results = runs[r].results /\ row.findings = {}
        /\ row.status = verdict /\ row.report = "lost"
    BY <1>r, <2>3 DEF InboxRow, Inbox!Verdicts
  <2> HIDE DEF row
  <2>5. InboxSettled(row)
    BY <1>n, <2>3, <2>4 DEF InboxSettled, Inbox!Failing
  <2>6. runs'[r] = row
    BY <1>t, <2>2
  <2>7. InboxGrouped(r)'
    BY <2>4, <2>6 DEF InboxGrouped
  <2> QED
    BY <2>1, <2>2, <2>3, <2>4, <2>5, <2>7, InboxChange
<1>4. ASSUME NEW r \in DOMAIN runs, Inbox!LoseReport(r) PROVE InboxInv'
  <2> DEFINE row == [runs[r] EXCEPT !.report = "lost"]
  <2>1. /\ runs' = [runs EXCEPT ![r] = row] /\ runs[r].status = "failed"
        /\ runs[r].report = "due" /\ UNCHANGED <<triage, healed>>
    BY <1>t, <1>4 DEF Inbox!LoseReport
  <2>2. runs[r].findings = {} /\ InboxSettled(runs[r])
    BY <1>t, <1>r, <2>1
  <2>3. /\ row \in InboxRow /\ row.results = runs[r].results /\ row.findings = {}
        /\ row.status = "failed" /\ row.report = "lost"
    BY <1>r, <2>1, <2>2 DEF InboxRow
  <2> HIDE DEF row
  <2>4. InboxSettled(row)
    BY <2>3 DEF InboxSettled
  <2>5. runs'[r] = row
    BY <1>t, <2>1
  <2>6. InboxGrouped(r)'
    BY <2>3, <2>5 DEF InboxGrouped
  <2> QED
    BY <2>1, <2>3, <2>4, <2>6, InboxChange
<1>5. ASSUME NEW r \in DOMAIN runs, Inbox!Report(r) PROVE InboxInv'
  <2>1. PICK rep \in [Inbox!Groups(r) -> Cases] :
          /\ \A k \in Inbox!Groups(r) : rep[k] \in Inbox!Group(r, k)
          /\ runs' = [runs EXCEPT
               ![r].report = "done",
               ![r].findings = {[key |-> k, rep |-> rep[k], members |-> Inbox!Group(r, k),
                                 status |-> Inbox!ClassifyHistory(k, r)] : k \in Inbox!Groups(r)}]
    BY <1>5 DEF Inbox!Report
  <2> DEFINE F(k) == [key |-> k, rep |-> rep[k], members |-> Inbox!Group(r, k),
                      status |-> Inbox!ClassifyHistory(k, r)]
             found == {F(k) : k \in Inbox!Groups(r)}
             row == [runs[r] EXCEPT !.report = "done", !.findings = found]
  <2>2. /\ runs[r].status = "failed" /\ runs[r].report = "due" /\ UNCHANGED <<triage, healed>>
    BY <1>5 DEF Inbox!Report
  <2>3. \A k \in Inbox!Groups(r) :
          /\ F(k) \in Inbox!Findings /\ F(k).key = k /\ F(k).rep \in F(k).members
          /\ F(k).members = Inbox!Group(r, k) /\ F(k).status = Inbox!ClassifyHistory(k, r)
    <3> SUFFICES ASSUME NEW k \in Inbox!Groups(r)
                 PROVE  /\ F(k) \in Inbox!Findings /\ F(k).key = k /\ F(k).rep \in F(k).members
                        /\ F(k).members = Inbox!Group(r, k)
                        /\ F(k).status = Inbox!ClassifyHistory(k, r)
      OBVIOUS
    <3>1. /\ k \in Inbox!Keys /\ rep[k] \in Inbox!Group(r, k) /\ rep[k] \in Cases
          /\ Inbox!Group(r, k) \in SUBSET Cases
      BY <2>1 DEF Inbox!Groups, Inbox!Group
    <3>2. Inbox!ClassifyHistory(k, r) \in Inbox!History
      BY <1>r, InboxClasses
    <3> QED
      BY <3>1, <3>2 DEF Inbox!Findings
  <2>4. runs' = [runs EXCEPT ![r] = row]
    <3> HIDE DEF F
    <3>1. runs' = [runs EXCEPT ![r].report = "done", ![r].findings = found]
      BY <2>1 DEF F
    <3> HIDE DEF found
    <3> QED
      BY <1>t, <1>r, <3>1 DEF InboxRow
  <2> HIDE DEF F
  <2>5. \A f \in found : /\ f \in Inbox!Findings /\ f.key \in Inbox!Groups(r)
                         /\ f.members = Inbox!Group(r, f.key) /\ f.rep \in f.members
                         /\ f.status = Inbox!ClassifyHistory(f.key, r)
    BY <2>3
  <2>6. \A k \in Inbox!Groups(r) : \E f \in found : f.key = k
    BY <2>3
  <2> HIDE DEF found
  <2>7. /\ row \in InboxRow /\ row.results = runs[r].results /\ row.findings = found
        /\ row.status = "failed" /\ row.report = "done"
    BY <1>r, <2>2, <2>5 DEF InboxRow
  <2> HIDE DEF row
  <2>8. InboxSettled(row)
    BY <2>7 DEF InboxSettled
  <2>9. runs'[r] = row
    BY <1>t, <2>4
  <2>10. InboxGrouped(r)'
    <3>1. \A k : Inbox!Group(r, k)' = Inbox!Group(r, k)
      BY <2>7, <2>9 DEF Inbox!Group
    <3>2. Inbox!Groups(r)' = Inbox!Groups(r)
      BY <3>1 DEF Inbox!Groups
    <3> QED
      BY <2>5, <2>6, <2>7, <2>9, <3>1, <3>2 DEF InboxGrouped
  <2> QED
    BY <2>2, <2>4, <2>5, <2>7, <2>8, <2>10, InboxChange
<1>6. ASSUME NEW r \in DOMAIN runs, NEW c \in Cases, Inbox!ConfirmHeal(r, c) PROVE InboxInv'
  <2>1. /\ healed' = [healed EXCEPT ![c] = r] /\ runs[r].results[c] = "drifted"
        /\ UNCHANGED <<runs, triage>>
    BY <1>6 DEF Inbox!ConfirmHeal
  <2>2. healed' \in [Cases -> 0 .. MaxRuns]
    BY <1>t, <2>1, InboxBoundsAssumption
  <2>3. InboxHealed'
    BY <1>t, <2>1 DEF InboxHealed
  <2> QED
    BY <1>t, <2>1, <2>2, <2>3, InboxStill DEF InboxInv
<1>7. ASSUME UNCHANGED <<runs, healed>>, triage' \in [Inbox!Keys -> Inbox!Dispositions]
      PROVE  InboxInv'
  <2>1. InboxHealed'
    BY <1>t, <1>7 DEF InboxHealed
  <2> QED
    BY <1>t, <1>7, <2>1, InboxStill DEF InboxInv
<1>8. ASSUME NEW issues, NEW d \in Inbox!Dispositions, Inbox!Triage(issues, d) PROVE InboxInv'
  <2>1. triage' \in [Inbox!Keys -> Inbox!Dispositions] /\ UNCHANGED <<runs, healed>>
    BY <1>t, <1>8 DEF Inbox!Triage
  <2> QED
    BY <1>7, <2>1
<1>9. CASE UNCHANGED inboxVars
  BY <1>t, <1>7, <1>9
<1> QED
  BY <1>1, <1>2, <1>3, <1>4, <1>5, <1>6, <1>8, <1>9 DEF Inbox!Next, Inbox!TriageFinding

-----------------------------------------------------------------------------
\* What the inbox hides was asked for; one healed test hides no other's assertion.
LEMMA InboxHides == InboxInv => Inbox!InboxIsHonest
<1> SUFFICES ASSUME InboxInv PROVE Inbox!InboxIsHonest
  OBVIOUS
<1>1. Inbox!HiddenOnlyOnRequest
  <2> SUFFICES ASSUME NEW r \in DOMAIN runs, r = Inbox!LatestRun, runs[r].status = "failed",
                      runs[r].report = "done", NEW c \in Cases,
                      runs[r].results[c] \in Inbox!Failing
               PROVE  LET k == Inbox!RootCauseKey(c, runs[r].results[c])
                      IN \/ \E f \in Inbox!Inbox : c \in f.members
                         \/ triage[k] \in Inbox!Muted
                         \/ \E d \in Inbox!Group(r, k) : healed[d] = r
    BY Zenon DEF Inbox!HiddenOnlyOnRequest
  <2> DEFINE k == Inbox!RootCauseKey(c, runs[r].results[c])
  <2>1. k \in Inbox!Keys
    BY DEF Inbox!RootCauseKey, Inbox!Keys
  <2>2. c \in Inbox!Group(r, k)
    BY DEF Inbox!Group
  <2>3. k \in Inbox!Groups(r)
    BY <2>1, <2>2 DEF Inbox!Groups
  <2> HIDE DEF k
  <2>4. PICK f \in runs[r].findings : /\ f.key = k /\ f.members = Inbox!Group(r, k)
                                      /\ f.rep \in f.members
    BY <2>3 DEF InboxInv, InboxGrouped
  <2>5. runs # << >>
    BY DEF InboxInv
  <2>6. f \in Inbox!Inbox \/ triage[k] \in Inbox!Muted \/ healed[f.rep] = r
    BY <2>4, <2>5 DEF Inbox!Inbox, Inbox!Superseded, Inbox!LatestRun
  <2> QED
    BY <2>2, <2>4, <2>6 DEF k
<1>2. Inbox!LoneAssertionNeverMasked
  <2> SUFFICES ASSUME NEW r \in DOMAIN runs, NEW f \in runs[r].findings,
                      Inbox!Superseded(f, r), Inbox!Cardinality(f.members) = 1,
                      NEW c \in f.members
               PROVE  runs[r].results[c] # "wrong"
    BY DEF Inbox!LoneAssertionNeverMasked
  <2>1. f.members = Inbox!Group(r, f.key) /\ f.rep \in f.members /\ f.members \subseteq Cases
    BY DEF InboxInv, InboxGrouped, Inbox!Group
  <2>2. IsFiniteSet(f.members)
    BY <2>1, InboxBoundsAssumption, FS_Subset
  <2>3. PICK d : f.members = {d}
    BY <2>2, InboxCardinality, FS_Singleton
  <2>4. c = f.rep
    BY <2>1, <2>3
  <2>5. healed[f.rep] = r /\ r # 0
    BY DEF Inbox!Superseded, InboxInv
  <2> QED
    BY <2>1, <2>4, <2>5 DEF InboxInv, InboxHealed
<1> QED
  BY <1>1, <1>2 DEF Inbox!InboxIsHonest

\* A status says what the findings of the runs before say.
LEMMA InboxHistory == InboxInv => Inbox!HistoryIsHonestInTurn
<1> SUFFICES ASSUME InboxInv PROVE Inbox!HistoryIsHonestInTurn
  OBVIOUS
<1>t. /\ DOMAIN runs = 1 .. Len(runs) /\ Len(runs) \in Nat
      /\ \A r \in DOMAIN runs : InboxSettled(runs[r]) /\ InboxGrouped(r)
      /\ InboxTurns
  BY DEF InboxInv
<1>1. Inbox!RegressionMeansClearedInTurn
  <2> SUFFICES ASSUME RunsAtOnce = 1, NEW r \in DOMAIN runs,
                      \A q \in Inbox!PriorRuns(r) : runs[q].report = "done",
                      NEW f \in runs[r].findings, f.status = "regression"
               PROVE  /\ Inbox!Group(r - 1, f.key) = {}
                      /\ \E q \in Inbox!PriorRuns(r) : Inbox!Group(q, f.key) # {}
    BY DEF Inbox!RegressionMeansClearedInTurn
  <2>1. r \in Nat /\ Inbox!Seen(f.key, r) /\ ~Inbox!Last(f.key, r)
    BY <1>t, InboxClasses DEF InboxTurns
  <2>2. PICK q \in Inbox!PriorRuns(r) : Inbox!Present(f.key, q)
    BY <2>1 DEF Inbox!Seen
  <2>3. q \in DOMAIN runs /\ r - 1 \in Inbox!PriorRuns(r) /\ r - 1 \in DOMAIN runs
    BY <1>t, <2>1, InboxPrior
  <2>4. PICK g \in runs[q].findings : g.key = f.key
    BY <2>2 DEF Inbox!Present
  <2>5. Inbox!Group(q, f.key) # {}
    BY <1>t, <2>3, <2>4 DEF InboxGrouped
  <2>6. ~Inbox!Present(f.key, r - 1)
    BY <2>1, <2>3 DEF Inbox!Last
  <2>7. ASSUME NEW c \in Inbox!Group(r - 1, f.key) PROVE FALSE
    <3>1. c \in Cases /\ runs[r - 1].results[c] \in Inbox!Failing
          /\ Inbox!RootCauseKey(c, runs[r - 1].results[c]) = f.key
      BY <2>7 DEF Inbox!Group
    <3>2. runs[r - 1].status = "failed" /\ runs[r - 1].report = "done"
      BY <1>t, <2>3, <3>1 DEF InboxSettled
    <3>3. f.key \in Inbox!Groups(r - 1)
      <4>1. f.key \in Inbox!Keys
        BY <3>1 DEF Inbox!RootCauseKey, Inbox!Keys
      <4> QED
        BY <2>7, <4>1 DEF Inbox!Groups
    <3>4. \E g2 \in runs[r - 1].findings : g2.key = f.key
      BY <1>t, <2>3, <3>2, <3>3 DEF InboxGrouped
    <3> QED
      BY <2>6, <3>4 DEF Inbox!Present
  <2> QED
    BY <2>5, <2>7
<1>2. Inbox!NewIsFirstInTurn
  <2> SUFFICES ASSUME RunsAtOnce = 1, NEW r \in DOMAIN runs, NEW f \in runs[r].findings
               PROVE  f.status = "new" <=> Inbox!OccurrenceCount(f, r) = 1
    BY DEF Inbox!NewIsFirstInTurn
  <2> DEFINE S == {q \in Inbox!PriorRuns(r) : Inbox!Present(f.key, q)}
  <2>1. r \in Nat /\ (f.status = "new" <=> ~Inbox!Seen(f.key, r))
    BY <1>t, InboxClasses DEF InboxTurns
  <2>2. IsFiniteSet(S) /\ Cardinality(S) \in Nat
    BY <2>1, InboxPrior
  <2>3. Inbox!OccurrenceCount(f, r) = 1 + Cardinality(S)
    BY InboxCardinality, Zenon DEF Inbox!OccurrenceCount
  <2>4. Inbox!Seen(f.key, r) <=> S # {}
    BY DEF Inbox!Seen
  <2>5. Cardinality(S) = 0 <=> S = {}
    BY <2>2, FS_EmptySet
  <2> HIDE DEF S
  <2> QED
    BY <2>1, <2>2, <2>3, <2>4, <2>5
<1> QED
  BY <1>1, <1>2 DEF Inbox!HistoryIsHonestInTurn

LEMMA InboxTyped == InboxInv => Inbox!InboxTypeOK
BY DEF InboxInv, InboxRow, Inbox!InboxTypeOK

\* Findings are of one focus.
LEMMA InboxSpec == Spec => []InboxInv
<1>1. Init => InboxInv
  BY InboxInit DEF Init
<1>2. InboxInv /\ [Next]_vars => InboxInv'
  <2>1. [Next]_vars => [Inbox!Next]_inboxVars
    BY DEF Next, vars
  <2> QED
    BY <2>1, InboxNext
<1> QED
  BY <1>1, <1>2, PTL DEF Spec

\* The inbox hides no failure of the latest run that nobody asked to hide, and no lone assertion
\* (reporting/open_findings.py, heal_reconciliation.py); and while runs take turns a status
\* says what the history says (history.py): a regression was absent from the run before
\* and present in one still earlier, and what is new has occurred once.
THEOREM InboxIsHonestHolds == Spec => []InboxIsHonest
<1>1. InboxInv => InboxIsHonest
  BY InboxHides, InboxHistory DEF InboxIsHonest
<1> QED
  BY <1>1, InboxSpec, PTL

-----------------------------------------------------------------------------
(* The documents                                                           *)

USE DEF docVars

Attached == MCContents \cup {Docs!NoRequest.content}
AllReferences == UNION {Docs!References(content) : content \in Attached}

DocTypes ==
  /\ brain \subseteq MCRoutes
  /\ DOMAIN documents \subseteq 1 .. MaxDocs
  /\ \A id \in DOMAIN documents : documents[id] \in MCContents
  /\ request \in [pc : {"idle", "stored", "reconciled"}, content : Attached,
                  found : SUBSET AllReferences]
  /\ grounded \in [fields : SUBSET MCFields, contents : SUBSET MCContents]
  /\ settled \in BOOLEAN

\* Of a document there is what it was cut into, and what it was compared with.
DocRows ==
  /\ \A chunk \in chunks :
       /\ chunk.doc \in DOMAIN documents /\ chunk.ordinal \in Nat
       /\ \A field \in MCFields :
            field \in Docs!ToSet(Docs!Words(chunk.text)) =>
              field \in Docs!ToSet(Docs!Words(documents[chunk.doc].text))
  /\ \A row \in divergences : row.doc \in DOMAIN documents

\* The request in flight has room for its document, and its ghost has seen what the Brain
\* lacks now.
DocRequest ==
  /\ request.pc # "idle" => request.content \in MCContents /\ DOMAIN documents # 1 .. MaxDocs
  /\ request.pc = "stored" => Docs!References(request.content) \ brain \subseteq absent
  /\ request.pc = "reconciled" =>
       /\ request.found \subseteq absent
       /\ settled /\ brain # {} => request.found = Docs!References(request.content) \ brain

DocInv == DocTypes /\ DocRows /\ DocRequest /\ Docs!GroundingIsHonest

-----------------------------------------------------------------------------
\* The id of the next document is one of the free ones.
LEMMA DocFreeId ==
  ASSUME DOMAIN documents \subseteq 1 .. MaxDocs, DOMAIN documents # 1 .. MaxDocs
  PROVE  Docs!FreeId \in 1 .. MaxDocs /\ Docs!FreeId \notin DOMAIN documents
<1> DEFINE free == 1 .. MaxDocs \ DOMAIN documents
<1>1. free \subseteq Nat /\ free # {}
  <2>1. MaxDocs \in Nat
    BY DocumentsAssumption, Zenon
  <2>2. 1 .. MaxDocs \subseteq Nat
    BY <2>1
  <2> QED
    BY <2>2
<1>2. \E x \in free : \A y \in free : x <= y
  BY <1>1, NatLeast
<1>3. Docs!FreeId = CHOOSE x \in free : \A y \in free : x <= y
  BY Zenon DEF Docs!FreeId, Docs!Min
<1>4. Docs!FreeId \in free
  BY <1>2, <1>3, Zenon
<1> QED
  BY <1>4

\* What a document is cut into names no field that the document does not.
LEMMA DocCut ==
  ASSUME NEW content \in MCContents, NEW i \in 1 .. Len(Docs!ChunkText(content.text)),
         NEW field \in MCFields,
         field \in Docs!ToSet(Docs!Words(Docs!ChunkText(content.text)[i]))
  PROVE  field \in Docs!ToSet(Docs!Words(content.text))
BY DocumentsAssumption, Zenon DEF Docs!ChunksKeepWords

LEMMA DocInit == Docs!Init => DocInv
<1> SUFFICES ASSUME Docs!Init PROVE DocInv
  OBVIOUS
<1>1. /\ brain = {} /\ documents = << >> /\ chunks = {} /\ divergences = {}
      /\ request = Docs!NoRequest /\ grounded = [fields |-> {}, contents |-> {}]
      /\ absent = {} /\ settled = TRUE
  BY DEF Docs!Init
<1>2. DOMAIN documents = {}
  BY <1>1
<1>3. request \in [pc : {"idle", "stored", "reconciled"}, content : Attached,
                   found : SUBSET AllReferences] /\ request.pc = "idle"
  BY <1>1 DEF Docs!NoRequest, Attached
<1>4. grounded \in [fields : SUBSET MCFields, contents : SUBSET MCContents]
      /\ grounded.fields = {}
  BY <1>1
<1>5. DocTypes
  BY <1>1, <1>2, <1>3, <1>4 DEF DocTypes
<1> QED
  BY <1>1, <1>2, <1>3, <1>4, <1>5 DEF DocInv, DocRows, DocRequest, Docs!GroundingIsHonest

LEMMA DocNext == DocInv /\ [Docs!Next]_docVars => DocInv'
<1> SUFFICES ASSUME DocInv, [Docs!Next]_docVars PROVE DocInv'
  OBVIOUS
<1>t. DocTypes /\ DocRows /\ DocRequest /\ Docs!GroundingIsHonest
  BY DEF DocInv
<1>r. /\ request.pc \in {"idle", "stored", "reconciled"} /\ request.content \in Attached
      /\ request.found \subseteq AllReferences
  BY <1>t DEF DocTypes
<1>f. \A content \in Attached : Docs!References(content) \subseteq AllReferences
  BY DEF AllReferences
<1>1. CASE Docs!Attach
  <2>1. PICK content \in MCContents :
          /\ request' = [pc |-> "stored", content |-> content, found |-> {}]
          /\ absent' = Docs!References(content) \ brain
    BY <1>1, Zenon DEF Docs!Attach
  <2>2. /\ request.pc = "idle" /\ DOMAIN documents # 1 .. MaxDocs /\ settled' = TRUE
        /\ UNCHANGED <<brain, documents, chunks, divergences, grounded>>
    BY <1>1 DEF Docs!Attach
  <2>3. /\ request'.pc = "stored" /\ request'.content = content
        /\ request' \in [pc : {"idle", "stored", "reconciled"}, content : Attached,
                         found : SUBSET AllReferences]
    BY <2>1 DEF Attached
  <2>4. DocTypes'
    BY <1>t, <2>2, <2>3 DEF DocTypes
  <2>5. DocRequest'
    BY <2>1, <2>2, <2>3 DEF DocRequest, Docs!References
  <2> QED
    BY <1>t, <2>2, <2>4, <2>5 DEF DocInv, DocRows, Docs!GroundingIsHonest
<1>2. CASE Docs!RollBack
  <2>1. /\ request' = Docs!NoRequest
        /\ UNCHANGED <<brain, documents, chunks, divergences, grounded, absent, settled>>
    BY <1>2 DEF Docs!RollBack
  <2>2. /\ request'.pc = "idle"
        /\ request' \in [pc : {"idle", "stored", "reconciled"}, content : Attached,
                         found : SUBSET AllReferences]
    BY <2>1 DEF Attached, Docs!NoRequest
  <2>3. DocTypes' /\ DocRequest'
    BY <1>t, <2>1, <2>2 DEF DocTypes, DocRequest
  <2> QED
    BY <1>t, <2>1, <2>3 DEF DocInv, DocRows, Docs!GroundingIsHonest
<1>3. CASE Docs!Reconcile
  <2> DEFINE missing == Docs!Missing(request.content, brain)
  <2>1. /\ request.pc = "stored"
        /\ request' = [request EXCEPT !.pc = "reconciled", !.found = missing]
        /\ UNCHANGED <<brain, documents, chunks, divergences, grounded, absent, settled>>
    BY <1>3 DEF Docs!Reconcile
  <2>2. /\ missing \subseteq Docs!References(request.content) \ brain
        /\ brain # {} => missing = Docs!References(request.content) \ brain
    BY DEF Docs!Missing
  <2>3. missing \subseteq AllReferences
    BY <1>r, <1>f, <2>2
  <2> HIDE DEF missing
  <2>4. /\ request'.pc = "reconciled" /\ request'.content = request.content
        /\ request'.found = missing
        /\ request' \in [pc : {"idle", "stored", "reconciled"}, content : Attached,
                         found : SUBSET AllReferences]
    BY <1>t, <2>1, <2>3 DEF DocTypes
  <2>5. DocTypes'
    BY <1>t, <2>1, <2>4 DEF DocTypes
  <2>6. Docs!References(request.content) \ brain \subseteq absent
    BY <1>t, <2>1 DEF DocRequest
  <2>7. Docs!References(request'.content) = Docs!References(request.content)
    BY <2>4
  <2>8. DocRequest'
    BY <1>t, <2>1, <2>2, <2>4, <2>6, <2>7 DEF DocRequest
  <2> QED
    BY <1>t, <2>1, <2>5, <2>8 DEF DocInv, DocRows, Docs!GroundingIsHonest
<1>4. CASE Docs!Commit
  <2> DEFINE id == Docs!FreeId
             cut == Docs!ChunkText(request.content.text)
             grown == DOMAIN documents \cup {id}
  <2>1. /\ chunks' = chunks \cup
             {[doc |-> id, ordinal |-> i, text |-> cut[i]] : i \in 1 .. Len(cut)}
        /\ documents' = [d \in grown |-> IF d = id THEN request.content ELSE documents[d]]
        /\ divergences' = divergences \cup {[doc |-> id, ref |-> ref] : ref \in request.found}
        /\ request.pc = "reconciled" /\ request' = Docs!NoRequest
        /\ UNCHANGED <<brain, grounded, absent, settled>>
    BY <1>4, Zenon DEF Docs!Commit
  <2>2. id \in 1 .. MaxDocs /\ id \notin DOMAIN documents /\ request.content \in MCContents
    BY <1>t, <2>1, DocFreeId DEF DocTypes, DocRequest
  <2>3. /\ request'.pc = "idle"
        /\ request' \in [pc : {"idle", "stored", "reconciled"}, content : Attached,
                         found : SUBSET AllReferences]
    BY <2>1 DEF Attached, Docs!NoRequest
  <2>4. ASSUME NEW i \in 1 .. Len(cut), NEW field \in MCFields,
               field \in Docs!ToSet(Docs!Words(cut[i]))
        PROVE  field \in Docs!ToSet(Docs!Words(request.content.text))
    BY <2>2, <2>4, DocCut
  <2> HIDE DEF id, cut
  <2>5. /\ DOMAIN documents' = grown /\ documents'[id] = request.content
        /\ \A d \in DOMAIN documents : documents'[d] = documents[d]
    BY <2>1, <2>2
  <2>6. DocTypes'
    BY <1>t, <2>1, <2>2, <2>3, <2>5 DEF DocTypes
  <2>7. ASSUME NEW chunk \in chunks'
        PROVE  /\ chunk.doc \in DOMAIN documents' /\ chunk.ordinal \in Nat
               /\ \A field \in MCFields :
                    field \in Docs!ToSet(Docs!Words(chunk.text)) =>
                      field \in Docs!ToSet(Docs!Words(documents'[chunk.doc].text))
    <3>1. CASE chunk \in chunks
      BY <1>t, <2>5, <3>1 DEF DocRows
    <3>2. CASE chunk \notin chunks
      <4>1. PICK i \in 1 .. Len(cut) : chunk = [doc |-> id, ordinal |-> i, text |-> cut[i]]
        BY <2>1, <3>2
      <4>2. chunk.doc = id /\ chunk.ordinal \in Nat /\ chunk.text = cut[i]
        BY <4>1
      <4> QED
        BY <2>4, <2>5, <4>2
    <3> QED
      BY <3>1, <3>2
  <2>8. \A row \in divergences' : row.doc \in DOMAIN documents'
    BY <1>t, <2>1, <2>5 DEF DocRows
  <2>9. DocRows'
    BY <2>7, <2>8 DEF DocRows
  <2>10. DocRequest'
    BY <2>3 DEF DocRequest
  <2> QED
    BY <1>t, <2>1, <2>6, <2>9, <2>10 DEF DocInv, Docs!GroundingIsHonest
<1>5. ASSUME NEW id \in 1 .. MaxDocs, Docs!Detach(id) PROVE DocInv'
  <2>1. /\ documents' = [other \in DOMAIN documents \ {id} |-> documents[other]]
        /\ chunks' = {chunk \in chunks : chunk.doc # id}
        /\ divergences' = {row \in divergences : row.doc # id}
        /\ id \in DOMAIN documents
        /\ UNCHANGED <<brain, request, grounded, absent, settled>>
    BY <1>5 DEF Docs!Detach
  <2>2. /\ DOMAIN documents' = DOMAIN documents \ {id}
        /\ \A d \in DOMAIN documents' : documents'[d] = documents[d]
    BY <2>1
  <2>3. DocTypes'
    BY <1>t, <2>1, <2>2 DEF DocTypes
  <2>4. DocRows'
    BY <1>t, <2>1, <2>2 DEF DocRows
  <2>5. DocRequest'
    <3>1. DOMAIN documents' # 1 .. MaxDocs
      BY <2>2
    <3> QED
      BY <1>t, <2>1, <3>1 DEF DocRequest
  <2> QED
    BY <1>t, <2>1, <2>3, <2>4, <2>5 DEF DocInv, Docs!GroundingIsHonest
<1>6. CASE Docs!Ingest
  <2>1. /\ brain' \subseteq MCRoutes /\ settled' = FALSE
        /\ absent' = absent \cup (Docs!References(request.content) \ brain')
        /\ UNCHANGED <<documents, chunks, divergences, request, grounded>>
    BY <1>6 DEF Docs!Ingest
  <2>2. Docs!References(request'.content) = Docs!References(request.content)
    BY <2>1
  <2>3. DocTypes'
    BY <1>t, <2>1 DEF DocTypes
  <2>4. DocRequest'
    BY <1>t, <2>1, <2>2 DEF DocRequest
  <2> QED
    BY <1>t, <2>1, <2>3, <2>4 DEF DocInv, DocRows, Docs!GroundingIsHonest
<1>7. CASE Docs!Ground
  <2> DEFINE texts == {documents[id] : id \in DOMAIN documents}
  <2>1. PICK corpus \in Docs!Nearest :
          grounded' = [fields |-> {field \in MCFields : Docs!Mentions(corpus, field)},
                       contents |-> texts]
    BY <1>7, Zenon DEF Docs!Ground
  <2>2. UNCHANGED <<brain, documents, chunks, divergences, request, absent, settled>>
    BY <1>7 DEF Docs!Ground
  <2>3. corpus \subseteq chunks
    BY DEF Docs!Nearest, Docs!kSubset
  <2>4. texts \subseteq MCContents
    BY <1>t DEF DocTypes
  <2> DEFINE named == {field \in MCFields : Docs!Mentions(corpus, field)}
  <2>5. ASSUME NEW field \in named
        PROVE  \E content \in texts : field \in Docs!ToSet(Docs!Words(content.text))
    <3>1. PICK chunk \in corpus : field \in Docs!ToSet(Docs!Words(chunk.text))
      BY <2>5 DEF Docs!Mentions
    <3>2. /\ chunk.doc \in DOMAIN documents
          /\ field \in Docs!ToSet(Docs!Words(documents[chunk.doc].text))
      BY <1>t, <2>3, <2>5, <3>1 DEF DocRows
    <3> QED
      BY <3>2
  <2>6. named \subseteq MCFields
    OBVIOUS
  <2> HIDE DEF texts, named
  <2>7. /\ grounded'.fields = named /\ grounded'.contents = texts
        /\ grounded' \in [fields : SUBSET MCFields, contents : SUBSET MCContents]
    BY <2>1, <2>4, <2>6 DEF named
  <2>8. Docs!GroundingIsHonest'
    BY <2>5, <2>7 DEF Docs!GroundingIsHonest
  <2>9. DocTypes'
    BY <1>t, <2>2, <2>7 DEF DocTypes
  <2> QED
    BY <1>t, <2>2, <2>8, <2>9 DEF DocInv, DocRows, DocRequest, Docs!References
<1>8. CASE UNCHANGED docVars
  BY <1>t, <1>8 DEF DocInv, DocTypes, DocRows, DocRequest, Docs!GroundingIsHonest
<1> QED
  BY <1>1, <1>2, <1>3, <1>4, <1>5, <1>6, <1>7, <1>8 DEF Docs!Next

LEMMA DocTyped == DocInv => Docs!TypeOK
BY DEF DocInv, DocTypes, DocRows, Docs!TypeOK

LEMMA DocFollows == DocInv => Docs!DivergencesAreTrue
BY DEF DocInv, DocRows, DocRequest, Docs!DivergencesAreTrue

\* Documents are of one focus.
LEMMA DocSpec == Spec => []DocInv
<1>1. Init => DocInv
  BY DocInit DEF Init
<1>2. DocInv /\ [Next]_vars => DocInv'
  <2>1. [Next]_vars => [Docs!Next]_docVars
    BY DEF Next, vars
  <2> QED
    BY <2>1, DocNext
<1> QED
  BY <1>1, <1>2, PTL DEF Spec

\* The part of DocumentsAreFaithful that is about the behaviour.  A divergence belongs to a
\* document that is attached, and what a request found missing was missing whatever
\* ingestion came in between (documents/reconcile.py); and a case is grounded only in the
\* words of documents there were (documents/grounding.py).
THEOREM DocumentsFollow ==
  Spec => [](focus = "documents" => Docs!DivergencesAreTrue /\ Docs!GroundingIsHonest)
<1>1. DocInv => (focus = "documents" => Docs!DivergencesAreTrue /\ Docs!GroundingIsHonest)
  BY DocFollows, Zenon DEF DocInv
<1> QED
  BY <1>1, DocSpec, PTL

-----------------------------------------------------------------------------
(* The types                                                               *)


\* Every component has its types, in every focus.
THEOREM TypesOKHolds == Spec => []TypesOK
<1>1. ExecInv /\ DbInv /\ InboxInv /\ LoginInv /\ DocInv /\ Tenant!TypeOK /\ Rate!TypeOK => TypesOK
  <2> SUFFICES ASSUME ExecInv, DbInv, InboxInv, LoginInv, DocInv, Tenant!TypeOK, Rate!TypeOK
               PROVE  TypesOK
    OBVIOUS
  <2>1. Exec!ExecTypeOK /\ DbState!DbTypeOK /\ Inbox!InboxTypeOK
    BY ExecTyped, InboxTyped DEF DbInv
  <2>2. Login!TypeOK /\ Docs!TypeOK
    BY LoginFields, DocTyped DEF LoginInv
  <2> QED
    BY <2>1, <2>2, Zenon DEF TypesOK
<1> QED
  BY <1>1, ExecSpec, DbSpec, InboxSpec, LoginSpec, DocSpec, LimitsTypesHold, PTL
=============================================================================
