----------------------------- MODULE TargetLogin -----------------------------
(***************************************************************************)
(* How a run comes to crawl behind a target's login: the vault of the      *)
(* project's credentials, sealed under the deployment's key, the login     *)
(* configuration, the run that reads both, the strategy that drives a      *)
(* browser or reuses its session, and the target that accepts or refuses.  *)
(***************************************************************************)
EXTENDS Naturals

CONSTANTS
  Accounts,    \* the target's accounts
  Challenged,  \* those it asks for a one-time code (external)
  Passwords,   \* what an account's password may be (external)
  Keys,        \* values of target_credentials_key
  SessionTtl,  \* session_ttl_s
  MaxEdits,    \* bound: changes to the vault, the configuration, the key and the password
  MaxLogins    \* bound: logins asked of one strategy (a run's crawl asks for one)

VARIABLES
  key,       \* target_credentials_key, or NoKey
  vault,     \* the project's row of target_credentials, or NoRow
  config,    \* settings["auth_config"]: how it is set up
  password,  \* the accounts' password at the target (external)
  run,       \* the run: what it read, and what its crawl replays
  cache,     \* the strategy's session, or NoSession
  written,   \* outcomes the run's rows of auth_challenge_log hold
  now,
  edits,
  moved      \* ghost: the vault or the configuration has changed since the run began

vars == <<key, vault, config, password, run, cache, written, now, edits, moved>>

NoKey == 0
NoSecret == [key |-> NoKey, value |-> "nothing"]
NoRow == [mode |-> "none", account |-> "nobody", secret |-> NoSecret, totp |-> NoSecret]
NoSession == [who |-> "none", made |-> 0]
Idle == [pc |-> "idle", mode |-> "none", account |-> "nobody", secret |-> "nothing",
         seed |-> "nothing", checked |-> FALSE, session |-> NoSession, logins |-> 0]

\* A TOTP seed is known by its account; one that is present and empty seals "blank".
Seeds == Accounts \cup {"blank"}

TypeOK ==
  /\ key \in Keys \cup {NoKey} /\ password \in Passwords /\ moved \in BOOLEAN
  /\ vault.mode \in {"none", "polaris_creates", "specific_account"}
  /\ vault.account \in Accounts \cup {"nobody"}
  /\ vault.secret.value \in Passwords \cup {"nothing"}
  /\ vault.totp.value \in Seeds \cup {"nothing"}
  /\ config \in {"absent", "blank", "unchecked", "checked"}
  /\ run.pc \in {"idle", "named", "ready", "crawl", "skipped", "failed"}
  /\ run.account \in Accounts \cup {"nobody"} /\ run.session.who \in Accounts \cup {"anonymous", "none"}
  /\ cache.who \in Accounts \cup {"anonymous", "none"}
  /\ written \subseteq {"success", "failure"}
  /\ now \in Nat /\ edits \in 0 .. MaxEdits /\ run.logins \in 0 .. MaxLogins

Init ==
  /\ key \in Keys /\ vault = NoRow /\ password \in Passwords
  /\ config \in {"absent", "blank", "unchecked", "checked"}
  /\ run = Idle /\ cache = NoSession /\ written = {} /\ now = 0 /\ edits = 0 /\ moved = FALSE

(***************************************************************************)
(* The manager: the routes of the credentials and of the login config      *)
(***************************************************************************)
Sealed(value) == [key |-> key, value |-> value]  \* encrypt_secret
Opens(sealed) == key # NoKey /\ sealed.key = key   \* decrypt_secret does not raise

EditVault(row) ==
  /\ edits < MaxEdits /\ edits' = edits + 1 /\ moved' = TRUE
  /\ vault' = row
  /\ UNCHANGED <<key, config, password, run, cache, written, now>>

\* PUT with specific_account: 503 without a key; a seed left out keeps the one there is.
SetAccount(account, secret, seed) ==
  /\ key # NoKey
  /\ EditVault([mode |-> "specific_account", account |-> account, secret |-> Sealed(secret),
                totp |-> IF seed = "omitted" THEN vault.totp ELSE Sealed(seed)])


\* PUT with polaris_creates, and DELETE.
LetPolarisProvision == EditVault([NoRow EXCEPT !.mode = "polaris_creates"])
ClearCredentials == vault.mode # "none" /\ EditVault(NoRow)

\* PUT: a URL of spaces is stored blank; with a success selector the login is checked.
EditConfig(setting) ==
  /\ edits < MaxEdits /\ edits' = edits + 1 /\ moved' = TRUE
  /\ config' = setting
  /\ UNCHANGED <<key, vault, password, run, cache, written, now>>
SetAuthConfig == \E setting \in {"blank", "unchecked", "checked"} : EditConfig(setting)
ClearAuthConfig == config # "absent" /\ EditConfig("absent")

(***************************************************************************)
(* The run: _run_mode_b reads the vault twice, before it builds its crawl  *)
(***************************************************************************)
\* A secret that does not open read as no secret.
ResolveLoginMutant ==
  IF /\ vault.mode = "specific_account" /\ vault.account # "nobody"
     /\ Opens(vault.secret) /\ (vault.totp = NoSecret \/ Opens(vault.totp))
  THEN "login" ELSE "none"
\* resolve_target_login: "none", "raises" or "login".
ResolveLogin ==
  IF vault.mode # "specific_account" \/ vault.account = "nobody" \/ vault.secret = NoSecret
  THEN "none"
  ELSE IF Opens(vault.secret) /\ (vault.totp = NoSecret \/ Opens(vault.totp))
       THEN "login" ELSE "raises"

IsConfigured == config \in {"unchecked", "checked"}

Begin ==
  /\ run.pc = "idle" /\ moved' = FALSE
  /\ run' = IF ResolveLogin = "raises" THEN [Idle EXCEPT !.pc = "failed"]
            ELSE [Idle EXCEPT !.pc = "named",
                              !.mode = IF ResolveLogin = "login" THEN "specific_account"
                                       ELSE "polaris_creates"]
  /\ cache' = NoSession /\ written' = {} /\ now' = 0
  /\ UNCHANGED <<key, vault, config, password, edits>>

\* resolve_target_auth_config, and the crawler built from it.
BuildCrawler ==
  /\ run.pc = "named"
  /\ run' = CASE ResolveLogin = "raises" -> [run EXCEPT !.pc = "failed"]
              [] ResolveLogin = "login" /\ IsConfigured ->
                   [run EXCEPT !.pc = "ready", !.account = vault.account,
                               !.secret = vault.secret.value, !.seed = vault.totp.value,
                               !.checked = config = "checked"]
              [] OTHER -> [run EXCEPT !.pc = "ready"]
  /\ UNCHANGED <<key, vault, config, password, cache, written, now, edits, moved>>

(***************************************************************************)
(* The strategy, and the browser it drives                                 *)
(***************************************************************************)
UsesTotp == run.seed \notin {"nothing", "blank"}
IsExpired(session) == now >= session.made + SessionTtl

\* auth_login.mjs reports what the success selector finds, or success without one.
Reported(who) ==
  [answered |-> TRUE, success |-> run.checked => who = run.account, who |-> who]
Failed == [answered |-> TRUE, success |-> FALSE, who |-> "anonymous"]
Died == [answered |-> FALSE, success |-> FALSE, who |-> "anonymous"]

\* run_login: the driver dies, a page of it fails, or the form is submitted.  A code is asked
\* for behind the right password: the seed's, which may lapse on the way, or, in a run that
\* nobody attends, none: the provider raises.
RunLogin ==
  {Died, Failed} \cup
  IF run.secret # password THEN {Reported("anonymous")}
  ELSE IF run.account \notin Challenged THEN {Reported(run.account)}
  ELSE IF ~UsesTotp THEN {Died}
  ELSE {Reported("anonymous")} \cup
       (IF run.seed = run.account THEN {Reported(run.account)} ELSE {})

Asked(session, pc) ==
  run' = [run EXCEPT !.pc = pc, !.session = session, !.logins = @ + 1]

NoAuth == run.account = "nobody" /\ Asked(NoSession, "crawl") /\ UNCHANGED <<cache, written>>

Reuse ==
  /\ cache # NoSession /\ ~IsExpired(cache)
  /\ Asked(cache, "crawl") /\ UNCHANGED <<cache, written>>

\* The attempt is written down before a failure is raised; an exception of the browser's
\* passes before it is.
Attempt ==
  /\ cache = NoSession \/ IsExpired(cache)
  /\ \E outcome \in RunLogin :
       LET session == [who |-> outcome.who, made |-> now]
       IN IF outcome.success
          THEN /\ written' = written \cup {"success"}
               /\ cache' = session /\ Asked(session, "crawl")
          ELSE /\ written' = IF outcome.answered THEN written \cup {"failure"} ELSE written
               /\ Asked(NoSession, "skipped") /\ UNCHANGED cache


\* crawl: one login, and every page with its session.
LogIn ==
  /\ run.pc \in {"ready", "crawl"} /\ run.logins < MaxLogins
  /\ NoAuth \/ (run.account # "nobody" /\ (Reuse \/ Attempt))
  /\ UNCHANGED <<key, vault, config, password, now, edits, moved>>

Finish ==
  /\ run.pc \in {"crawl", "skipped", "failed"} /\ run' = Idle
  /\ UNCHANGED <<key, vault, config, password, cache, written, now, edits, moved>>

(***************************************************************************)
(* The clock, the target and the deployment                                *)
(***************************************************************************)
Tick ==
  /\ run.pc = "crawl" /\ run.logins < MaxLogins /\ now <= SessionTtl /\ now' = now + 1
  /\ UNCHANGED <<key, vault, config, password, run, cache, written, edits, moved>>

TargetChangesPassword ==
  /\ edits < MaxEdits /\ edits' = edits + 1
  /\ password' \in Passwords \ {password}
  /\ UNCHANGED <<key, vault, config, run, cache, written, now, moved>>

\* The key is read once by a process: another one comes with a restart.
Redeploy ==
  /\ edits < MaxEdits /\ edits' = edits + 1
  /\ key' \in (Keys \cup {NoKey}) \ {key} /\ run' = Idle /\ cache' = NoSession
  /\ UNCHANGED <<vault, config, password, written, now, moved>>

Next ==
  \/ \E account \in Accounts, secret \in Passwords, seed \in Seeds \cup {"omitted"} :
       SetAccount(account, secret, seed)
  \/ LetPolarisProvision \/ ClearCredentials \/ SetAuthConfig \/ ClearAuthConfig
  \/ Begin \/ BuildCrawler \/ LogIn \/ Finish
  \/ Tick \/ TargetChangesPassword \/ Redeploy

Spec == Init /\ [][Next]_vars

(***************************************************************************)
(* Properties                                                              *)
(***************************************************************************)
\* Where a success selector is configured, the pages are crawled as the account, whatever the
\* vault, the target and the clock did since the run read its configuration.
CheckedSessionIsReal ==
  run.pc = "crawl" /\ run.checked => run.session.who = run.account

\* A project that is set up for a login is crawled with one, or its crawl is skipped or its
\* run fails: a secret that no longer opens is never taken for no secret.
NeverQuietlyAnonymous ==
  run.pc = "crawl" /\ ~moved /\ vault.mode = "specific_account" /\ IsConfigured =>
    run.account = vault.account /\ run.mode = "specific_account"

\* A session that is replayed was made less than its time to live before the login that
\* hands it out, and its login is in the log.
ReplayedIsFreshAndLogged ==
  [][run.logins' > run.logins /\ run'.pc = "crawl" /\ run.account # "nobody" =>
       now < run'.session.made + SessionTtl /\ "success" \in written']_vars

\* A change of password, or of account, never turns unattended two-factor logins off.
SeedSurvives ==
  [][vault.totp # NoSecret /\ vault'.totp = NoSecret => vault'.mode # "specific_account"]_vars

\* What a crawl behind the login may be relied on for.
LoginIsHonest ==
  [](CheckedSessionIsReal /\ NeverQuietlyAnonymous) /\ ReplayedIsFreshAndLogged /\ SeedSurvives
=============================================================================
