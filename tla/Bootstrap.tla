----------------------------- MODULE Bootstrap -----------------------------
(***************************************************************************)
(* Starting the server: main of src/main.go, from config.Ensure to the     *)
(* first request, with the process being killed anywhere.  What is on disk *)
(* stays: the configuration, the database file, its tables, the session    *)
(* secret in app_settings and the accounts in users.                       *)
(*                                                                         *)
(* While it serves, administrators add and remove accounts and passwords   *)
(* are changed, and the operator may kill it.                              *)
(***************************************************************************)
EXTENDS Naturals

CONSTANTS Names,        \* user names, those of administrators and others
          AdminName,    \* bootstrap.admin_username
          MaxToken,     \* bound on the random tokens drawn
          MaxChange,    \* bound on the changes of accounts
          None

ASSUME AdminHasName == AdminName \in Names
ASSUME BoundsAreNumbers == MaxToken \in Nat /\ MaxChange \in Nat

VARIABLES
    config,    \* bootstrap.admin_password of the file, None without a file
    database,  \* the file: "none", "made", or "ready" with its tables
    secretRow, \* auth.session_secret
    accounts,  \* rows of users: role and password
    proc,      \* where main is, and freshDB, secret and adminPwd there
    tokens,    \* random tokens drawn
    printed,   \* passwords that were logged to the console
    changes,   \* of accounts, while serving
    born       \* how the database came about, and with which configuration

diskVars == <<config, database, secretRow, accounts>>
bootVars == <<diskVars, proc, tokens, printed, changes, born>>

\* A password is a token that was drawn, the one of the configuration, or one that
\* a person chose.
Token == 1..MaxToken
Configured == MaxToken + 1
Chosen == MaxToken + 2
Password == 1..Chosen
Account == [role : {"admin", "user"}, password : Password]

ASSUME NoneIsNoValue == None \notin Account /\ None \notin Nat

Steps == {"off", "configured", "inspected", "opened", "migrated", "asked", "drawn",
          "secret", "absent", "none", "created", "ready", "serving", "failed"}

BootTypeOK ==
    /\ config \in {None, "blank", "given"}
    /\ database \in {"none", "made", "ready"}
    /\ secretRow \in Token \cup {None}
    /\ accounts \in [Names -> Account \cup {None}]
    /\ proc \in [at : Steps, fresh : BOOLEAN, secret : Token \cup {None},
                 password : Password \cup {None}, generated : BOOLEAN]
    /\ tokens \in 0..MaxToken /\ changes \in 0..MaxChange
    /\ printed \subseteq Token
    /\ born \in {"outside", "here"}

Off == [at |-> "off", fresh |-> FALSE, secret |-> None, password |-> None, generated |-> FALSE]

\* Without anything, or with a configuration and perhaps a database that has been in
\* use under another server or an older version: any accounts.
BootInit ==
    /\ config \in {None, "blank", "given"}
    /\ \/ database = "none" /\ accounts = [n \in Names |-> None] /\ born = "here"
       \/ /\ database = "ready" /\ born = "outside"
          /\ accounts \in [Names -> {None} \cup [role : {"admin", "user"}, password : {Chosen}]]
    /\ secretRow = None
    /\ proc = Off /\ tokens = 0 /\ printed = {} /\ changes = 0

Goes(from, to) == proc.at = from /\ proc' = [proc EXCEPT !.at = to]

Keep == <<tokens, printed, changes, born>>

---------------------------------------------------------------------------
\* config.Ensure: without a file, the default one is written; its admin_password
\* is not empty.  A file cut short by a crash reads as the default as well.
Ensure ==
    /\ Goes("off", "configured")
    /\ config' = IF config = None THEN "given" ELSE config
    /\ UNCHANGED <<database, secretRow, accounts, Keep>>

isFreshDB ==
    /\ proc.at = "configured"
    /\ proc' = [proc EXCEPT !.at = "inspected", !.fresh = database = "none"]
    /\ UNCHANGED <<diskVars, Keep>>

\* store.Open: the first statement makes the file,
Open ==
    /\ Goes("inspected", "opened")
    /\ database' = IF database = "none" THEN "made" ELSE database
    /\ UNCHANGED <<config, secretRow, accounts, Keep>>

\* and migrate its tables, each if it does not exist.
Migrate ==
    /\ Goes("opened", "migrated")
    /\ database' = "ready"
    /\ UNCHANGED <<config, secretRow, accounts, Keep>>

\* Mutant: a secret is drawn at every start.
GetNoSetting == Goes("migrated", "asked") /\ UNCHANGED <<diskVars, Keep>>

\* ensureSessionSecret: GetSetting,
GetSetting ==
    /\ proc.at = "migrated"
    /\ proc' = IF secretRow = None THEN [proc EXCEPT !.at = "asked"]
               ELSE [proc EXCEPT !.at = "secret", !.secret = secretRow]
    /\ UNCHANGED <<diskVars, Keep>>

DrawSecret ==
    /\ proc.at = "asked" /\ tokens < MaxToken
    /\ tokens' = tokens + 1
    /\ proc' = [proc EXCEPT !.at = "drawn", !.secret = tokens']
    /\ UNCHANGED <<diskVars, printed, changes, born>>

UpsertSetting ==
    /\ Goes("drawn", "secret")
    /\ secretRow' = proc.secret
    /\ UNCHANGED <<config, database, accounts, Keep>>

---------------------------------------------------------------------------
(* bootstrapAdmin.                                                         *)

\* Mutant: an account of that name is good enough.
FindsAny ==
    /\ Goes("secret", IF accounts[AdminName] = None THEN "absent" ELSE "ready")
    /\ UNCHANGED <<diskVars, Keep>>

\* GetUserCredentialByUsername; SetUserRoleByUsername promotes the one there is.
FindAdmin ==
    /\ Goes("secret", IF accounts[AdminName] = None THEN "absent" ELSE "ready")
    /\ accounts' = IF accounts[AdminName] = None THEN accounts
                   ELSE [accounts EXCEPT ![AdminName].role = "admin"]
    /\ UNCHANGED <<config, database, secretRow, Keep>>

AdminNames == {n \in Names : accounts[n] # None /\ accounts[n].role = "admin"}

CountAdmins ==
    /\ Goes("absent", IF AdminNames = {} THEN "none" ELSE "ready")
    /\ UNCHANGED <<diskVars, Keep>>

CreateAdmin(password, generated) ==
    /\ accounts' = [accounts EXCEPT ![AdminName] = [role |-> "admin", password |-> password]]
    /\ proc' = [proc EXCEPT !.at = "created", !.password = password, !.generated = generated]
    /\ UNCHANGED <<config, database, secretRow, printed, changes, born>>

\* The configured password if there is one and the database is not fresh,
CreateConfigured ==
    /\ proc.at = "none"
    /\ ~proc.fresh /\ config # "blank"
    /\ CreateAdmin(Configured, FALSE)
    /\ UNCHANGED tokens

\* otherwise a token.
CreateGenerated ==
    /\ proc.at = "none"
    /\ proc.fresh \/ config = "blank"
    /\ tokens < MaxToken
    /\ tokens' = tokens + 1
    /\ CreateAdmin(tokens', TRUE)

\* Mutant: a configured password is logged as well.
LogAny ==
    /\ Goes("created", "ready")
    /\ printed' = printed \cup {proc.password}
    /\ UNCHANGED <<diskVars, tokens, changes, born>>

\* A generated one is logged.
LogPassword ==
    /\ Goes("created", "ready")
    /\ printed' = IF proc.generated THEN printed \cup {proc.password} ELSE printed
    /\ UNCHANGED <<diskVars, tokens, changes, born>>

\* The listeners start.
Serve == Goes("ready", "serving") /\ UNCHANGED <<diskVars, Keep>>

---------------------------------------------------------------------------
(* Afterwards.                                                             *)

\* A statement, reading the configuration or drawing a token fails: os.Exit.
Fails ==
    /\ proc.at \notin {"off", "ready", "serving", "failed"}
    /\ proc' = [Off EXCEPT !.at = "failed"]
    /\ UNCHANGED <<diskVars, Keep>>

Killed ==
    /\ proc.at # "off"
    /\ proc' = Off
    /\ UNCHANGED <<diskVars, Keep>>

Serving ==
    /\ proc.at = "serving" /\ changes < MaxChange
    /\ changes' = changes + 1
    /\ UNCHANGED <<config, database, secretRow, proc, tokens, printed, born>>

\* handleCreateUser by an administrator.
CreateUser(n, role) ==
    /\ Serving
    /\ AdminNames # {} /\ accounts[n] = None
    /\ accounts' = [accounts EXCEPT ![n] = [role |-> role, password |-> Chosen]]

\* handleDeleteUser: the last administrator is no exception.
DeleteUser(n) ==
    /\ Serving
    /\ AdminNames # {} /\ accounts[n] # None
    /\ accounts' = [accounts EXCEPT ![n] = None]

ChangePassword(n) ==
    /\ Serving
    /\ accounts[n] # None
    /\ accounts' = [accounts EXCEPT ![n].password = Chosen]

BootNext ==
    \/ Ensure \/ isFreshDB \/ Open \/ Migrate
    \/ GetSetting \/ DrawSecret \/ UpsertSetting
    \/ FindAdmin \/ CountAdmins \/ CreateConfigured \/ CreateGenerated \/ LogPassword \/ Serve
    \/ Fails \/ Killed
    \/ \E n \in Names : \/ DeleteUser(n) \/ ChangePassword(n)
                        \/ \E role \in {"admin", "user"} : CreateUser(n, role)

BootSpec == BootInit /\ [][BootNext]_bootVars

---------------------------------------------------------------------------
\* The access tokens a server signs are good after every restart: it signs with
\* the secret on disk, and that one is never replaced.
SignsWithStored ==
    /\ [](proc.at = "serving" => proc.secret = secretRow)
    /\ [][secretRow # None => secretRow' = secretRow]_bootVars

\* However often it was killed on the way, and whatever was done to the accounts
\* before, a server that begins to serve has an administrator.
AdminAtStart == proc.at = "ready" => AdminNames # {}

---------------------------------------------------------------------------
\* README.md: "The generated bootstrap admin password is printed to the server
\* console once at first initialization."
GeneratedIsPrinted ==
    proc.at = "serving" /\ accounts[AdminName] # None /\ accounts[AdminName].password \in Token
    => accounts[AdminName].password \in printed

\* README.md: "When the database file does not exist (first run), the server
\* auto-generates: bootstrap admin password".  The first account of such a
\* database never has the configured password.
FirstIsGenerated ==
    born = "here" /\ changes = 0 /\ accounts[AdminName] # None
    => accounts[AdminName].password \in Token
=============================================================================
