--------------------------- MODULE Bootstrap_proofs ---------------------------
(***************************************************************************)
(* Proofs about the start of the server, for every set of names and every  *)
(* number of kills, tokens and changes of accounts.                        *)
(***************************************************************************)
EXTENDS Bootstrap, TLAPS

USE DEF diskVars, bootVars, Keep

---------------------------------------------------------------------------
(* The invariant.                                                          *)

HasSecret == {"secret", "absent", "none", "created", "ready", "serving"}

\* main signs with the secret on disk once it has one; it draws one only where there
\* is none.
SecretIsStored ==
    /\ proc.at \in {"asked", "drawn"} => secretRow = None
    /\ proc.at = "drawn" => proc.secret \in Token
    /\ proc.at \in HasSecret => secretRow # None /\ proc.secret = secretRow

\* The account that has been made is an administrator's, and there is one when the
\* server begins to serve.
AdminIsThere ==
    /\ proc.at = "created" => AdminName \in AdminNames
    /\ proc.at = "ready" => AdminNames # {}

GeneratedIsToken == proc.at = "created" /\ proc.generated => proc.password \in Token

BootInv == BootTypeOK /\ SecretIsStored /\ GeneratedIsToken /\ AdminIsThere

---------------------------------------------------------------------------
(* Types.                                                                  *)

Proc == [at : Steps, fresh : BOOLEAN, secret : Token \cup {None},
         password : Password \cup {None}, generated : BOOLEAN]

\* What moving on leaves of main's variables.
LEMMA ProcGoes ==
    ASSUME NEW p \in Proc, NEW at \in Steps
    PROVE  /\ [p EXCEPT !.at = at] \in Proc
           /\ [p EXCEPT !.at = at].at = at
           /\ [p EXCEPT !.at = at].secret = p.secret
           /\ [p EXCEPT !.at = at].password = p.password
           /\ [p EXCEPT !.at = at].generated = p.generated
BY DEF Proc

LEMMA ProcInspects ==
    ASSUME NEW p \in Proc, NEW fresh \in BOOLEAN
    PROVE  /\ [p EXCEPT !.at = "inspected", !.fresh = fresh] \in Proc
           /\ [p EXCEPT !.at = "inspected", !.fresh = fresh].at = "inspected"
BY DEF Proc, Steps

LEMMA ProcTakesSecret ==
    ASSUME NEW p \in Proc, NEW at \in Steps, NEW secret \in Token
    PROVE  /\ [p EXCEPT !.at = at, !.secret = secret] \in Proc
           /\ [p EXCEPT !.at = at, !.secret = secret].at = at
           /\ [p EXCEPT !.at = at, !.secret = secret].secret = secret
BY DEF Proc

LEMMA OffIsProc ==
    /\ Off \in Proc /\ Off.at = "off"
    /\ [Off EXCEPT !.at = "failed"] \in Proc /\ [Off EXCEPT !.at = "failed"].at = "failed"
BY DEF Off, Proc, Steps

LEMMA TokensArePasswords ==
    /\ Token \subseteq Password /\ Token \subseteq Nat
    /\ Configured \in Password /\ Chosen \in Password
    /\ \A n \in 0..MaxToken : n < MaxToken => n + 1 \in Token /\ n + 1 \in 0..MaxToken
BY BoundsAreNumbers DEF Token, Password, Configured, Chosen

LEMMA AccountGoes ==
    ASSUME NEW x \in Account
    PROVE  /\ [x EXCEPT !.role = "admin"] \in Account /\ [x EXCEPT !.role = "admin"].role = "admin"
           /\ [x EXCEPT !.password = Chosen] \in Account
BY TokensArePasswords DEF Account

\* The parts of the type, with main's variables named.
Typed ==
    /\ config \in {None, "blank", "given"}
    /\ database \in {"none", "made", "ready"}
    /\ secretRow \in Token \cup {None}
    /\ accounts \in [Names -> Account \cup {None}]
    /\ proc \in Proc
    /\ tokens \in 0..MaxToken /\ changes \in 0..MaxChange
    /\ printed \subseteq Token
    /\ born \in {"outside", "here"}

LEMMA TypedIsType == Typed <=> BootTypeOK
BY DEF Typed, BootTypeOK, Proc

LEMMA BootInitTyped == BootInit => Typed
<1> SUFFICES ASSUME BootInit PROVE Typed
  OBVIOUS
<1>1. accounts \in [Names -> Account \cup {None}]
  <2>1. [role : {"admin", "user"}, password : {Chosen}] \subseteq Account
    BY TokensArePasswords DEF Account
  <2> QED BY <2>1 DEF BootInit
<1>2. 0 \in 0..MaxToken /\ 0 \in 0..MaxChange
  BY BoundsAreNumbers
<1> QED BY <1>1, <1>2, OffIsProc DEF BootInit, Typed

\* What each step does to main's variables.
Begun == Ensure \/ isFreshDB \/ Open \/ Migrate
Secretly == GetSetting \/ DrawSecret \/ UpsertSetting
Administers == FindAdmin \/ CountAdmins \/ CreateConfigured \/ CreateGenerated \/ LogPassword \/ Serve
Stops == Fails \/ Killed
Serves == \E n \in Names : \/ DeleteUser(n) \/ ChangePassword(n)
                           \/ \E role \in {"admin", "user"} : CreateUser(n, role)

LEMMA BootSteps ==
    [BootNext]_bootVars <=> \/ Begun \/ Secretly \/ Administers \/ Stops \/ Serves
                            \/ UNCHANGED bootVars
BY DEF BootNext, Begun, Secretly, Administers, Stops, Serves

LEMMA BegunTyped == Typed /\ Begun => Typed'
<1> SUFFICES ASSUME Typed, Begun PROVE Typed'
  OBVIOUS
<1> USE DEF Typed
<1>1. CASE Ensure
  <2>1. proc' \in Proc
    BY <1>1, ProcGoes DEF Ensure, Goes, Steps
  <2> QED BY <1>1, <2>1 DEF Ensure
<1>2. CASE isFreshDB
  BY <1>2, ProcInspects DEF isFreshDB
<1>3. CASE Open
  <2>1. proc' \in Proc
    BY <1>3, ProcGoes DEF Open, Goes, Steps
  <2> QED BY <1>3, <2>1 DEF Open
<1>4. CASE Migrate
  <2>1. proc' \in Proc
    BY <1>4, ProcGoes DEF Migrate, Goes, Steps
  <2> QED BY <1>4, <2>1 DEF Migrate
<1> QED BY <1>1, <1>2, <1>3, <1>4 DEF Begun

LEMMA BegunAt ==
    ASSUME Typed, Begun
    PROVE  proc'.at \in {"configured", "inspected", "opened", "migrated"}
<1>0. proc \in Proc
  BY DEF Typed
<1>1. CASE isFreshDB
  BY <1>0, <1>1 DEF isFreshDB, Proc
<1>2. CASE Ensure \/ Open \/ Migrate
  BY <1>0, <1>2 DEF Ensure, Open, Migrate, Goes, Proc
<1> QED BY <1>1, <1>2 DEF Begun

LEMMA SecretlyTyped == Typed /\ SecretIsStored /\ Secretly => Typed'
<1> SUFFICES ASSUME Typed, SecretIsStored, Secretly PROVE Typed'
  OBVIOUS
<1> USE DEF Typed
<1>1. CASE GetSetting
  <2>1. CASE secretRow = None
    BY <1>1, <2>1, ProcGoes DEF GetSetting, Steps
  <2>2. CASE secretRow # None
    BY <1>1, <2>2, ProcTakesSecret DEF GetSetting, Steps
  <2> QED BY <2>1, <2>2
<1>2. CASE DrawSecret
  <2>1. tokens + 1 \in Token /\ tokens + 1 \in 0..MaxToken
    BY <1>2, TokensArePasswords DEF DrawSecret
  <2>2. proc' = [proc EXCEPT !.at = "drawn", !.secret = tokens + 1] /\ tokens' = tokens + 1
    BY <1>2 DEF DrawSecret
  <2>3. proc' \in Proc
    <3>1. "drawn" \in Steps
      BY DEF Steps
    <3>2. [proc EXCEPT !.at = "drawn", !.secret = tokens + 1] \in Proc
      BY <2>1, <3>1, ProcTakesSecret
    <3> QED BY <2>2, <3>2
  <2> QED BY <1>2, <2>1, <2>2, <2>3 DEF DrawSecret
<1>3. CASE UpsertSetting
  <2>1. proc' \in Proc
    BY <1>3, ProcGoes DEF UpsertSetting, Goes, Steps
  <2>2. secretRow' \in Token
    BY <1>3 DEF UpsertSetting, Goes, SecretIsStored
  <2> QED BY <1>3, <2>1, <2>2 DEF UpsertSetting
<1> QED BY <1>1, <1>2, <1>3 DEF Secretly

\* The account that is made, and what is left of the one there is.
LEMMA MadeTyped ==
    ASSUME Typed, NEW password \in Password, NEW generated \in BOOLEAN,
           CreateAdmin(password, generated)
    PROVE  /\ accounts' \in [Names -> Account \cup {None}] /\ proc' \in Proc
           /\ accounts'[AdminName] = [role |-> "admin", password |-> password]
           /\ accounts'[AdminName] \in Account
           /\ proc'.at = "created" /\ proc'.secret = proc.secret
           /\ proc'.password = password /\ proc'.generated = generated
<1>1. [role |-> "admin", password |-> password] \in Account
  BY DEF Account
<1>2. /\ accounts' \in [Names -> Account \cup {None}]
      /\ accounts'[AdminName] = [role |-> "admin", password |-> password]
  BY <1>1, AdminHasName DEF CreateAdmin, Typed
<1>3. /\ proc' \in Proc /\ proc'.at = "created" /\ proc'.secret = proc.secret
      /\ proc'.password = password /\ proc'.generated = generated
  <2>1. proc' = [proc EXCEPT !.at = "created", !.password = password, !.generated = generated]
    BY DEF CreateAdmin
  <2>2. proc \in Proc
    BY DEF Typed
  <2> QED BY <2>1, <2>2 DEF Proc, Steps
<1> QED BY <1>1, <1>2, <1>3

LEMMA FoundTyped ==
    ASSUME Typed, FindAdmin
    PROVE  /\ accounts' \in [Names -> Account \cup {None}] /\ proc' \in Proc
           /\ accounts[AdminName] # None
              => /\ accounts'[AdminName] \in Account
                 /\ accounts'[AdminName].role = "admin"
<1>1. proc' \in Proc
  BY ProcGoes DEF FindAdmin, Goes, Steps, Typed
<1>2. CASE accounts[AdminName] = None
  BY <1>1, <1>2 DEF FindAdmin, Typed
<1>3. CASE accounts[AdminName] # None
  <2>1. accounts[AdminName] \in Account
    BY <1>3, AdminHasName DEF Typed
  <2>2. accounts' = [accounts EXCEPT ![AdminName] = [accounts[AdminName] EXCEPT !.role = "admin"]]
    BY <1>3 DEF FindAdmin
  <2> QED BY <1>1, <2>1, <2>2, AccountGoes, AdminHasName DEF Typed
<1> QED BY <1>2, <1>3

LEMMA AdministersTyped == Typed /\ GeneratedIsToken /\ Administers => Typed'
<1> SUFFICES ASSUME Typed, GeneratedIsToken, Administers PROVE Typed'
  OBVIOUS
<1>1. CASE FindAdmin
  BY <1>1, FoundTyped DEF FindAdmin, Typed
<1>2. CASE CountAdmins
  <2>1. proc' \in Proc
    BY <1>2, ProcGoes DEF CountAdmins, Goes, Steps, Typed
  <2> QED BY <1>2, <2>1 DEF CountAdmins, Typed
<1>3. CASE CreateConfigured
  <2>1. accounts' \in [Names -> Account \cup {None}] /\ proc' \in Proc
    BY <1>3, MadeTyped, TokensArePasswords DEF CreateConfigured
  <2> QED BY <1>3, <2>1 DEF CreateConfigured, CreateAdmin, Typed
<1>4. CASE CreateGenerated
  <2>1. tokens + 1 \in Password /\ tokens + 1 \in 0..MaxToken
    BY <1>4, TokensArePasswords DEF CreateGenerated, Typed
  <2>2. CreateAdmin(tokens + 1, TRUE) /\ tokens' = tokens + 1
    BY <1>4 DEF CreateGenerated
  <2>3. accounts' \in [Names -> Account \cup {None}] /\ proc' \in Proc
    BY <2>1, <2>2, MadeTyped
  <2> QED BY <1>4, <2>1, <2>2, <2>3 DEF CreateAdmin, Typed
<1>5. CASE LogPassword
  <2>1. proc' \in Proc
    BY <1>5, ProcGoes DEF LogPassword, Goes, Steps, Typed
  <2>2. printed' \subseteq Token
    BY <1>5 DEF LogPassword, Goes, GeneratedIsToken, Typed
  <2> QED BY <1>5, <2>1, <2>2 DEF LogPassword, Typed
<1>6. CASE Serve
  <2>1. proc' \in Proc
    BY <1>6, ProcGoes DEF Serve, Goes, Steps, Typed
  <2> QED BY <1>6, <2>1 DEF Serve, Typed
<1> QED BY <1>1, <1>2, <1>3, <1>4, <1>5, <1>6 DEF Administers

LEMMA ServesTyped == Typed /\ Serves => Typed'
<1> SUFFICES ASSUME Typed, NEW n \in Names,
                    \/ DeleteUser(n) \/ ChangePassword(n)
                    \/ \E role \in {"admin", "user"} : CreateUser(n, role)
             PROVE  Typed'
  BY DEF Serves
<1>1. Serving /\ changes' \in 0..MaxChange
  BY BoundsAreNumbers DEF DeleteUser, ChangePassword, CreateUser, Serving, Typed
<1>2. CASE DeleteUser(n)
  BY <1>1, <1>2 DEF DeleteUser, Serving, Typed
<1>3. CASE ChangePassword(n)
  <2>1. accounts[n] \in Account
    BY <1>3 DEF ChangePassword, Typed
  <2>2. accounts' = [accounts EXCEPT ![n] = [accounts[n] EXCEPT !.password = Chosen]]
    BY <1>3 DEF ChangePassword
  <2>3. accounts' \in [Names -> Account \cup {None}]
    BY <2>1, <2>2, AccountGoes DEF Typed
  <2> QED BY <1>1, <2>3 DEF Serving, Typed
<1>4. ASSUME NEW role \in {"admin", "user"}, CreateUser(n, role)
      PROVE  Typed'
  <2>1. [role |-> role, password |-> Chosen] \in Account
    BY TokensArePasswords DEF Account
  <2> QED BY <1>1, <1>4, <2>1 DEF CreateUser, Serving, Typed
<1> QED BY <1>2, <1>3, <1>4

LEMMA BootStepTyped ==
    Typed /\ SecretIsStored /\ GeneratedIsToken /\ [BootNext]_bootVars => Typed'
<1> SUFFICES ASSUME Typed, SecretIsStored, GeneratedIsToken, [BootNext]_bootVars PROVE Typed'
  OBVIOUS
<1>1. CASE Stops
  BY <1>1, OffIsProc DEF Stops, Fails, Killed, Typed
<1>2. CASE UNCHANGED bootVars
  BY <1>2 DEF Typed
<1> QED BY <1>1, <1>2, BootSteps, BegunTyped, SecretlyTyped, AdministersTyped, ServesTyped

---------------------------------------------------------------------------
(* The secret.                                                             *)

LEMMA SecretStep ==
    Typed /\ SecretIsStored /\ [BootNext]_bootVars
    => SecretIsStored' /\ (secretRow # None => secretRow' = secretRow)
<1> SUFFICES ASSUME Typed, SecretIsStored, [BootNext]_bootVars
             PROVE  SecretIsStored' /\ (secretRow # None => secretRow' = secretRow)
  OBVIOUS
<1>0. proc \in Proc /\ Token \subseteq Nat /\ None \notin Token
  BY TokensArePasswords, NoneIsNoValue DEF Typed
<1>1. CASE Begun
  <2>1. proc'.at \in {"configured", "inspected", "opened", "migrated"}
    BY <1>1, BegunAt
  <2>2. secretRow' = secretRow
    BY <1>1 DEF Begun, Ensure, isFreshDB, Open, Migrate
  <2> QED BY <2>1, <2>2 DEF SecretIsStored, HasSecret
<1>2. CASE GetSetting
  <2>1. CASE secretRow = None
    <3>1. proc'.at = "asked" /\ secretRow' = secretRow
      BY <1>0, <1>2, <2>1, ProcGoes DEF GetSetting, Steps
    <3> QED BY <2>1, <3>1 DEF SecretIsStored, HasSecret
  <2>2. CASE secretRow # None
    <3>1. proc'.at = "secret" /\ proc'.secret = secretRow /\ secretRow' = secretRow
      <4>1. proc' = [proc EXCEPT !.at = "secret", !.secret = secretRow] /\ secretRow' = secretRow
        BY <1>2, <2>2 DEF GetSetting
      <4> QED BY <1>0, <4>1 DEF Proc
    <3> QED BY <2>2, <3>1 DEF SecretIsStored, HasSecret
  <2> QED BY <2>1, <2>2
<1>3. CASE DrawSecret
  <2>1. tokens + 1 \in Token
    BY <1>3, TokensArePasswords DEF DrawSecret, Typed
  <2>2. proc' = [proc EXCEPT !.at = "drawn", !.secret = tokens + 1] /\ secretRow' = secretRow
    BY <1>3 DEF DrawSecret
  <2>3. proc'.at = "drawn" /\ proc'.secret \in Token
    BY <1>0, <2>1, <2>2 DEF Proc
  <2>4. secretRow = None
    BY <1>3 DEF DrawSecret, SecretIsStored
  <2> QED BY <2>2, <2>3, <2>4 DEF SecretIsStored, HasSecret
<1>4. CASE UpsertSetting
  <2>1. secretRow = None /\ proc.secret \in Token /\ secretRow' = proc.secret
    BY <1>4 DEF UpsertSetting, Goes, SecretIsStored
  <2>2. proc'.at = "secret" /\ proc'.secret = proc.secret
    BY <1>0, <1>4, ProcGoes DEF UpsertSetting, Goes, Steps
  <2> QED BY <1>0, <2>1, <2>2 DEF SecretIsStored, HasSecret
<1>5. CASE Administers
  <2>1. secretRow' = secretRow /\ proc.at \in HasSecret
    BY <1>5 DEF Administers, FindAdmin, CountAdmins, CreateConfigured, CreateGenerated,
                CreateAdmin, LogPassword, Serve, Goes, HasSecret
  <2>2. proc'.secret = proc.secret /\ proc'.at \in HasSecret
    <3>1. CASE FindAdmin \/ CountAdmins \/ LogPassword \/ Serve
      <4>1. \E at \in {"absent", "none", "ready", "serving"} : proc' = [proc EXCEPT !.at = at]
        BY <3>1 DEF FindAdmin, CountAdmins, LogPassword, Serve, Goes
      <4> QED BY <1>0, <4>1 DEF Proc, HasSecret
    <3>2. CASE CreateConfigured
      BY <3>2, MadeTyped, TokensArePasswords DEF CreateConfigured, HasSecret
    <3>3. CASE CreateGenerated
      <4>1. CreateAdmin(tokens + 1, TRUE) /\ tokens + 1 \in Password
        BY <3>3, TokensArePasswords DEF CreateGenerated, Typed
      <4> QED BY <4>1, MadeTyped DEF HasSecret
    <3> QED BY <1>5, <3>1, <3>2, <3>3 DEF Administers
  <2> QED BY <2>1, <2>2 DEF SecretIsStored, HasSecret
<1>6. CASE Stops
  <2>1. proc'.at \in {"off", "failed"} /\ secretRow' = secretRow
    BY <1>6, OffIsProc DEF Stops, Fails, Killed
  <2> QED BY <2>1 DEF SecretIsStored, HasSecret
<1>7. CASE Serves \/ UNCHANGED bootVars
  <2>1. UNCHANGED <<proc, secretRow>>
    BY <1>7 DEF Serves, DeleteUser, ChangePassword, CreateUser, Serving
  <2> QED BY <2>1 DEF SecretIsStored
<1> QED BY <1>1, <1>2, <1>3, <1>4, <1>5, <1>6, <1>7, BootSteps DEF Secretly

---------------------------------------------------------------------------
(* The administrator.                                                      *)

LEMMA AdminStep ==
    Typed /\ GeneratedIsToken /\ AdminIsThere /\ [BootNext]_bootVars
    => GeneratedIsToken' /\ AdminIsThere'
<1> SUFFICES ASSUME Typed, GeneratedIsToken, AdminIsThere, [BootNext]_bootVars
             PROVE  GeneratedIsToken' /\ AdminIsThere'
  OBVIOUS
<1>0. proc \in Proc
  BY DEF Typed
<1> USE DEF GeneratedIsToken, AdminIsThere
<1>1. CASE Begun
  <2>1. proc'.at \in {"configured", "inspected", "opened", "migrated"}
    BY <1>1, BegunAt
  <2> QED BY <2>1
<1>2. CASE Secretly
  <2>1. proc'.at \in {"asked", "drawn", "secret"}
    BY <1>0, <1>2 DEF Secretly, GetSetting, DrawSecret, UpsertSetting, Goes, Proc
  <2> QED BY <2>1
<1>3. CASE FindAdmin
  <2>1. CASE accounts[AdminName] = None
    <3>1. proc'.at = "absent"
      BY <1>0, <1>3, <2>1, ProcGoes DEF FindAdmin, Goes, Steps
    <3> QED BY <3>1
  <2>2. CASE accounts[AdminName] # None
    <3>1. proc'.at = "ready"
      BY <1>0, <1>3, <2>2, ProcGoes DEF FindAdmin, Goes, Steps
    <3>2. AdminName \in AdminNames'
      BY <1>3, <2>2, FoundTyped, AdminHasName, NoneIsNoValue DEF AdminNames
    <3> QED BY <3>1, <3>2
  <2> QED BY <2>1, <2>2
<1>4. CASE CountAdmins
  <2>1. AdminNames' = AdminNames
    BY <1>4 DEF CountAdmins, AdminNames
  <2>2. proc'.at = IF AdminNames = {} THEN "none" ELSE "ready"
    BY <1>0, <1>4, ProcGoes DEF CountAdmins, Goes, Steps
  <2> QED BY <2>1, <2>2
<1>5. CASE CreateConfigured \/ CreateGenerated
  <2>1. PICK password \in Password, generated \in BOOLEAN :
             CreateAdmin(password, generated) /\ (generated => password \in Token)
    <3>1. CASE CreateConfigured
      BY <3>1, TokensArePasswords DEF CreateConfigured
    <3>2. CASE CreateGenerated
      <4>1. /\ CreateAdmin(tokens + 1, TRUE)
            /\ tokens + 1 \in Token /\ tokens + 1 \in Password
        BY <3>2, TokensArePasswords DEF CreateGenerated, Typed
      <4> QED BY <4>1
    <3> QED BY <1>5, <3>1, <3>2
  <2>2. /\ proc'.at = "created" /\ proc'.password = password /\ proc'.generated = generated
        /\ accounts'[AdminName] \in Account
        /\ accounts'[AdminName] = [role |-> "admin", password |-> password]
    BY <2>1, MadeTyped
  <2>3. AdminName \in AdminNames'
    BY <2>2, AdminHasName, NoneIsNoValue DEF AdminNames
  <2> QED BY <2>1, <2>2, <2>3
<1>6. CASE LogPassword
  <2>1. proc.at = "created" /\ AdminNames' = AdminNames /\ proc'.at = "ready"
    BY <1>0, <1>6, ProcGoes DEF LogPassword, Goes, Steps, AdminNames
  <2> QED BY <2>1
<1>7. CASE Serve
  <2>1. proc'.at = "serving"
    BY <1>0, <1>7, ProcGoes DEF Serve, Goes, Steps
  <2> QED BY <2>1
<1>8. CASE Stops
  <2>1. proc'.at \in {"off", "failed"}
    BY <1>8, OffIsProc DEF Stops, Fails, Killed
  <2> QED BY <2>1
<1>9. CASE Serves
  <2>1. proc'.at = "serving"
    BY <1>9 DEF Serves, DeleteUser, ChangePassword, CreateUser, Serving
  <2> QED BY <2>1
<1>10. CASE UNCHANGED bootVars
  BY <1>10 DEF AdminNames
<1> QED
  BY <1>1, <1>2, <1>3, <1>4, <1>5, <1>6, <1>7, <1>8, <1>9, <1>10, BootSteps DEF Administers

LEMMA BootInitInv == BootInit => BootInv
<1> SUFFICES ASSUME BootInit PROVE BootInv
  OBVIOUS
<1>1. BootTypeOK
  BY BootInitTyped, TypedIsType
<1>2. proc.at = "off"
  BY OffIsProc DEF BootInit
<1> QED BY <1>1, <1>2 DEF BootInv, SecretIsStored, GeneratedIsToken, AdminIsThere, HasSecret

LEMMA BootStepInv ==
    BootInv /\ [BootNext]_bootVars => BootInv' /\ (secretRow # None => secretRow' = secretRow)
<1> SUFFICES ASSUME BootInv, [BootNext]_bootVars
             PROVE  BootInv' /\ (secretRow # None => secretRow' = secretRow)
  OBVIOUS
<1>1. Typed /\ SecretIsStored /\ GeneratedIsToken /\ AdminIsThere
  BY TypedIsType DEF BootInv
<1>2. Typed'
  BY <1>1, BootStepTyped
<1>3. BootTypeOK'
  BY <1>2, TypedIsType, PTL
<1> QED BY <1>1, <1>3, SecretStep, AdminStep DEF BootInv

\* Wherever main is killed, what is on disk, what it has drawn and what it has
\* logged keep their types: BootTypeOK.
THEOREM BootTyped == BootSpec => []BootTypeOK
<1>1. BootInv => BootTypeOK
  BY DEF BootInv
<1> QED BY <1>1, BootInitInv, BootStepInv, PTL DEF BootSpec

\* A server that begins to serve has an administrator, however often it was killed
\* and whatever the accounts of the database were: AdminAtStart.
THEOREM AdminWhenReady == BootSpec => []AdminAtStart
<1>1. BootInv => AdminAtStart
  BY DEF BootInv, AdminIsThere, AdminAtStart
<1> QED BY <1>1, BootInitInv, BootStepInv, PTL DEF BootSpec

\* The server signs with the secret on disk, and that one is never replaced:
\* SignsWithStored.
THEOREM SecretOutlastsRestarts == BootSpec => SignsWithStored
<1>1. BootInv => (proc.at = "serving" => proc.secret = secretRow)
  BY DEF BootInv, SecretIsStored, HasSecret
<1>2. BootInv /\ [BootNext]_bootVars => [secretRow # None => secretRow' = secretRow]_bootVars
  BY BootStepInv
<1> QED BY <1>1, <1>2, BootInitInv, BootStepInv, PTL DEF BootSpec, SignsWithStored

=============================================================================
