--------------------------- MODULE AccountApiProofs ---------------------------
(***************************************************************************)
(* Theorems about AccountApi: what registration promises survives logins   *)
(* and queries on the same rows, and a client is shown its own account,    *)
(* for any number of clients and every combination of faults.              *)
(***************************************************************************)
EXTENDS AccountApi, RegisterProofs

USE DEF Requests

(***************************************************************************)
(* The inductive invariant: that of Register, and the token of a client    *)
(* carries the e-mail of its row.                                          *)
(***************************************************************************)
TokenInv ==
    \A r \in Requests : token[r] # NoToken =>
        /\ r \in Registered
        /\ token[r] = users[r].email
        /\ info[r] \in {"none", r}

ApiInv == IInv /\ ApiTypeOK /\ TokenInv

(***************************************************************************)
(* What a login does to the invariant of the registrations.                *)
(***************************************************************************)
\* Whoever writes the next version of a row, the registrations notice.
LEMMA RowMovesOn ==
    ASSUME IInv, NEW r \in Requests, NEW f \in Nat, RowRewritten(r, f),
           users' \in [UserIds -> Row \cup {NoRow}],
           UNCHANGED <<audit, command, pc, tracked, response>>
    PROVE  IInv'
<1> USE DEF IInv
<1>w. \A u \in Registered : u \in Requests
  BY Values
<1>1. TypeOK'
  BY DEF TypeOK, AccountsTypeOK
<1>2. RowsInv'
  BY <1>w DEF RowsInv, RowRewritten, OnlyRow
<1>3. TrackerInv'
  BY <1>w, Values DEF TrackerInv, RowsInv, RowRewritten, OnlyRow
<1>4. AnswersInv'
  BY DEF AnswersInv, RowRewritten
<1>5. \A u \in Registered : users'[u].email = users[u].email
  BY <1>w DEF RowRewritten, OnlyRow
<1>6. UniqueUserName'
  BY <1>5 DEF UniqueUserName, RowRewritten
<1>7. LogImpliesRow'
  BY DEF LogImpliesRow, RowRewritten
<1>8. QED BY <1>1, <1>2, <1>3, <1>4, <1>6, <1>7

LEMMA EntryAdded ==
    ASSUME audit \subseteq LogEntry, NEW r \in Requests,
           LogUserEvent("UserLoggedIn", r) \/ UNCHANGED audit
    PROVE  audit \subseteq audit' /\ audit' \subseteq LogEntry
<1>1. [event |-> "UserLoggedIn", user |-> r] \in LogEntry
  BY DEF LogEntry, UserEventType
<1>2. QED BY <1>1 DEF LogUserEvent

LEMMA LogMovesOn ==
    ASSUME IInv, NEW r \in Registered, LogUserEvent("UserLoggedIn", r) \/ UNCHANGED audit,
           UNCHANGED <<users, command, pc, tracked, response>>
    PROVE  IInv'
<1> USE DEF IInv
<1>1. Registered' = Registered /\ r \in Requests
  BY Values DEF Registered
<1>2. audit \subseteq audit' /\ audit' \subseteq LogEntry
  BY <1>1, EntryAdded DEF TypeOK, AccountsTypeOK
<1>3. TypeOK'
  BY <1>2 DEF TypeOK, AccountsTypeOK
<1>4. RowsInv' /\ TrackerInv' /\ UniqueUserName'
  BY <1>1 DEF RowsInv, TrackerInv, UniqueUserName
<1>5. AnswersInv'
  BY <1>1, <1>2 DEF AnswersInv
<1>6. LogImpliesRow'
  BY <1>1 DEF LogImpliesRow, LogUserEvent
<1>7. QED BY <1>3, <1>4, <1>5, <1>6

LEMMA ResetEffect ==
    ASSUME IInv, NEW r \in Requests, SignInResets(r)
    PROVE  /\ RowRewritten(r, 0)
           /\ users' \in [UserIds -> Row \cup {NoRow}]
           /\ UNCHANGED <<audit, command, pc, tracked, response, token, info>>
<1>1. AccountsTypeOK /\ users[r].stamp \in Nat /\ UpdateRow(r, users[r].stamp, 0)
  BY Values DEF SignInResets, IInv
<1>2. QED BY <1>1, Updated, RowTypes DEF SignInResets, requestVars

LEMMA SessionKeepsInv ==
    ASSUME IInv, ApiTypeOK, NEW r \in Requests, Session(r)
    PROVE  IInv'
<1>1. CASE SignInResets(r)
  BY <1>1, ResetEffect, RowMovesOn
<1>2. CASE LogUserLoggedIn(r) \/ LogUserLoggedInFails(r)
  BY <1>2, LogMovesOn DEF LogUserLoggedIn, LogUserLoggedInFails, Admit, requestVars, ApiTypeOK
<1>3. CASE SignIn(r) \/ GetUserInfo(r) \/ TokenExpires(r)
  <2>1. UNCHANGED vars
    BY <1>3 DEF SignIn, GetUserInfo, TokenExpires
  <2>2. QED
    BY <2>1, TypeStep, RowsStep, TrackerStep, AnswersStep, LogStep, UniqueStep DEF IInv
<1>4. QED BY <1>1, <1>2, <1>3 DEF Session

\* The query finds the client's own row: rows of one e-mail have one name.
LEMMA ByEmailIsOwn ==
    ASSUME IInv, NEW r \in Registered
    PROVE  UserDetails(users[r].email) = {r}
<1>1. ByEmail(users[r].email) = {r}
  BY DEF ByEmail, IInv, UniqueUserName
<1>2. QED BY <1>1 DEF UserDetails

(***************************************************************************)
(* The sessions.                                                           *)
(***************************************************************************)
LEMMA SessionsStep ==
    ASSUME ApiInv, [ApiNext]_apiVars
    PROVE  ApiTypeOK' /\ TokenInv'
<1>w. \A u \in Registered : u \in Requests /\ users[u].email \in Emails
  BY Values DEF ApiInv, IInv
<1>k. ASSUME \A u \in Registered : u \in Registered' /\ users'[u].email = users[u].email,
             UNCHANGED <<token, info>>,
             signingIn' = signingIn \/ \E r \in Registered : signingIn' = signingIn \cup {r}
      PROVE  ApiTypeOK' /\ TokenInv'
  BY <1>k DEF ApiInv, ApiTypeOK, TokenInv
<1>1. CASE Next /\ UNCHANGED sessionVars
  <2>1. \A u \in Registered : u \in Registered' /\ users'[u].email = users[u].email
    BY <1>1, RowsStay DEF ApiInv, IInv
  <2>2. QED BY <1>1, <1>k, <2>1 DEF sessionVars
<1>2. ASSUME NEW r \in Requests, SignInResets(r) PROVE ApiTypeOK' /\ TokenInv'
  <2>1. RowRewritten(r, 0) /\ UNCHANGED <<token, info>>
    BY <1>2, ResetEffect DEF ApiInv
  <2>2. \A u \in Registered : u \in Registered' /\ users'[u].email = users[u].email
    BY <1>w, <2>1 DEF RowRewritten, OnlyRow
  <2>3. QED BY <1>2, <1>k, <2>1, <2>2 DEF SignInResets
<1>3. ASSUME UNCHANGED vars PROVE Registered' = Registered /\ users' = users
  BY <1>3 DEF vars, Registered
<1>4. ASSUME NEW r \in Requests, SignIn(r) PROVE ApiTypeOK' /\ TokenInv'
  BY <1>3, <1>4, <1>k DEF SignIn
<1>5. ASSUME NEW r \in Requests, LogUserLoggedIn(r) PROVE ApiTypeOK' /\ TokenInv'
  <2>1. r \in Registered /\ users' = users /\ Registered' = Registered
    BY <1>5 DEF LogUserLoggedIn, Admit, ApiInv, ApiTypeOK, Registered
  <2>2. /\ token' = [token EXCEPT ![r] = users[r].email]
        /\ info' = [info EXCEPT ![r] = "none"] /\ signingIn' = signingIn \ {r}
    BY <1>5 DEF LogUserLoggedIn, Admit
  <2>3. QED BY <1>w, <2>1, <2>2 DEF ApiInv, ApiTypeOK, TokenInv
<1>6. ASSUME NEW r \in Requests, LogUserLoggedInFails(r) PROVE ApiTypeOK' /\ TokenInv'
  <2>1. users' = users /\ Registered' = Registered
    BY <1>6 DEF LogUserLoggedInFails, Registered
  <2>2. QED BY <1>6, <2>1 DEF LogUserLoggedInFails, ApiInv, ApiTypeOK, TokenInv
<1>7. ASSUME NEW r \in Requests, GetUserInfo(r) PROVE ApiTypeOK' /\ TokenInv'
  <2>1. r \in Registered /\ token[r] = users[r].email
    BY <1>7 DEF GetUserInfo, ApiInv, TokenInv
  <2>2. info' = [info EXCEPT ![r] = r]
    BY <1>7, <2>1, ByEmailIsOwn DEF GetUserInfo, ApiInv
  <2>3. users' = users /\ Registered' = Registered /\ UNCHANGED <<signingIn, token>>
    BY <1>3, <1>7 DEF GetUserInfo
  <2>4. QED BY <2>2, <2>3 DEF ApiInv, ApiTypeOK, TokenInv
<1>8. ASSUME NEW r \in Requests, TokenExpires(r) PROVE ApiTypeOK' /\ TokenInv'
  <2>1. users' = users /\ Registered' = Registered
    BY <1>3, <1>8 DEF TokenExpires
  <2>2. QED BY <1>8, <2>1 DEF TokenExpires, ApiInv, ApiTypeOK, TokenInv
<1>9. CASE UNCHANGED apiVars
  BY <1>3, <1>9, <1>k DEF apiVars, sessionVars
<1>10. QED
  BY <1>1, <1>2, <1>4, <1>5, <1>6, <1>7, <1>8, <1>9 DEF ApiNext, Session

(***************************************************************************)
(* The theorems.                                                           *)
(***************************************************************************)

\* The invariant of the registrations and that of the sessions hold together.
THEOREM ApiInductive == ApiSpec => []ApiInv
<1>1. ApiInit => ApiInv
  <2>1. Init => IInv
    <3> SUFFICES ASSUME Init PROVE IInv
      OBVIOUS
    <3>1. Registered = {} /\ audit = {} /\ TypeOK
      BY InitType DEF Init, AccountsInit, Registered
    <3>2. QED
      BY <3>1, RegisterAssumption
         DEF IInv, Init, NewUser, UniqueUserName, LogImpliesRow, RowsInv, TrackerInv, AnswersInv
  <2>2. QED BY <2>1 DEF ApiInit, ApiInv, ApiTypeOK, TokenInv
<1>2. ApiInv /\ [ApiNext]_apiVars => ApiInv'
  <2> SUFFICES ASSUME ApiInv, [ApiNext]_apiVars PROVE ApiInv'
    OBVIOUS
  <2>1. ASSUME [Next]_vars PROVE IInv'
    BY <2>1, TypeStep, RowsStep, TrackerStep, AnswersStep, LogStep, UniqueStep DEF ApiInv, IInv
  <2>2. IInv'
    BY <2>1, SessionKeepsInv DEF ApiNext, apiVars, ApiInv
  <2>3. QED BY <2>2, SessionsStep DEF ApiInv
<1>3. QED BY <1>1, <1>2, PTL DEF ApiSpec

\* Every variable of the sessions keeps its type, and whoever is signing in has
\* an account.
THEOREM ApiTypeCorrect == ApiSpec => []ApiTypeOK
<1>1. ApiInv => ApiTypeOK
  BY DEF ApiInv
<1>2. QED BY <1>1, ApiInductive, PTL

\* The holder of a token is never shown a rival's account, nor told 401.
THEOREM EverybodySeesItself == ApiSpec => []InfoIsOwn
<1>1. ApiInv => InfoIsOwn
  BY DEF ApiInv, TokenInv, InfoIsOwn
<1>2. QED BY <1>1, ApiInductive, PTL

\* Logins and queries on the same rows do not break what registration promises.
THEOREM ApiImplementsRegistry == ApiSpec => ImplementsRegistry
<1>1. ApiInit => Registry!RegistryInit
  BY DEF ApiInit, Init, AccountsInit, Registry!RegistryInit, WishOf, NameOf, Requests
<1>2. ApiInv /\ [ApiNext]_apiVars => [Registry!RegistryNext]_(Registry!registryVars)
  <2> SUFFICES ASSUME ApiInv, [ApiNext]_apiVars PROVE RegistryStep
    BY DEF RegistryStep
  <2>1. CASE [Next]_vars
    BY <2>1, StepMaps DEF ApiInv
  <2>2. ASSUME NEW r \in Requests, Session(r) PROVE RegistryStep
    <3>1. UNCHANGED <<command, response>>
      BY <2>2 DEF Session, SignIn, SignInResets, LogUserLoggedIn, Admit, LogUserLoggedInFails,
                  GetUserInfo, TokenExpires, vars, requestVars
    <3>2. OwnedNames' = OwnedNames
      <4>1. CASE SignInResets(r)
        BY <4>1, ResetEffect, KeptByUpdate DEF ApiInv, IInv
      <4>2. CASE UNCHANGED users
        BY <4>2 DEF OwnedNames
      <4>3. QED
        BY <2>2, <4>1, <4>2 DEF Session, SignIn, LogUserLoggedIn, Admit, LogUserLoggedInFails,
                                GetUserInfo, TokenExpires, vars
    <3>3. QED BY <3>1, <3>2, MapsToStutter DEF RegistryStep
  <2>3. QED BY <2>1, <2>2 DEF ApiNext, apiVars
<1>3. QED
  BY <1>1, <1>2, ApiInductive, PTL DEF ApiSpec, ImplementsRegistry, Registry!RegistrySpec

\* Logins are among the causes of 500 already; they add none.
THEOREM ApiServerErrorsHaveCauses ==
    ASSUME ~ LoggerMayFail, ~ DatabaseMayFail
    PROVE  ApiSpec => []ServerErrorHasACause
<1>1. ApiInit => CauseInv
  BY DEF ApiInit, Init, CauseInv
<1>2. ApiInv /\ CauseInv /\ [ApiNext]_apiVars => CauseInv'
  <2> SUFFICES ASSUME ApiInv, CauseInv, [ApiNext]_apiVars PROVE CauseInv'
    OBVIOUS
  <2>1. CASE [Next]_vars
    BY <2>1, CauseStep DEF ApiInv
  <2>2. ASSUME NEW q \in Requests, Session(q) PROVE CauseInv'
    <3>1. UNCHANGED <<command, tracked, response>>
      BY <2>2 DEF Session, SignIn, SignInResets, LogUserLoggedIn, Admit, LogUserLoggedInFails,
                  GetUserInfo, TokenExpires, vars, requestVars
    <3>2. UNCHANGED users \/ \E u \in Requests, failed \in Nat : RowRewritten(u, failed)
      <4>1. CASE SignInResets(q)
        BY <4>1, ResetEffect DEF ApiInv
      <4>2. CASE UNCHANGED users
        BY <4>2
      <4>3. QED
        BY <2>2, <4>1, <4>2 DEF Session, SignIn, LogUserLoggedIn, Admit, LogUserLoggedInFails,
                                GetUserInfo, TokenExpires, vars
    <3>3. QED BY <3>1, <3>2, CauseStays DEF CauseInv, ApiInv, IInv
  <2>3. QED BY <2>1, <2>2 DEF ApiNext, apiVars
<1>3. ApiInv /\ CauseInv => ServerErrorHasACause
  BY CauseSuffices DEF ApiInv, IInv
<1>4. QED BY <1>1, <1>2, <1>3, ApiInductive, PTL DEF ApiSpec
=============================================================================
