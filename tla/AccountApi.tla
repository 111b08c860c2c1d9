------------------------------ MODULE AccountApi ------------------------------
(***************************************************************************)
(* The life of an account over the shared table: the registrations of      *)
(* Register, POST /login with the registered password while they are still *)
(* running, and GET /api/info with the bearer token that came of it.       *)
(*                                                                         *)
(* The client that sent request r owns a password of its own, so it gets   *)
(* into the account r and no other.  Its sign-ins write the row that its   *)
(* registration may still be working on: a successful one resets           *)
(* AccessFailedCount.  Wrong passwords are FailedSignIn of Register; the   *)
(* lockout and the second factor are the subject of SignIn.  Requests that *)
(* change nothing (a refused login, 401 without a token) are left out.     *)
(***************************************************************************)
EXTENDS Register

CONSTANTS
    NoToken,
    MaxStamp  \* bound on the versions of a row that sign-ins go on resetting

ASSUME AccountApiAssumption ==
    /\ NoToken \notin Emails
    /\ MaxStamp \in Nat

VARIABLES
    signingIn,  \* the clients whose password was just accepted
    token,      \* the e-mail claim in the client's bearer token
    info        \* whose details GET /api/info told the holder of the token

sessionVars == <<signingIn, token, info>>
apiVars == <<vars, sessionVars>>

ApiTypeOK ==
    /\ signingIn \subseteq Registered
    /\ token \in [Requests -> Emails \cup {NoToken}]
    /\ info \in [Requests -> Requests \cup {"none", "Unauthorized"}]

ApiInit ==
    /\ Init
    /\ signingIn = {}
    /\ token = [r \in Requests |-> NoToken]
    /\ info = [r \in Requests |-> "none"]

-----------------------------------------------------------------------------
\* CheckPasswordSignInAsync of the base class, with nothing to reset ...
SignIn(r) ==
    /\ r \in Registered \ signingIn
    /\ users[r].failed = 0
    /\ signingIn' = signingIn \cup {r}
    /\ UNCHANGED <<vars, token, info>>

\* ... or with a count that ResetAccessFailedCountAsync writes to the row.
SignInResets(r) ==
    /\ r \in Registered \ signingIn
    /\ users[r].failed > 0
    /\ users[r].stamp < MaxStamp
    /\ UpdateRow(r, users[r].stamp, 0)
    /\ signingIn' = signingIn \cup {r}
    /\ UNCHANGED <<audit, requestVars, token, info>>

\* LoggingSignInManager writes the user log and the endpoint issues the token.
Admit(r, claim) ==
    /\ LogUserEvent("UserLoggedIn", r)
    /\ signingIn' = signingIn \ {r}
    /\ token' = [token EXCEPT ![r] = claim]
    /\ info' = [info EXCEPT ![r] = "none"]
    /\ UNCHANGED <<users, requestVars>>

\* Variant: the claim is the address as it was typed, in any spelling of the name.
LogUserLoggedInTyped(r) ==
    \E e \in Emails :
        /\ r \in signingIn
        /\ NormalizedName[e] = NormalizedName[users[r].email]
        /\ Admit(r, e)

\* The e-mail claim is that of the row, however the address was typed.
LogUserLoggedIn(r) ==
    r \in signingIn /\ Admit(r, users[r].email)

\* The user log failed, or the process stopped: no token, and maybe an entry.
LogUserLoggedInFails(r) ==
    /\ LoggerMayFail \/ MayCrash
    /\ r \in signingIn
    /\ LogUserEvent("UserLoggedIn", r) \/ UNCHANGED audit
    /\ signingIn' = signingIn \ {r}
    /\ UNCHANGED <<users, requestVars, token, info>>

\* UserRepository.GetByEmailAsync compares the column, not the normalized name.
ByEmail(e) == {u \in Registered : users[u].email = e}

\* GetUserDetailsQueryHandler: the first of them, or nobody.
UserDetails(e) == IF ByEmail(e) = {} THEN {"Unauthorized"} ELSE ByEmail(e)

\* AccountController.GetUserInfo, for the e-mail claim of the token.
GetUserInfo(r) ==
    /\ token[r] # NoToken
    /\ \E details \in UserDetails(token[r]) : info' = [info EXCEPT ![r] = details]
    /\ UNCHANGED <<vars, signingIn, token>>

TokenExpires(r) ==
    /\ token[r] # NoToken
    /\ token' = [token EXCEPT ![r] = NoToken]
    /\ info' = [info EXCEPT ![r] = "none"]
    /\ UNCHANGED <<vars, signingIn>>

Session(r) ==
    \/ SignIn(r) \/ SignInResets(r)
    \/ LogUserLoggedIn(r) \/ LogUserLoggedInFails(r)
    \/ GetUserInfo(r) \/ TokenExpires(r)

ApiNext ==
    \/ Next /\ UNCHANGED sessionVars
    \/ \E r \in Requests : Session(r)

ApiSpec == ApiInit /\ [][ApiNext]_apiVars

\* The server runs the registrations it received; clients need not come back.
ApiFairSpec ==
    ApiSpec /\ \A r \in Requests : WF_apiVars(Serve(r) /\ UNCHANGED sessionVars)
-----------------------------------------------------------------------------
\* Whoever holds a token is told the details of its own account, never a rival's
\* and never 401: however the address was spelled at the login, whatever the
\* registration still wrote to the row, and although the details are looked up by
\* an e-mail that only the user name's index keeps unique.
InfoIsOwn ==
    \A r \in Requests : token[r] # NoToken => info[r] \in {"none", r}
=============================================================================
