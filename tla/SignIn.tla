--------------------------------- MODULE SignIn ---------------------------------
(***************************************************************************)
(* POST /login and POST /resetPassword for one account, any number of them *)
(* concurrently.  The endpoints are Identity's (Program.cs maps them); the *)
(* repository puts LoggingSignInManager and LoggingUserManager under them, *)
(* which write the user log before the endpoint goes on.                   *)
(*                                                                         *)
(* Each request has a DbContext of its own and works on the copy of the    *)
(* row it read first.  UserStore.UpdateAsync writes every column of that   *)
(* copy, provided the ConcurrencyStamp did not change since the read.      *)
(***************************************************************************)
EXTENDS Naturals

CONSTANTS
    Attempts,         \* the requests
    Passwords,
    InitialPassword,
    MaxFailedAccess,  \* LockoutOptions.MaxFailedAccessAttempts
    MayFail,          \* database and user log may fail, the process may stop
    NoAsk

Codes == {"none", "right", "wrong"}
Tokens == 0..2  \* bound on the security stamps that reset tokens were issued for
Login == [kind : {"login"}, password : Passwords, code : Codes]
Reset == [kind : {"reset"}, password : Passwords, token : Tokens]

ASSUME SignInAssumption ==
    /\ InitialPassword \in Passwords
    /\ MaxFailedAccess \in Nat \ {0}
    /\ MayFail \in BOOLEAN
    /\ NoAsk \notin Login \cup Reset

VARIABLES
    account,    \* the row
    expired,    \* the last lockout that is over
    twoFactor,  \* TwoFactorEnabled
    userLog,    \* the entries of the user log, each with the request that made it
    asked,      \* the body of each request
    pc,         \* where its execution stands
    copy,       \* the row as its change tracker holds it
    answer,     \* what the client got
    changedBy   \* (history) the requests whose new password reached the database

vars == <<account, expired, twoFactor, userLog, asked, pc, copy, answer, changedBy>>
worldVars == <<expired, twoFactor, asked>>

Row ==
    [password : Passwords, security : Nat, failed : 0..(MaxFailedAccess - 1),
     lockout : Nat, stamp : Nat]
Events == {"UserLoggedIn", "UserPasswordReset"}
Stages ==
    {"idle", "find", "resetCount", "countFailure", "logLogin", "code", "resetCountAgain",
     "changePassword", "logReset", "done"}
Writes == {"resetCount", "countFailure", "resetCountAgain", "changePassword"}
Logs == {"logLogin", "logReset"}

TypeOK ==
    /\ account \in Row
    /\ expired \in Nat
    /\ twoFactor \in BOOLEAN
    /\ userLog \subseteq [event : Events, attempt : Attempts]
    /\ asked \in [Attempts -> Login \cup Reset \cup {NoAsk}]
    /\ pc \in [Attempts -> Stages]
    /\ copy \in [Attempts -> Row]
    /\ answer \in [Attempts -> {"none", "OK", "Refused", "ServerError", "Lost"}]
    /\ changedBy \subseteq Attempts

NewAccount ==
    [password |-> InitialPassword, security |-> 0, failed |-> 0, lockout |-> 0, stamp |-> 0]

Init ==
    /\ account = NewAccount
    /\ expired = 0
    /\ twoFactor \in BOOLEAN
    /\ userLog = {}
    /\ asked = [a \in Attempts |-> NoAsk]
    /\ pc = [a \in Attempts |-> "idle"]
    /\ copy = [a \in Attempts |-> NewAccount]
    /\ answer = [a \in Attempts |-> "none"]
    /\ changedBy = {}

-----------------------------------------------------------------------------
GoTo(a, stage) == pc' = [pc EXCEPT ![a] = stage] /\ UNCHANGED answer
Answer(a, status) ==
    /\ pc' = [pc EXCEPT ![a] = "done"]
    /\ answer' = [answer EXCEPT ![a] = status]

Track(a, row) == copy' = [copy EXCEPT ![a] = row]

\* A client asks; the token of a reset was mailed for a security stamp of the past.
Ask(a) ==
    /\ pc[a] = "idle"
    /\ \E q \in Login \cup {t \in Reset : t.token <= account.security} :
         asked' = [asked EXCEPT ![a] = q]
    /\ GoTo(a, "find")
    /\ UNCHANGED <<account, expired, twoFactor, userLog, copy, changedBy>>

\* The account as it is read by FindByNameAsync or FindByEmailAsync.
Finds(a, kind) ==
    /\ pc[a] = "find"
    /\ asked[a].kind = kind
    /\ UNCHANGED <<account, worldVars, userLog, changedBy>>

LockedOut == account.lockout > expired

\* Variant: the count goes on when the account is locked.
AccessFailedNoReset(row) ==
    [row EXCEPT !.failed = @ + 1, !.lockout = IF row.failed + 1 < MaxFailedAccess THEN @ ELSE @ + 1]

\* AccessFailedAsync, up to the write: count, or lock the account and start anew.
AccessFailed(row) ==
    IF row.failed + 1 < MaxFailedAccess
      THEN [row EXCEPT !.failed = @ + 1]
      ELSE [row EXCEPT !.failed = 0, !.lockout = @ + 1]

(***************************************************************************)
(* CheckPasswordSignInAsync of the base class.                             *)
(***************************************************************************)
RefuseLockedOut(a) ==
    /\ Finds(a, "login")
    /\ LockedOut
    /\ Track(a, account)
    /\ Answer(a, "Refused")

PasswordWrong(a) ==
    /\ Finds(a, "login")
    /\ ~ LockedOut
    /\ asked[a].password # account.password
    /\ Track(a, AccessFailed(account))
    /\ GoTo(a, "countFailure")

\* The failures are forgotten, unless the second factor has yet to be checked.
PasswordRight(a) ==
    /\ Finds(a, "login")
    /\ ~ LockedOut
    /\ asked[a].password = account.password
    /\ IF twoFactor \/ account.failed = 0
         THEN Track(a, account) /\ GoTo(a, "logLogin")
         ELSE Track(a, [account EXCEPT !.failed = 0]) /\ GoTo(a, "resetCount")

(***************************************************************************)
(* ResetPasswordAsync of the base class: the token is good for one         *)
(* security stamp, and the new password comes with a new one.              *)
(***************************************************************************)
TokenWrong(a) ==
    /\ Finds(a, "reset")
    /\ asked[a].token # account.security
    /\ Track(a, account)
    /\ Answer(a, "Refused")

\* Variant: the password changes under the same security stamp.
TokenRightSameStamp(a) ==
    /\ Finds(a, "reset")
    /\ asked[a].token = account.security
    /\ Track(a, [account EXCEPT !.password = asked[a].password])
    /\ GoTo(a, "changePassword")

TokenRight(a) ==
    /\ Finds(a, "reset")
    /\ asked[a].token = account.security
    /\ Track(a, [account EXCEPT !.password = asked[a].password, !.security = @ + 1])
    /\ GoTo(a, "changePassword")

-----------------------------------------------------------------------------
(***************************************************************************)
(* UserStore.UpdateAsync.                                                  *)
(***************************************************************************)
\* Variant: the last writer wins.
StampUnchecked(a) == TRUE

StampMatches(a) == copy[a].stamp = account.stamp

WriteCopy(a) ==
    /\ StampMatches(a)
    /\ account' = [copy[a] EXCEPT !.stamp = @ + 1]
    /\ changedBy' = IF pc[a] = "changePassword" THEN changedBy \cup {a} ELSE changedBy
    /\ UNCHANGED <<worldVars, userLog>>

UpdateUser(a) ==
    /\ WriteCopy(a)
    /\ Track(a, account')
    /\ \/ pc[a] = "countFailure" /\ Answer(a, "Refused")
       \/ pc[a] = "resetCount" /\ GoTo(a, "logLogin")
       \/ pc[a] = "resetCountAgain" /\ Answer(a, "OK")
       \/ pc[a] = "changePassword" /\ GoTo(a, "logReset")

\* Variant: ResetPasswordAsync logs whatever the base class returned.
UpdateConflictLogged(a) ==
    /\ pc[a] \in Writes
    /\ ~ StampMatches(a)
    /\ Answer(a, "Refused")
    /\ userLog' = IF pc[a] = "changePassword"
                    THEN userLog \cup {[event |-> "UserPasswordReset", attempt |-> a]}
                    ELSE userLog
    /\ UNCHANGED <<account, worldVars, copy, changedBy>>

\* Variant: a reset that is refused reloads the row and tries again.
UpdateConflictRetries(a) ==
    /\ pc[a] \in Writes
    /\ ~ StampMatches(a)
    /\ IF pc[a] = "changePassword"
         THEN /\ Track(a, [account EXCEPT !.password = asked[a].password, !.security = @ + 1])
              /\ UNCHANGED <<pc, answer>>
         ELSE Answer(a, "Refused") /\ UNCHANGED copy
    /\ UNCHANGED <<account, worldVars, userLog, changedBy>>

\* ConcurrencyFailure: the sign-in fails, the reset is a validation problem; the
\* managers log nothing.
UpdateConflict(a) ==
    /\ pc[a] \in Writes
    /\ ~ StampMatches(a)
    /\ Answer(a, "Refused")
    /\ UNCHANGED <<account, worldVars, userLog, copy, changedBy>>

-----------------------------------------------------------------------------
(***************************************************************************)
(* The logging managers, and the endpoints behind them.                    *)
(***************************************************************************)
\* An entry is written: all that DefaultUserLoggerService does, and what
\* ElasticUserLoggerService does when it does not fail.
Logged(a, event) == userLog' = userLog \cup {[event |-> event, attempt |-> a]}

LogUserLoggedIn(a) ==
    /\ pc[a] = "logLogin"
    /\ Logged(a, "UserLoggedIn")
    /\ IF ~ twoFactor THEN Answer(a, "OK")
       ELSE IF asked[a].code = "none" THEN Answer(a, "Refused")
       ELSE GoTo(a, "code")
    /\ UNCHANGED <<account, worldVars, copy, changedBy>>

LogUserPasswordReset(a) ==
    /\ pc[a] = "logReset"
    /\ Logged(a, "UserPasswordReset")
    /\ Answer(a, "OK")
    /\ UNCHANGED <<account, worldVars, copy, changedBy>>

\* TwoFactorAuthenticatorSignInAsync, on the copy that was read for the password.
CheckCode(a) ==
    /\ pc[a] = "code"
    /\ \/ /\ asked[a].code = "wrong"
          /\ Track(a, AccessFailed(copy[a]))
          /\ GoTo(a, "countFailure")
       \/ /\ asked[a].code = "right"
          /\ copy[a].failed > 0
          /\ Track(a, [copy[a] EXCEPT !.failed = 0])
          /\ GoTo(a, "resetCountAgain")
       \/ /\ asked[a].code = "right"
          /\ copy[a].failed = 0
          /\ Answer(a, "OK")
          /\ UNCHANGED copy
    /\ UNCHANGED <<account, worldVars, userLog, changedBy>>

-----------------------------------------------------------------------------
(***************************************************************************)
(* The environment.                                                        *)
(***************************************************************************)
LockoutExpires ==
    /\ LockedOut
    /\ expired' = account.lockout
    /\ UNCHANGED <<account, twoFactor, userLog, asked, pc, copy, answer, changedBy>>

\* A statement, or its answer, is lost.
DatabaseFails(a) ==
    /\ MayFail
    /\ pc[a] \in Writes
    /\ WriteCopy(a) \/ UNCHANGED <<account, worldVars, userLog, changedBy>>
    /\ Answer(a, "ServerError")
    /\ UNCHANGED copy

\* Variant: LogAsync ignores a response that is not valid.
LogFailsQuietly(a) ==
    /\ MayFail
    /\ pc[a] \in Logs
    /\ Answer(a, "OK")
    /\ UNCHANGED <<account, worldVars, userLog, copy, changedBy>>

\* Elasticsearch refuses the entry, or its answer is lost: LogAsync throws.
LogFails(a) ==
    /\ MayFail
    /\ \/ pc[a] = "logLogin" /\ (Logged(a, "UserLoggedIn") \/ UNCHANGED userLog)
       \/ pc[a] = "logReset" /\ (Logged(a, "UserPasswordReset") \/ UNCHANGED userLog)
    /\ Answer(a, "ServerError")
    /\ UNCHANGED <<account, worldVars, copy, changedBy>>

InFlight == {a \in Attempts : pc[a] \notin {"idle", "done"}}

Crash ==
    /\ MayFail
    /\ InFlight # {}
    /\ pc' = [a \in Attempts |-> IF a \in InFlight THEN "done" ELSE pc[a]]
    /\ answer' = [a \in Attempts |-> IF a \in InFlight THEN "Lost" ELSE answer[a]]
    /\ UNCHANGED <<account, worldVars, userLog, copy, changedBy>>

Next ==
    \/ \E a \in Attempts :
         \/ Ask(a)
         \/ RefuseLockedOut(a) \/ PasswordWrong(a) \/ PasswordRight(a)
         \/ TokenWrong(a) \/ TokenRight(a)
         \/ UpdateUser(a) \/ UpdateConflict(a)
         \/ LogUserLoggedIn(a) \/ LogUserPasswordReset(a) \/ CheckCode(a)
         \/ DatabaseFails(a) \/ LogFails(a)
    \/ LockoutExpires \/ Crash

Spec == Init /\ [][Next]_vars
-----------------------------------------------------------------------------
(***************************************************************************)
(* Properties.                                                             *)
(***************************************************************************)
HasLogged(a, event) == [event |-> event, attempt |-> a] \in userLog

\* However resets interleave, are repeated or lose their answers: a reset token
\* changes the password once.
TokenUsedOnce ==
    \A a, b \in changedBy : asked[a].token = asked[b].token => a = b

\* UpdateAsync writes all columns of a row that was read before other requests
\* wrote theirs; no such write brings back an earlier password or security stamp,
\* or lifts a lockout.
NothingRestored ==
    [][ /\ account'.security >= account.security
        /\ account'.password # account.password => account'.security > account.security
        /\ account'.lockout >= account.lockout ]_vars

\* The user log tells of password changes that are in the database, and of logins
\* with a password that the account had.
LogTellsTheTruth ==
    \A a \in Attempts :
        /\ HasLogged(a, "UserPasswordReset") => a \in changedBy
        /\ HasLogged(a, "UserLoggedIn") =>
             \/ asked[a].password = InitialPassword
             \/ \E b \in changedBy : asked[b].password = asked[a].password

\* A client that is answered OK signed in, or changed the password, and the user
\* log knows; one that is refused changed no password.
AnswersAreTrue ==
    \A a \in Attempts :
        /\ answer[a] = "OK" /\ asked[a].kind = "login" => HasLogged(a, "UserLoggedIn")
        /\ answer[a] = "OK" /\ asked[a].kind = "reset" =>
             a \in changedBy /\ HasLogged(a, "UserPasswordReset")
        /\ answer[a] = "Refused" => a \notin changedBy

(***************************************************************************)
(* SignIn implements CredentialStore: the password of the row is the       *)
(* secret, the security stamp its generation.  What a request knows of     *)
(* either was true of the row at one moment, although it works on a copy.  *)
(***************************************************************************)
WishOf(q) ==
    IF q = NoAsk
      THEN NoAsk
      ELSE [secret |-> q.password, ticket |-> IF q.kind = "reset" THEN q.token ELSE NoAsk]

\* "Nothing asked" stands for no wish, too.
ASSUME CredentialsAssumption ==
    NoAsk \notin [secret : Passwords, ticket : Tokens \cup {NoAsk}]

StageOf ==
    [idle |-> "idle", find |-> "waiting", changePassword |-> "waiting",
     resetCount |-> "known", logLogin |-> "known", code |-> "known",
     resetCountAgain |-> "known", countFailure |-> "rejected",
     logReset |-> "changed", done |-> "over"]

Store == INSTANCE CredentialStore WITH
    Clients <- Attempts,
    Secrets <- Passwords,
    InitialSecret <- InitialPassword,
    Tickets <- Tokens,
    None <- NoAsk,
    secret <- account.password,
    generation <- account.security,
    wish <- [a \in Attempts |-> WishOf(asked[a])],
    stage <- [a \in Attempts |-> StageOf[pc[a]]],
    told <- answer

\* Every behaviour of the endpoints is one of a store in which a login is checked
\* at one moment and a password is changed in one step, for a ticket that is good
\* at that moment.
ImplementsCredentials == Store!StoreSpec

(***************************************************************************)
(* What the repository says and the code does not do.                      *)
(***************************************************************************)

\* IUserLoggerService.cs:20: the event is logged when "a user has successfully
\* logged in" - not when the second factor is still missing.
LoggedInMeansSignedIn ==
    \A a \in Attempts : HasLogged(a, "UserLoggedIn") => answer[a] # "Refused"
=============================================================================
