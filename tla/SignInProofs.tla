----------------------------- MODULE SignInProofs -----------------------------
(***************************************************************************)
(* Theorems about SignIn, for any number of concurrent logins and resets,  *)
(* any passwords, any lockout threshold and every combination of faults.   *)
(***************************************************************************)
EXTENDS SignIn, TLAPS

(***************************************************************************)
(* The inductive invariant.                                                *)
(***************************************************************************)
LoginStages == {"resetCount", "countFailure", "logLogin", "code", "resetCountAgain"}
ResetStages == {"changePassword", "logReset"}

\* What a request asked for fits the stage it stands at, and it is answered at
\* its end.
AskedInv ==
    \A a \in Attempts :
        /\ pc[a] = "idle" <=> asked[a] = NoAsk
        /\ pc[a] \in LoginStages => asked[a] \in Login
        /\ pc[a] \in ResetStages => asked[a] \in Reset
        /\ pc[a] = "done" <=> answer[a] # "none"

\* What a copy is worth: it never runs ahead of the row, and while the stamps
\* agree it differs from the row only in what its own request does to it.
CopyIsOld(a) ==
    /\ pc[a] \in LoginStages \cup {"changePassword"} => copy[a].stamp <= account.stamp
    /\ pc[a] \in LoginStages /\ copy[a].stamp = account.stamp =>
         /\ copy[a].password = account.password
         /\ copy[a].security = account.security
         /\ copy[a].lockout >= account.lockout
    /\ pc[a] = "changePassword" /\ copy[a].stamp = account.stamp =>
         /\ copy[a].password = asked[a].password
         /\ copy[a].security = account.security + 1
         /\ asked[a].token = account.security
         /\ copy[a].lockout = account.lockout

CopyInv == \A a \in Attempts : CopyIsOld(a)

\* The tokens that were used are older than the row's security stamp.
ChangesInv ==
    /\ \A a \in changedBy :
         /\ asked[a] \in Reset
         /\ asked[a].token < account.security
         /\ pc[a] \in {"logReset", "done"}
    /\ \A a \in Attempts : pc[a] = "logReset" => a \in changedBy

\* The passwords the account has had.
Had == {InitialPassword} \cup {asked[b].password : b \in changedBy}

PasswordsInv ==
    /\ account.password \in Had
    /\ \A a \in Attempts : pc[a] \in {"resetCount", "logLogin"} => asked[a].password \in Had

LogInv ==
    \A a \in Attempts :
        /\ pc[a] = "idle" => ~ HasLogged(a, "UserLoggedIn")
        /\ pc[a] \in {"code", "resetCountAgain"} => HasLogged(a, "UserLoggedIn")

IInv ==
    /\ TypeOK
    /\ AskedInv
    /\ CopyInv
    /\ ChangesInv
    /\ PasswordsInv
    /\ LogInv
    /\ TokenUsedOnce
    /\ LogTellsTheTruth
    /\ AnswersAreTrue

-----------------------------------------------------------------------------
(***************************************************************************)
(* The rows that the actions compute.                                      *)
(***************************************************************************)
LEMMA RowFields ==
    ASSUME NEW row \in Row
    PROVE  /\ row.password \in Passwords /\ row.security \in Nat /\ row.failed \in Nat
           /\ row.lockout \in Nat /\ row.stamp \in Nat
  BY SignInAssumption DEF Row

LEMMA OneColumn ==
    ASSUME NEW row \in Row, NEW n \in Nat, NEW p \in Passwords
    PROVE  /\ [row EXCEPT !.lockout = n] \in Row
           /\ [row EXCEPT !.security = n] \in Row
           /\ [row EXCEPT !.password = p] \in Row
  BY DEF Row

LEMMA ForgivenRow ==
    ASSUME NEW row \in Row
    PROVE  /\ [row EXCEPT !.failed = 0] \in Row
           /\ [row EXCEPT !.failed = 0].password = row.password
           /\ [row EXCEPT !.failed = 0].security = row.security
           /\ [row EXCEPT !.failed = 0].stamp = row.stamp
           /\ [row EXCEPT !.failed = 0].lockout = row.lockout
  BY SignInAssumption DEF Row

\* Counting a failure touches the count and the lockout only.
LEMMA CountedRow ==
    ASSUME NEW row \in Row
    PROVE  /\ AccessFailed(row) \in Row
           /\ AccessFailed(row).password = row.password
           /\ AccessFailed(row).security = row.security
           /\ AccessFailed(row).stamp = row.stamp
           /\ AccessFailed(row).lockout >= row.lockout
<1> USE SignInAssumption
<1>1. CASE row.failed + 1 < MaxFailedAccess
  BY <1>1 DEF AccessFailed, Row
<1>2. CASE ~ (row.failed + 1 < MaxFailedAccess)
  <2> DEFINE new == [row EXCEPT !.failed = 0, !.lockout = @ + 1]
  <2>1. AccessFailed(row) = new
    BY <1>2 DEF AccessFailed
  <2>2. row.lockout + 1 \in Nat /\ row.lockout + 1 >= row.lockout
    BY RowFields
  <2>3. new = [[row EXCEPT !.failed = 0] EXCEPT !.lockout = row.lockout + 1]
    BY DEF Row
  <2>4. new \in Row
    BY <2>2, <2>3, ForgivenRow, OneColumn
  <2>5. /\ new.password = row.password /\ new.security = row.security
        /\ new.stamp = row.stamp /\ new.lockout = row.lockout + 1
    BY DEF Row
  <2>6. QED BY <2>1, <2>2, <2>4, <2>5
<1>3. QED BY <1>1, <1>2

LEMMA ChangedRow ==
    ASSUME NEW row \in Row, NEW p \in Passwords
    PROVE  [row EXCEPT !.password = p, !.security = @ + 1] \in
             {new \in Row : /\ new.password = p
                            /\ new.security = row.security + 1
                            /\ new.stamp = row.stamp
                            /\ new.lockout = row.lockout}
<1> DEFINE new == [row EXCEPT !.password = p, !.security = @ + 1]
<1>1. row.security + 1 \in Nat
  BY RowFields
<1>2. new = [[row EXCEPT !.password = p] EXCEPT !.security = row.security + 1]
  BY DEF Row
<1>3. new \in Row
  BY <1>1, <1>2, OneColumn
<1>4. /\ new.password = p /\ new.security = row.security + 1
      /\ new.stamp = row.stamp /\ new.lockout = row.lockout
  BY DEF Row
<1>5. QED BY <1>3, <1>4

\* What a write that succeeds does to the row: the next stamp, and nothing
\* that brings back an earlier password, security stamp or lockout.
LEMMA Written ==
    ASSUME TypeOK, CopyInv, AskedInv, NEW a \in Attempts, pc[a] \in Writes, WriteCopy(a)
    PROVE  /\ account' \in Row
           /\ account'.stamp = account.stamp + 1
           /\ account'.lockout >= account.lockout
           /\ pc[a] # "changePassword" =>
                /\ account'.password = account.password
                /\ account'.security = account.security
                /\ changedBy' = changedBy
           /\ pc[a] = "changePassword" =>
                /\ account'.password = asked[a].password
                /\ account'.security = account.security + 1
                /\ asked[a].token = account.security
                /\ changedBy' = changedBy \cup {a}
           /\ UNCHANGED <<expired, twoFactor, asked, userLog>>
<1>1. copy[a] \in Row /\ account \in Row /\ copy[a].stamp = account.stamp
  BY DEF TypeOK, WriteCopy, StampMatches
<1>2. account' = [copy[a] EXCEPT !.stamp = @ + 1]
  BY DEF WriteCopy
<1>3. /\ account' \in Row
      /\ account'.stamp = account.stamp + 1
      /\ account'.password = copy[a].password
      /\ account'.security = copy[a].security
      /\ account'.lockout = copy[a].lockout
  BY <1>1, <1>2 DEF Row
<1>4. account.lockout \in Nat
  BY <1>1, RowFields
<1>5. CASE pc[a] # "changePassword"
  <2>1. pc[a] \in LoginStages
    BY <1>5 DEF Writes, LoginStages
  <2>2. QED BY <1>1, <1>3, <1>5, <2>1 DEF CopyInv, CopyIsOld, WriteCopy, worldVars
<1>6. CASE pc[a] = "changePassword"
  BY <1>1, <1>3, <1>4, <1>6 DEF CopyInv, CopyIsOld, WriteCopy, worldVars
<1>7. QED BY <1>5, <1>6

LEMMA WishTypes ==
    ASSUME TypeOK, AskedInv, NEW a \in Attempts
    PROVE  /\ pc[a] # "idle" => asked[a] \in Login \cup Reset
           /\ pc[a] # "idle" /\ asked[a].kind = "login" => asked[a] \in Login
           /\ pc[a] # "idle" /\ asked[a].kind = "reset" =>
                /\ asked[a] \in Reset
                /\ asked[a].password \in Passwords
                /\ asked[a].token \in Tokens
<1>1. pc[a] # "idle" => asked[a] \in Login \cup Reset
  BY DEF TypeOK, AskedInv
<1>2. \A q \in Login : q.kind = "login"
  BY DEF Login
<1>3. \A q \in Reset : q.kind = "reset" /\ q.password \in Passwords /\ q.token \in Tokens
  BY DEF Reset
<1>4. QED BY <1>1, <1>2, <1>3

(***************************************************************************)
(* Type correctness, and what the stages know.                             *)
(***************************************************************************)
LEMMA TypeStep == TypeOK /\ AskedInv /\ CopyInv /\ [Next]_vars => TypeOK'
<1> SUFFICES ASSUME TypeOK, AskedInv, CopyInv, [Next]_vars PROVE TypeOK'
  OBVIOUS
<1> USE DEF TypeOK, GoTo, Answer, Track, worldVars, Finds
<1>s. \A event \in Events, a \in Attempts :
        userLog \cup {[event |-> event, attempt |-> a]} \subseteq [event : Events, attempt : Attempts]
  OBVIOUS
<1>w. ASSUME NEW a \in Attempts, pc[a] \in Writes, WriteCopy(a)
      PROVE  account' \in Row /\ changedBy' \subseteq Attempts
  BY <1>w, Written
<1>1. ASSUME NEW a \in Attempts, Ask(a) PROVE TypeOK'
  BY <1>1 DEF Ask, Stages
<1>2. ASSUME NEW a \in Attempts, RefuseLockedOut(a) PROVE TypeOK'
  BY <1>2 DEF RefuseLockedOut, Stages
<1>3. ASSUME NEW a \in Attempts, PasswordWrong(a) PROVE TypeOK'
  BY <1>3, CountedRow DEF PasswordWrong, Stages
<1>4. ASSUME NEW a \in Attempts, PasswordRight(a) PROVE TypeOK'
  BY <1>4, ForgivenRow DEF PasswordRight, Stages
<1>5. ASSUME NEW a \in Attempts, TokenWrong(a) PROVE TypeOK'
  BY <1>5 DEF TokenWrong, Stages
<1>6. ASSUME NEW a \in Attempts, TokenRight(a) PROVE TypeOK'
  <2>1. asked[a].password \in Passwords
    BY <1>6, WishTypes DEF TokenRight
  <2>2. [account EXCEPT !.password = asked[a].password, !.security = @ + 1] \in Row
    BY <2>1, ChangedRow
  <2>3. QED BY <1>6, <2>2 DEF TokenRight, Stages
<1>7. ASSUME NEW a \in Attempts, UpdateUser(a) PROVE TypeOK'
  <2>1. pc[a] \in Writes /\ WriteCopy(a)
    BY <1>7 DEF UpdateUser, Writes
  <2>2. account' \in Row /\ changedBy' \subseteq Attempts
    BY <2>1, <1>w
  <2>3. QED BY <1>7, <2>1, <2>2, Written DEF UpdateUser, Stages
<1>8. ASSUME NEW a \in Attempts, UpdateConflict(a) PROVE TypeOK'
  BY <1>8 DEF UpdateConflict, Stages
<1>9. ASSUME NEW a \in Attempts, LogUserLoggedIn(a) PROVE TypeOK'
  BY <1>9, <1>s DEF LogUserLoggedIn, Logged, Stages, Events
<1>10. ASSUME NEW a \in Attempts, LogUserPasswordReset(a) PROVE TypeOK'
  BY <1>10, <1>s DEF LogUserPasswordReset, Logged, Stages, Events
<1>11. ASSUME NEW a \in Attempts, CheckCode(a) PROVE TypeOK'
  BY <1>11, CountedRow, ForgivenRow DEF CheckCode, Stages
<1>12. ASSUME NEW a \in Attempts, DatabaseFails(a) PROVE TypeOK'
  <2>1. CASE WriteCopy(a)
    BY <1>12, <2>1, <1>w, Written DEF DatabaseFails, Stages
  <2>2. CASE UNCHANGED <<account, worldVars, userLog, changedBy>>
    BY <1>12, <2>2 DEF DatabaseFails, Stages
  <2>3. QED BY <1>12, <2>1, <2>2 DEF DatabaseFails
<1>13. ASSUME NEW a \in Attempts, LogFails(a) PROVE TypeOK'
  BY <1>13, <1>s DEF LogFails, Logged, Stages, Events
<1>14. CASE LockoutExpires
  BY <1>14, RowFields DEF LockoutExpires
<1>15. CASE Crash
  BY <1>15 DEF Crash, Stages
<1>16. CASE UNCHANGED vars
  BY <1>16 DEF vars
<1> QED
  BY <1>1, <1>2, <1>3, <1>4, <1>5, <1>6, <1>7, <1>8, <1>9, <1>10, <1>11, <1>12, <1>13, <1>14, <1>15, <1>16 DEF Next

LEMMA AskedStep == TypeOK /\ AskedInv /\ CopyInv /\ [Next]_vars => AskedInv'
<1> SUFFICES ASSUME TypeOK, AskedInv, CopyInv, [Next]_vars PROVE AskedInv'
  OBVIOUS
<1> USE SignInAssumption
    DEF TypeOK, GoTo, Answer, worldVars, Finds, LoginStages, ResetStages, Writes, Logs
<1>1. ASSUME NEW a \in Attempts, Ask(a) PROVE AskedInv'
  BY <1>1 DEF AskedInv, Ask
<1>2. ASSUME NEW a \in Attempts, RefuseLockedOut(a) \/ TokenWrong(a) PROVE AskedInv'
  BY <1>2 DEF AskedInv, RefuseLockedOut, TokenWrong
<1>3. ASSUME NEW a \in Attempts, PasswordWrong(a) \/ PasswordRight(a) PROVE AskedInv'
  <2>1. pc[a] = "find" /\ asked[a] \in Login
    BY <1>3, WishTypes DEF PasswordWrong, PasswordRight
  <2>2. QED BY <1>3, <2>1 DEF AskedInv, PasswordWrong, PasswordRight
<1>4. ASSUME NEW a \in Attempts, TokenRight(a) PROVE AskedInv'
  <2>1. pc[a] = "find" /\ asked[a] \in Reset
    BY <1>4, WishTypes DEF TokenRight
  <2>2. QED BY <1>4, <2>1 DEF AskedInv, TokenRight
<1>5. ASSUME NEW a \in Attempts, UpdateUser(a) PROVE AskedInv'
  <2>1. UNCHANGED asked
    BY <1>5 DEF UpdateUser, WriteCopy
  <2>2. QED BY <1>5, <2>1 DEF AskedInv, UpdateUser
<1>6. ASSUME NEW a \in Attempts, UpdateConflict(a) \/ LogUserLoggedIn(a) \/ LogUserPasswordReset(a)
      PROVE  AskedInv'
  BY <1>6 DEF AskedInv, UpdateConflict, LogUserLoggedIn, LogUserPasswordReset
<1>7. ASSUME NEW a \in Attempts, CheckCode(a) PROVE AskedInv'
  BY <1>7 DEF AskedInv, CheckCode
<1>8. ASSUME NEW a \in Attempts, DatabaseFails(a) \/ LogFails(a) PROVE AskedInv'
  BY <1>8 DEF AskedInv, DatabaseFails, LogFails, WriteCopy
<1>9. CASE LockoutExpires \/ UNCHANGED vars
  BY <1>9 DEF AskedInv, LockoutExpires, vars
<1>10. CASE Crash
  BY <1>10 DEF AskedInv, Crash, InFlight
<1> QED
  BY <1>1, <1>2, <1>3, <1>4, <1>5, <1>6, <1>7, <1>8, <1>9, <1>10 DEF Next

(***************************************************************************)
(* The copies.                                                             *)
(***************************************************************************)
\* A write makes every other copy too old, for good.
LEMMA OtherCopies ==
    ASSUME TypeOK, CopyInv, account' = account \/ account'.stamp = account.stamp + 1,
           account' \in Row, NEW b \in Attempts,
           pc'[b] = pc[b], copy'[b] = copy[b], asked'[b] = asked[b]
    PROVE  CopyIsOld(b)'
<1>1. copy[b].stamp \in Nat /\ account.stamp \in Nat
  BY RowFields DEF TypeOK
<1>2. CopyIsOld(b)
  BY DEF CopyInv
<1>3. CASE account' = account
  BY <1>2, <1>3 DEF CopyIsOld
<1>4. CASE account'.stamp = account.stamp + 1
  <2>1. pc[b] \in LoginStages \cup {"changePassword"} => copy[b].stamp < account'.stamp
    BY <1>1, <1>2, <1>4 DEF CopyIsOld
  <2>2. account'.stamp \in Nat
    BY RowFields
  <2>3. QED BY <1>1, <2>1, <2>2 DEF CopyIsOld, LoginStages
<1>5. QED BY <1>3, <1>4

LEMMA CopyStep == TypeOK /\ AskedInv /\ CopyInv /\ [Next]_vars => CopyInv'
<1> SUFFICES ASSUME TypeOK, AskedInv, CopyInv, [Next]_vars PROVE CopyInv'
  OBVIOUS
<1> USE DEF GoTo, Answer, Track, worldVars, Finds
<1>t. account \in Row /\ \A a \in Attempts : copy[a] \in Row
  BY DEF TypeOK
<1>n. account.stamp \in Nat /\ account.lockout \in Nat
  BY <1>t, RowFields
<1>o. ASSUME NEW a \in Attempts,
             account' = account \/ account'.stamp = account.stamp + 1, account' \in Row,
             \A b \in Attempts \ {a} :
               pc'[b] = pc[b] /\ copy'[b] = copy[b] /\ asked'[b] = asked[b],
             CopyIsOld(a)'
      PROVE  CopyInv'
  BY <1>o, OtherCopies DEF CopyInv
<1>f. ASSUME NEW a \in Attempts, pc'[a] \notin LoginStages \cup {"changePassword"}
      PROVE  CopyIsOld(a)'
  BY <1>f DEF CopyIsOld
<1>1. ASSUME NEW a \in Attempts,
             Ask(a) \/ RefuseLockedOut(a) \/ TokenWrong(a) \/ UpdateConflict(a)
             \/ LogUserPasswordReset(a) \/ LogFails(a)
      PROVE  CopyInv'
  <2>1. pc'[a] \notin LoginStages \cup {"changePassword"}
    BY <1>1 DEF Ask, RefuseLockedOut, TokenWrong, UpdateConflict, LogUserPasswordReset, LogFails,
                TypeOK, LoginStages
  <2>2. /\ account' = account
        /\ \A b \in Attempts \ {a} :
             pc'[b] = pc[b] /\ copy'[b] = copy[b] /\ asked'[b] = asked[b]
    BY <1>1 DEF Ask, RefuseLockedOut, TokenWrong, UpdateConflict, LogUserPasswordReset, LogFails,
                TypeOK
  <2>3. QED BY <1>t, <1>o, <1>f, <2>1, <2>2
<1>2. ASSUME NEW a \in Attempts, PasswordWrong(a) PROVE CopyInv'
  <2>1. copy'[a] = AccessFailed(account) /\ pc'[a] = "countFailure" /\ account' = account
    BY <1>2 DEF PasswordWrong, TypeOK
  <2>2. CopyIsOld(a)'
    BY <1>t, <1>n, <2>1, CountedRow DEF CopyIsOld, LoginStages
  <2>3. QED BY <1>2, <1>t, <1>o, <2>1, <2>2 DEF PasswordWrong, TypeOK
<1>3. ASSUME NEW a \in Attempts, PasswordRight(a) PROVE CopyInv'
  <2>1. /\ copy'[a] = account \/ copy'[a] = [account EXCEPT !.failed = 0]
        /\ pc'[a] \in {"logLogin", "resetCount"} /\ account' = account
    BY <1>3 DEF PasswordRight, TypeOK
  <2>2. CopyIsOld(a)'
    <3>1. /\ copy'[a].password = account.password /\ copy'[a].security = account.security
          /\ copy'[a].stamp = account.stamp /\ copy'[a].lockout = account.lockout
      BY <1>t, <2>1, ForgivenRow
    <3>2. QED BY <1>n, <2>1, <3>1 DEF CopyIsOld, LoginStages
  <2>3. QED BY <1>3, <1>t, <1>o, <2>1, <2>2 DEF PasswordRight, TypeOK
<1>4. ASSUME NEW a \in Attempts, TokenRight(a) PROVE CopyInv'
  <2>1. /\ copy'[a] = [account EXCEPT !.password = asked[a].password, !.security = @ + 1]
        /\ pc'[a] = "changePassword" /\ account' = account /\ asked' = asked
        /\ asked[a].token = account.security
    BY <1>4 DEF TokenRight, TypeOK
  <2>2. asked[a].password \in Passwords
    BY <1>4, WishTypes DEF TokenRight
  <2>3. /\ copy'[a].password = asked[a].password
        /\ copy'[a].security = account.security + 1
        /\ copy'[a].stamp = account.stamp
        /\ copy'[a].lockout = account.lockout
    <3>1. [account EXCEPT !.password = asked[a].password, !.security = @ + 1] \in
            {new \in Row : /\ new.password = asked[a].password
                           /\ new.security = account.security + 1
                           /\ new.stamp = account.stamp
                           /\ new.lockout = account.lockout}
      BY <1>t, <2>2, ChangedRow
    <3>2. QED BY <2>1, <3>1
  <2>4. CopyIsOld(a)'
    BY <1>n, <2>1, <2>3 DEF CopyIsOld, LoginStages
  <2>5. QED BY <1>4, <1>t, <1>o, <2>1, <2>4 DEF TokenRight, TypeOK
<1>5. ASSUME NEW a \in Attempts, UpdateUser(a) PROVE CopyInv'
  <2>1. pc[a] \in Writes /\ WriteCopy(a)
    BY <1>5 DEF UpdateUser, Writes
  <2>2. account' \in Row /\ account'.stamp = account.stamp + 1 /\ asked' = asked
    BY <2>1, Written
  <2>3. copy'[a] = account' /\ pc'[a] # "changePassword"
    BY <1>5 DEF UpdateUser, TypeOK
  <2>4. account'.stamp \in Nat /\ account'.lockout \in Nat
    BY <2>2, RowFields
  <2>5. CopyIsOld(a)'
    BY <2>3, <2>4 DEF CopyIsOld
  <2>6. \A b \in Attempts \ {a} : pc'[b] = pc[b] /\ copy'[b] = copy[b]
    BY <1>5 DEF UpdateUser, TypeOK
  <2>7. QED BY <1>o, <2>2, <2>5, <2>6
<1>6. ASSUME NEW a \in Attempts, LogUserLoggedIn(a) PROVE CopyInv'
  <2>1. /\ pc[a] = "logLogin" /\ copy' = copy /\ account' = account
        /\ pc'[a] \in {"done", "code"}
    BY <1>6 DEF LogUserLoggedIn, TypeOK
  <2>2. CopyIsOld(a)'
    BY <2>1 DEF CopyInv, CopyIsOld, LoginStages
  <2>3. QED BY <1>6, <1>t, <1>o, <2>1, <2>2 DEF LogUserLoggedIn, TypeOK
<1>7. ASSUME NEW a \in Attempts, CheckCode(a) PROVE CopyInv'
  <2>1. /\ \/ copy'[a] = copy[a] \/ copy'[a] = AccessFailed(copy[a])
           \/ copy'[a] = [copy[a] EXCEPT !.failed = 0]
        /\ pc[a] = "code" /\ account' = account
        /\ pc'[a] \in {"done", "countFailure", "resetCountAgain"}
    BY <1>7 DEF CheckCode, TypeOK
  <2>2. /\ copy'[a].password = copy[a].password /\ copy'[a].security = copy[a].security
        /\ copy'[a].stamp = copy[a].stamp /\ copy'[a].lockout >= copy[a].lockout
        /\ copy'[a].lockout \in Nat /\ copy[a].lockout \in Nat
    <3>1. CASE copy'[a] = AccessFailed(copy[a])
      BY <1>t, <3>1, CountedRow, RowFields
    <3>2. CASE copy'[a] = [copy[a] EXCEPT !.failed = 0]
      <4>1. copy[a] \in Row
        BY <1>t
      <4>2. /\ copy'[a].password = copy[a].password /\ copy'[a].security = copy[a].security
            /\ copy'[a].stamp = copy[a].stamp /\ copy'[a].lockout = copy[a].lockout
        BY <3>2, <4>1, ForgivenRow
      <4>3. QED BY <4>1, <4>2, RowFields
    <3>3. CASE copy'[a] = copy[a]
      BY <1>t, <3>3, RowFields
    <3>4. QED BY <2>1, <3>1, <3>2, <3>3
  <2>3. CopyIsOld(a)'
    BY <1>n, <2>1, <2>2 DEF CopyInv, CopyIsOld, LoginStages
  <2>4. QED BY <1>7, <1>t, <1>o, <2>1, <2>3 DEF CheckCode, TypeOK
<1>8. ASSUME NEW a \in Attempts, DatabaseFails(a) PROVE CopyInv'
  <2>1. pc[a] \in Writes /\ pc'[a] = "done" /\ copy' = copy
    BY <1>8 DEF DatabaseFails, TypeOK
  <2>2. /\ account' = account \/ account'.stamp = account.stamp + 1
        /\ account' \in Row /\ asked' = asked
    BY <1>8, <1>t, <2>1, Written DEF DatabaseFails
  <2>3. CopyIsOld(a)'
    BY <1>f, <2>1 DEF LoginStages
  <2>4. QED BY <1>8, <1>o, <2>1, <2>2, <2>3 DEF DatabaseFails, TypeOK
<1>9. CASE LockoutExpires \/ UNCHANGED vars
  BY <1>9 DEF CopyInv, CopyIsOld, LockoutExpires, vars
<1>10. CASE Crash
  BY <1>10 DEF Crash, InFlight, CopyInv, CopyIsOld, LoginStages, TypeOK
<1> QED
  BY <1>1, <1>2, <1>3, <1>4, <1>5, <1>6, <1>7, <1>8, <1>9, <1>10 DEF Next

(***************************************************************************)
(* Every step changes what the account's owner knows - the password and    *)
(* its security stamp - in one way, if at all.                             *)
(***************************************************************************)
KeepsPassword ==
    /\ account'.password = account.password
    /\ account'.security = account.security
    /\ changedBy' = changedBy

ChangesPassword(a) ==
    /\ pc[a] = "changePassword"
    /\ pc'[a] \in {"logReset", "done"}
    /\ asked[a].token = account.security
    /\ account'.password = asked[a].password
    /\ account'.security = account.security + 1
    /\ changedBy' = changedBy \cup {a}

LEMMA AccountStep ==
    ASSUME TypeOK, AskedInv, CopyInv, [Next]_vars
    PROVE  /\ KeepsPassword \/ \E a \in Attempts : ChangesPassword(a)
           /\ account'.lockout >= account.lockout
<1>n. account.lockout \in Nat
  BY RowFields DEF TypeOK
<1>1. ASSUME NEW a \in Attempts, WriteCopy(a), pc[a] \in Writes, pc'[a] \in {"logReset", "done"} \/ pc[a] # "changePassword"
      PROVE  /\ KeepsPassword \/ ChangesPassword(a)
             /\ account'.lockout >= account.lockout
  BY <1>1, Written DEF KeepsPassword, ChangesPassword
<1>2. ASSUME NEW a \in Attempts, UpdateUser(a)
      PROVE  /\ KeepsPassword \/ ChangesPassword(a)
             /\ account'.lockout >= account.lockout
  <2>1. WriteCopy(a) /\ pc[a] \in Writes /\ (pc'[a] \in {"logReset", "done"} \/ pc[a] # "changePassword")
    BY <1>2 DEF UpdateUser, Writes, TypeOK, GoTo, Answer
  <2>2. QED BY <1>1, <2>1
<1>3. ASSUME NEW a \in Attempts, DatabaseFails(a), WriteCopy(a)
      PROVE  /\ KeepsPassword \/ ChangesPassword(a)
             /\ account'.lockout >= account.lockout
  <2>1. pc[a] \in Writes /\ pc'[a] = "done"
    BY <1>3 DEF DatabaseFails, TypeOK, Answer
  <2>2. QED BY <1>1, <1>3, <2>1
<1>4. ASSUME NEW a \in Attempts,
             Ask(a) \/ RefuseLockedOut(a) \/ PasswordWrong(a) \/ PasswordRight(a)
             \/ TokenWrong(a) \/ TokenRight(a) \/ UpdateConflict(a) \/ LogUserLoggedIn(a)
             \/ LogUserPasswordReset(a) \/ CheckCode(a) \/ LogFails(a)
      PROVE  UNCHANGED <<account, changedBy>>
  BY <1>4 DEF Ask, RefuseLockedOut, PasswordWrong, PasswordRight, TokenWrong, TokenRight, Finds,
              UpdateConflict, LogUserLoggedIn, LogUserPasswordReset, CheckCode, LogFails
<1>5. CASE UNCHANGED <<account, changedBy>>
  BY <1>n, <1>5 DEF KeepsPassword
<1>6. LockoutExpires \/ Crash \/ UNCHANGED vars => UNCHANGED <<account, changedBy>>
  BY DEF LockoutExpires, Crash, vars
<1>7. QED
  BY <1>2, <1>3, <1>4, <1>5, <1>6 DEF Next, DatabaseFails

\* A request asks once and does not move backwards.
LEMMA Progress ==
    ASSUME TypeOK, [Next]_vars, NEW a \in Attempts
    PROVE  /\ pc[a] # "idle" => pc'[a] # "idle" /\ asked'[a] = asked[a]
           /\ pc[a] \in {"logReset", "done"} => pc'[a] \in {"logReset", "done"}
           /\ pc[a] = "done" => pc'[a] = "done" /\ answer'[a] = answer[a]
<1> USE DEF TypeOK, GoTo, Answer, worldVars, Finds, WriteCopy, Writes, Logs, InFlight
<1>1. ASSUME NEW b \in Attempts,
             Ask(b) \/ RefuseLockedOut(b) \/ PasswordWrong(b) \/ PasswordRight(b)
             \/ TokenWrong(b) \/ TokenRight(b)
      PROVE  /\ pc[a] # "idle" => pc'[a] # "idle" /\ asked'[a] = asked[a]
             /\ pc[a] \in {"logReset", "done"} => pc'[a] \in {"logReset", "done"}
             /\ pc[a] = "done" => pc'[a] = "done" /\ answer'[a] = answer[a]
  BY <1>1 DEF Ask, RefuseLockedOut, PasswordWrong, PasswordRight, TokenWrong, TokenRight
<1>2. ASSUME NEW b \in Attempts, UpdateUser(b) \/ UpdateConflict(b) \/ DatabaseFails(b)
      PROVE  /\ pc[a] # "idle" => pc'[a] # "idle" /\ asked'[a] = asked[a]
             /\ pc[a] \in {"logReset", "done"} => pc'[a] \in {"logReset", "done"}
             /\ pc[a] = "done" => pc'[a] = "done" /\ answer'[a] = answer[a]
  BY <1>2 DEF UpdateUser, UpdateConflict, DatabaseFails
<1>3. ASSUME NEW b \in Attempts,
             LogUserLoggedIn(b) \/ LogUserPasswordReset(b) \/ CheckCode(b) \/ LogFails(b)
      PROVE  /\ pc[a] # "idle" => pc'[a] # "idle" /\ asked'[a] = asked[a]
             /\ pc[a] \in {"logReset", "done"} => pc'[a] \in {"logReset", "done"}
             /\ pc[a] = "done" => pc'[a] = "done" /\ answer'[a] = answer[a]
  BY <1>3 DEF LogUserLoggedIn, LogUserPasswordReset, CheckCode, LogFails
<1>4. CASE LockoutExpires \/ Crash \/ UNCHANGED vars
  BY <1>4 DEF LockoutExpires, Crash, vars
<1>5. QED BY <1>1, <1>2, <1>3, <1>4 DEF Next

\* Only a reset that changed the password has its change logged.
LEMMA LogResetStage ==
    ASSUME TypeOK, AskedInv, CopyInv, [Next]_vars, NEW a \in Attempts, pc'[a] = "logReset"
    PROVE  pc[a] = "logReset" \/ a \in changedBy'
<1> USE DEF TypeOK, GoTo, Answer, worldVars, Finds
<1>1. ASSUME NEW b \in Attempts, UpdateUser(b) PROVE pc[a] = "logReset" \/ a \in changedBy'
  BY <1>1 DEF UpdateUser, WriteCopy
<1>2. ASSUME NEW b \in Attempts,
             Ask(b) \/ RefuseLockedOut(b) \/ PasswordWrong(b) \/ PasswordRight(b)
             \/ TokenWrong(b) \/ TokenRight(b) \/ UpdateConflict(b) \/ LogUserLoggedIn(b)
             \/ LogUserPasswordReset(b) \/ CheckCode(b) \/ DatabaseFails(b) \/ LogFails(b)
      PROVE  pc[a] = "logReset"
  BY <1>2 DEF Ask, RefuseLockedOut, PasswordWrong, PasswordRight, TokenWrong, TokenRight,
              UpdateConflict, LogUserLoggedIn, LogUserPasswordReset, CheckCode,
              DatabaseFails, LogFails
<1>3. CASE LockoutExpires \/ Crash \/ UNCHANGED vars
  BY <1>3 DEF LockoutExpires, Crash, vars
<1>4. QED BY <1>1, <1>2, <1>3 DEF Next

LEMMA ChangesStep ==
    ASSUME TypeOK, AskedInv, CopyInv, ChangesInv, TokenUsedOnce, [Next]_vars
    PROVE  ChangesInv' /\ TokenUsedOnce'
<1>n. account.security \in Nat /\ changedBy \subseteq Attempts
  BY RowFields DEF TypeOK
<1>p. \A a \in changedBy : asked'[a] = asked[a] /\ pc'[a] \in {"logReset", "done"}
  BY <1>n, Progress DEF ChangesInv
<1>t. \A a \in changedBy : asked[a].token \in Nat /\ asked[a].token < account.security
  BY DEF ChangesInv, Reset, Tokens
<1>1. ChangesInv'
  <2>1. CASE KeepsPassword
    BY <1>p, <2>1, LogResetStage DEF ChangesInv, KeepsPassword
  <2>2. ASSUME NEW b \in Attempts, ChangesPassword(b) PROVE ChangesInv'
    <3>1. asked'[b] = asked[b] /\ asked[b] \in Reset
      BY <2>2, Progress DEF ChangesPassword, AskedInv, ResetStages
    <3>2. \A a \in changedBy' :
            /\ asked'[a] \in Reset
            /\ asked'[a].token < account'.security
            /\ pc'[a] \in {"logReset", "done"}
      BY <1>n, <1>p, <1>t, <2>2, <3>1 DEF ChangesPassword, ChangesInv
    <3>3. \A a \in Attempts : pc'[a] = "logReset" => a \in changedBy'
      BY <2>2, LogResetStage DEF ChangesInv, ChangesPassword
    <3>4. QED BY <3>2, <3>3 DEF ChangesInv
  <2>3. QED BY <2>1, <2>2, AccountStep
<1>2. TokenUsedOnce'
  <2>1. CASE KeepsPassword
    BY <1>p, <2>1 DEF TokenUsedOnce, KeepsPassword
  <2>2. ASSUME NEW b \in Attempts, ChangesPassword(b) PROVE TokenUsedOnce'
    <3>1. asked'[b] = asked[b] /\ asked[b].token = account.security
      BY <2>2, Progress DEF ChangesPassword
    <3>2. \A a \in changedBy : asked'[a].token # asked'[b].token
      BY <1>n, <1>p, <1>t, <3>1
    <3>3. QED BY <1>p, <2>2, <3>2 DEF TokenUsedOnce, ChangesPassword
  <2>3. QED BY <2>1, <2>2, AccountStep
<1>3. QED BY <1>1, <1>2

(***************************************************************************)
(* Passwords, log and answers.                                             *)
(***************************************************************************)
LEMMA HadGrows ==
    ASSUME TypeOK, AskedInv, CopyInv, ChangesInv, [Next]_vars
    PROVE  Had \subseteq Had'
<1>1. \A a \in changedBy : a \in Attempts /\ asked'[a] = asked[a]
  BY Progress DEF TypeOK, ChangesInv
<1>2. changedBy \subseteq changedBy'
  BY AccountStep DEF KeepsPassword, ChangesPassword
<1>3. QED BY <1>1, <1>2 DEF Had

\* A login gets past its check with the password of the row.
LEMMA CheckedPassword ==
    ASSUME TypeOK, AskedInv, [Next]_vars, NEW a \in Attempts,
           pc'[a] \in {"resetCount", "logLogin"}
    PROVE  /\ asked'[a] = asked[a]
           /\ pc[a] \in {"resetCount", "logLogin"} \/ asked[a].password = account.password
<1> USE DEF TypeOK, GoTo, Answer, worldVars, Finds, WriteCopy
<1>1. ASSUME NEW b \in Attempts, PasswordRight(b) \/ UpdateUser(b)
      PROVE  /\ asked'[a] = asked[a]
             /\ pc[a] \in {"resetCount", "logLogin"} \/ asked[a].password = account.password
  BY <1>1 DEF PasswordRight, UpdateUser
<1>2. ASSUME NEW b \in Attempts,
             Ask(b) \/ RefuseLockedOut(b) \/ PasswordWrong(b)
             \/ TokenWrong(b) \/ TokenRight(b) \/ UpdateConflict(b) \/ LogUserLoggedIn(b)
             \/ LogUserPasswordReset(b) \/ CheckCode(b) \/ DatabaseFails(b) \/ LogFails(b)
      PROVE  asked'[a] = asked[a] /\ pc[a] \in {"resetCount", "logLogin"}
  BY <1>2 DEF Ask, RefuseLockedOut, PasswordWrong, TokenWrong, TokenRight,
              UpdateConflict, LogUserLoggedIn, LogUserPasswordReset, CheckCode,
              DatabaseFails, LogFails
<1>3. CASE LockoutExpires \/ Crash \/ UNCHANGED vars
  BY <1>3 DEF LockoutExpires, Crash, vars
<1>4. QED BY <1>1, <1>2, <1>3 DEF Next

LEMMA PasswordsStep ==
    ASSUME TypeOK, AskedInv, CopyInv, ChangesInv, PasswordsInv, [Next]_vars
    PROVE  PasswordsInv'
<1>1. account'.password \in Had'
  <2>1. CASE KeepsPassword
    BY <2>1, HadGrows DEF KeepsPassword, PasswordsInv
  <2>2. ASSUME NEW b \in Attempts, ChangesPassword(b) PROVE account'.password \in Had'
    BY <2>2, Progress DEF ChangesPassword, Had
  <2>3. QED BY <2>1, <2>2, AccountStep
<1>2. \A a \in Attempts : pc'[a] \in {"resetCount", "logLogin"} => asked'[a].password \in Had'
  BY CheckedPassword, HadGrows DEF PasswordsInv
<1>3. QED BY <1>1, <1>2 DEF PasswordsInv

\* The log only grows, by what the stage of the request stands for.
LEMMA LogGrows ==
    ASSUME TypeOK, [Next]_vars
    PROVE  /\ userLog \subseteq userLog'
           /\ \A a \in Attempts :
                /\ HasLogged(a, "UserLoggedIn")' =>
                     HasLogged(a, "UserLoggedIn") \/ pc[a] = "logLogin"
                /\ HasLogged(a, "UserPasswordReset")' =>
                     HasLogged(a, "UserPasswordReset") \/ pc[a] = "logReset"
<1> USE DEF worldVars, Finds, WriteCopy, Logged, HasLogged
<1>1. ASSUME NEW b \in Attempts,
             \/ pc[b] = "logLogin" /\ Logged(b, "UserLoggedIn")
             \/ pc[b] = "logReset" /\ Logged(b, "UserPasswordReset")
      PROVE  /\ userLog \subseteq userLog'
             /\ \A a \in Attempts :
                  /\ HasLogged(a, "UserLoggedIn")' =>
                       HasLogged(a, "UserLoggedIn") \/ pc[a] = "logLogin"
                  /\ HasLogged(a, "UserPasswordReset")' =>
                       HasLogged(a, "UserPasswordReset") \/ pc[a] = "logReset"
  BY <1>1
<1>2. ASSUME NEW b \in Attempts,
             LogUserLoggedIn(b) \/ LogUserPasswordReset(b) \/ LogFails(b)
      PROVE  \/ UNCHANGED userLog
             \/ pc[b] = "logLogin" /\ Logged(b, "UserLoggedIn")
             \/ pc[b] = "logReset" /\ Logged(b, "UserPasswordReset")
  BY <1>2 DEF LogUserLoggedIn, LogUserPasswordReset, LogFails
<1>3. ASSUME NEW b \in Attempts,
             Ask(b) \/ RefuseLockedOut(b) \/ PasswordWrong(b) \/ PasswordRight(b)
             \/ TokenWrong(b) \/ TokenRight(b) \/ UpdateUser(b) \/ UpdateConflict(b)
             \/ CheckCode(b) \/ DatabaseFails(b)
      PROVE  UNCHANGED userLog
  BY <1>3 DEF Ask, RefuseLockedOut, PasswordWrong, PasswordRight, TokenWrong, TokenRight,
              UpdateUser, UpdateConflict, CheckCode, DatabaseFails
<1>4. LockoutExpires \/ Crash \/ UNCHANGED vars => UNCHANGED userLog
  BY DEF LockoutExpires, Crash, vars
<1>5. QED BY <1>1, <1>2, <1>3, <1>4 DEF Next

LEMMA LogStep ==
    ASSUME TypeOK, AskedInv, LogInv, [Next]_vars
    PROVE  LogInv'
<1> USE DEF TypeOK, GoTo, Answer, worldVars, Finds
<1>1. ASSUME NEW a \in Attempts, pc'[a] = "idle" PROVE ~ HasLogged(a, "UserLoggedIn")'
  BY <1>1, Progress, LogGrows DEF LogInv
<1>2. ASSUME NEW a \in Attempts, pc'[a] \in {"code", "resetCountAgain"}
      PROVE  pc[a] \in {"code", "resetCountAgain"} \/ HasLogged(a, "UserLoggedIn")'
  <2>1. ASSUME NEW b \in Attempts, LogUserLoggedIn(b)
        PROVE  pc[a] \in {"code", "resetCountAgain"} \/ HasLogged(a, "UserLoggedIn")'
    BY <1>2, <2>1 DEF LogUserLoggedIn, Logged, HasLogged
  <2>2. ASSUME NEW b \in Attempts,
               Ask(b) \/ RefuseLockedOut(b) \/ PasswordWrong(b) \/ PasswordRight(b)
               \/ TokenWrong(b) \/ TokenRight(b) \/ UpdateUser(b) \/ UpdateConflict(b)
               \/ LogUserPasswordReset(b) \/ CheckCode(b) \/ DatabaseFails(b) \/ LogFails(b)
        PROVE  pc[a] \in {"code", "resetCountAgain"}
    BY <1>2, <2>2 DEF Ask, RefuseLockedOut, PasswordWrong, PasswordRight, TokenWrong, TokenRight,
                      UpdateUser, UpdateConflict, LogUserPasswordReset, CheckCode,
                      DatabaseFails, LogFails
  <2>3. CASE LockoutExpires \/ Crash \/ UNCHANGED vars
    BY <1>2, <2>3 DEF LockoutExpires, Crash, vars
  <2>4. QED BY <2>1, <2>2, <2>3 DEF Next
<1>3. ASSUME NEW a \in Attempts, pc'[a] \in {"code", "resetCountAgain"}
      PROVE  HasLogged(a, "UserLoggedIn")'
  BY <1>2, <1>3, LogGrows DEF LogInv, HasLogged
<1>4. QED BY <1>1, <1>3 DEF LogInv

LEMMA TruthStep ==
    ASSUME TypeOK, AskedInv, CopyInv, ChangesInv, PasswordsInv, LogInv, LogTellsTheTruth,
           [Next]_vars
    PROVE  LogTellsTheTruth'
<1>1. LogTellsTheTruth <=>
        \A a \in Attempts :
          /\ HasLogged(a, "UserPasswordReset") => a \in changedBy
          /\ HasLogged(a, "UserLoggedIn") => asked[a].password \in Had
  BY DEF LogTellsTheTruth, Had
<1>2. LogTellsTheTruth' <=>
        \A a \in Attempts :
          /\ HasLogged(a, "UserPasswordReset")' => a \in changedBy'
          /\ HasLogged(a, "UserLoggedIn")' => asked'[a].password \in Had'
  BY DEF LogTellsTheTruth, Had
<1>3. changedBy \subseteq changedBy'
  BY AccountStep DEF KeepsPassword, ChangesPassword
<1>4. ASSUME NEW a \in Attempts, HasLogged(a, "UserPasswordReset")' PROVE a \in changedBy'
  BY <1>1, <1>3, <1>4, LogGrows DEF ChangesInv
<1>5. ASSUME NEW a \in Attempts, HasLogged(a, "UserLoggedIn")'
      PROVE  asked'[a].password \in Had'
  <2>1. pc[a] # "idle" /\ asked[a].password \in Had
    BY <1>1, <1>5, LogGrows DEF LogInv, PasswordsInv
  <2>2. QED BY <2>1, Progress, HadGrows
<1>6. QED BY <1>2, <1>4, <1>5

\* What an answer is worth in the step that gives it.
LEMMA AnswerStep ==
    ASSUME TypeOK, AskedInv, CopyInv, ChangesInv, LogInv, [Next]_vars, NEW a \in Attempts
    PROVE  \/ answer'[a] = answer[a]
           \/ answer'[a] \in {"ServerError", "Lost"}
           \/ answer'[a] = "Refused" /\ pc[a] \notin {"changePassword", "logReset", "done"}
           \/ answer'[a] = "Refused" /\ UNCHANGED changedBy /\ pc[a] \notin {"logReset", "done"}
           \/ answer'[a] = "OK" /\ asked[a] \in Login /\ HasLogged(a, "UserLoggedIn")'
           \/ /\ answer'[a] = "OK" /\ pc[a] = "logReset" /\ asked[a] \in Reset
              /\ HasLogged(a, "UserPasswordReset")'
<1> USE DEF TypeOK, GoTo, Answer, worldVars, Finds, WriteCopy, Writes, Logs
<1>1. ASSUME NEW b \in Attempts,
             RefuseLockedOut(b) \/ TokenWrong(b) \/ UpdateConflict(b)
      PROVE  \/ answer'[a] = answer[a]
             \/ answer'[a] = "Refused" /\ UNCHANGED changedBy /\ pc[a] \notin {"logReset", "done"}
  BY <1>1 DEF RefuseLockedOut, TokenWrong, UpdateConflict
<1>2. ASSUME NEW b \in Attempts,
             Ask(b) \/ PasswordWrong(b) \/ PasswordRight(b) \/ TokenRight(b)
      PROVE  answer'[a] = answer[a]
  BY <1>2 DEF Ask, PasswordWrong, PasswordRight, TokenRight
<1>3. ASSUME NEW b \in Attempts, UpdateUser(b)
      PROVE  \/ answer'[a] = answer[a]
             \/ answer'[a] = "Refused" /\ pc[a] \notin {"changePassword", "logReset", "done"}
             \/ answer'[a] = "OK" /\ pc[a] = "resetCountAgain"
  BY <1>3 DEF UpdateUser
<1>4. pc[a] \in {"resetCountAgain", "code"} =>
        asked[a] \in Login /\ HasLogged(a, "UserLoggedIn")'
  BY LogGrows DEF AskedInv, LogInv, LoginStages, HasLogged
<1>5. ASSUME NEW b \in Attempts, CheckCode(b)
      PROVE  answer'[a] = answer[a] \/ (answer'[a] = "OK" /\ pc[a] = "code")
  BY <1>5 DEF CheckCode
<1>6. ASSUME NEW b \in Attempts, LogUserLoggedIn(b)
      PROVE  \/ answer'[a] = answer[a]
             \/ answer'[a] = "Refused" /\ UNCHANGED changedBy /\ pc[a] \notin {"logReset", "done"}
             \/ answer'[a] = "OK" /\ asked[a] \in Login /\ HasLogged(a, "UserLoggedIn")'
  BY <1>6 DEF LogUserLoggedIn, Logged, HasLogged, AskedInv, LoginStages
<1>7. ASSUME NEW b \in Attempts, LogUserPasswordReset(b)
      PROVE  \/ answer'[a] = answer[a]
             \/ /\ answer'[a] = "OK" /\ pc[a] = "logReset" /\ asked[a] \in Reset
                /\ HasLogged(a, "UserPasswordReset")'
  BY <1>7 DEF LogUserPasswordReset, Logged, HasLogged, AskedInv, ResetStages
<1>8. ASSUME NEW b \in Attempts, DatabaseFails(b) \/ LogFails(b)
      PROVE  answer'[a] = answer[a] \/ answer'[a] = "ServerError"
  BY <1>8 DEF DatabaseFails, LogFails
<1>9. LockoutExpires \/ Crash \/ UNCHANGED vars => answer'[a] \in {answer[a], "Lost"}
  BY DEF LockoutExpires, Crash, vars
<1>10. QED
  BY <1>1, <1>2, <1>3, <1>4, <1>5, <1>6, <1>7, <1>8, <1>9 DEF Next

LEMMA AnswersStep ==
    ASSUME TypeOK, AskedInv, CopyInv, ChangesInv, LogInv, AnswersAreTrue, [Next]_vars
    PROVE  AnswersAreTrue'
<1> SUFFICES ASSUME NEW a \in Attempts
             PROVE  /\ answer'[a] = "OK" /\ asked'[a].kind = "login" => HasLogged(a, "UserLoggedIn")'
                    /\ answer'[a] = "OK" /\ asked'[a].kind = "reset" =>
                         a \in changedBy' /\ HasLogged(a, "UserPasswordReset")'
                    /\ answer'[a] = "Refused" => a \notin changedBy'
  BY DEF AnswersAreTrue
<1>k. /\ asked[a] \in Login => asked[a].kind = "login"
      /\ asked[a] \in Reset => asked[a].kind = "reset"
  BY DEF Login, Reset
<1>g. changedBy \subseteq changedBy' /\ userLog \subseteq userLog'
  BY AccountStep, LogGrows DEF KeepsPassword, ChangesPassword
<1>c. a \in changedBy' => a \in changedBy \/ pc[a] = "changePassword"
  BY AccountStep DEF KeepsPassword, ChangesPassword
<1>1. CASE answer'[a] = answer[a]
  <2>1. CASE pc[a] = "done"
    BY <1>1, <1>c, <1>g, <2>1, Progress DEF AnswersAreTrue, HasLogged
  <2>2. CASE pc[a] # "done"
    BY <1>1, <2>2 DEF AskedInv
  <2>3. QED BY <2>1, <2>2
<1>2. CASE answer'[a] \in {"ServerError", "Lost"}
  BY <1>2
<1>3. CASE answer'[a] = "Refused" /\ pc[a] \notin {"changePassword", "logReset", "done"}
  BY <1>3, <1>c DEF ChangesInv
<1>4. CASE answer'[a] = "Refused" /\ UNCHANGED changedBy /\ pc[a] \notin {"logReset", "done"}
  BY <1>4 DEF ChangesInv
<1>5. CASE answer'[a] = "OK" /\ asked[a] \in Login /\ HasLogged(a, "UserLoggedIn")'
  <2>1. pc[a] # "idle"
    BY <1>5, SignInAssumption DEF AskedInv
  <2>2. QED BY <1>5, <1>k, <2>1, Progress
<1>6. CASE /\ answer'[a] = "OK" /\ pc[a] = "logReset" /\ asked[a] \in Reset
           /\ HasLogged(a, "UserPasswordReset")'
  BY <1>6, <1>k, <1>g, Progress DEF ChangesInv
<1>7. QED BY <1>1, <1>2, <1>3, <1>4, <1>5, <1>6, AnswerStep

(***************************************************************************)
(* The theorems on safety.                                                 *)
(***************************************************************************)

\* The invariant holds initially and every step of any request keeps it.
THEOREM SignInInductive == Spec => []IInv
<1>1. Init => IInv
  <2> SUFFICES ASSUME Init PROVE IInv
    OBVIOUS
  <2>1. NewAccount \in Row
    BY SignInAssumption DEF NewAccount, Row
  <2>2. TypeOK
    BY <2>1 DEF Init, TypeOK, Stages
  <2>3. AskedInv /\ CopyInv /\ ChangesInv /\ LogInv
    BY DEF Init, AskedInv, CopyInv, CopyIsOld, ChangesInv, LogInv, HasLogged, LoginStages, ResetStages
  <2>4. PasswordsInv
    BY DEF Init, PasswordsInv, Had, NewAccount
  <2>5. TokenUsedOnce /\ LogTellsTheTruth /\ AnswersAreTrue
    BY DEF Init, TokenUsedOnce, LogTellsTheTruth, AnswersAreTrue, HasLogged
  <2>6. QED BY <2>2, <2>3, <2>4, <2>5 DEF IInv
<1>2. IInv /\ [Next]_vars => IInv'
  BY TypeStep, AskedStep, CopyStep, ChangesStep, PasswordsStep, LogStep, TruthStep, AnswersStep
     DEF IInv
<1>3. QED BY <1>1, <1>2, PTL DEF Spec

\* Every variable keeps its type; in particular the failures never reach the
\* number that locks the account.
THEOREM SignInTypeCorrect == Spec => []TypeOK
<1>1. IInv => TypeOK
  BY DEF IInv
<1>2. QED BY <1>1, SignInInductive, PTL

\* A reset token changes the password at most once, however many resets use it.
THEOREM TokensAreUsedOnce == Spec => []TokenUsedOnce
<1>1. IInv => TokenUsedOnce
  BY DEF IInv
<1>2. QED BY <1>1, SignInInductive, PTL

\* What the user log says of password changes and logins is true.
THEOREM LogIsTrue == Spec => []LogTellsTheTruth
<1>1. IInv => LogTellsTheTruth
  BY DEF IInv
<1>2. QED BY <1>1, SignInInductive, PTL

\* What clients are told is true.
THEOREM AnswersTrue == Spec => []AnswersAreTrue
<1>1. IInv => AnswersAreTrue
  BY DEF IInv
<1>2. QED BY <1>1, SignInInductive, PTL

\* No write of a stale copy brings back a password, a security stamp or lifts a
\* lockout.
THEOREM NothingIsRestored == Spec => NothingRestored
<1>1. IInv /\ [Next]_vars =>
        [ /\ account'.security >= account.security
          /\ account'.password # account.password => account'.security > account.security
          /\ account'.lockout >= account.lockout ]_vars
  <2> SUFFICES ASSUME IInv, [Next]_vars
               PROVE  /\ account'.security >= account.security
                      /\ account'.password # account.password => account'.security > account.security
                      /\ account'.lockout >= account.lockout
    OBVIOUS
  <2>1. account.security \in Nat
    BY RowFields DEF IInv, TypeOK
  <2>2. QED BY <2>1, AccountStep DEF IInv, KeepsPassword, ChangesPassword
<1>2. QED BY <1>1, SignInInductive, PTL DEF Spec, NothingRestored

-----------------------------------------------------------------------------
(***************************************************************************)
(* The steps of the abstract store.                                        *)
(***************************************************************************)
StoreStep == [Store!StoreNext]_(Store!storeVars)

WishMap == [a \in Attempts |-> WishOf(asked[a])]
StageMap == [a \in Attempts |-> StageOf[pc[a]]]

LEMMA StageValues ==
    /\ StageOf["idle"] = "idle" /\ StageOf["find"] = "waiting"
    /\ StageOf["changePassword"] = "waiting" /\ StageOf["resetCount"] = "known"
    /\ StageOf["logLogin"] = "known" /\ StageOf["code"] = "known"
    /\ StageOf["resetCountAgain"] = "known" /\ StageOf["countFailure"] = "rejected"
    /\ StageOf["logReset"] = "changed" /\ StageOf["done"] = "over"
  BY DEF StageOf

LEMMA Wishes ==
    /\ \A q \in Login : /\ WishOf(q) = [secret |-> q.password, ticket |-> NoAsk]
                        /\ WishOf(q) # NoAsk
                        /\ WishOf(q) \in Store!Wishes
    /\ \A q \in Reset : /\ WishOf(q) = [secret |-> q.password, ticket |-> q.token]
                        /\ WishOf(q) \in Store!Wishes
<1>1. ASSUME NEW q \in Login
      PROVE  /\ WishOf(q) = [secret |-> q.password, ticket |-> NoAsk]
             /\ WishOf(q) # NoAsk
             /\ WishOf(q) \in Store!Wishes
  <2>1. q # NoAsk /\ q.kind = "login" /\ q.password \in Passwords
    BY SignInAssumption DEF Login
  <2>2. WishOf(q) = [secret |-> q.password, ticket |-> NoAsk]
    BY <2>1 DEF WishOf
  <2>3. WishOf(q) \in [secret : Passwords, ticket : Tokens \cup {NoAsk}]
    BY <2>1, <2>2
  <2>4. QED BY <2>2, <2>3, CredentialsAssumption DEF Store!Wishes
<1>2. ASSUME NEW q \in Reset
      PROVE  /\ WishOf(q) = [secret |-> q.password, ticket |-> q.token]
             /\ WishOf(q) \in Store!Wishes
  <2>1. q # NoAsk /\ q.kind = "reset" /\ q.password \in Passwords /\ q.token \in Tokens
    BY SignInAssumption DEF Reset
  <2>2. WishOf(q) = [secret |-> q.password, ticket |-> q.token]
    BY <2>1 DEF WishOf
  <2>3. QED BY <2>1, <2>2 DEF Store!Wishes
<1>3. QED BY <1>1, <1>2

\* The wish and the stage of a request, as the store sees them.
LEMMA Seen ==
    ASSUME TypeOK, AskedInv, NEW a \in Attempts
    PROVE  /\ asked[a] \in Login =>
                /\ WishMap[a].secret = asked[a].password /\ WishMap[a].ticket = NoAsk
                /\ WishMap[a] # NoAsk
           /\ asked[a] \in Reset =>
                /\ WishMap[a].secret = asked[a].password
                /\ WishMap[a].ticket = asked[a].token
           /\ StageMap[a] = StageOf[pc[a]]
<1>1. WishMap[a] = WishOf(asked[a]) /\ StageMap[a] = StageOf[pc[a]]
  BY DEF WishMap, StageMap
<1>2. QED BY <1>1, Wishes

LEMMA StageMoves ==
    ASSUME TypeOK, NEW a \in Attempts, NEW to \in Stages, pc' = [pc EXCEPT ![a] = to]
    PROVE  StageMap' = [StageMap EXCEPT ![a] = StageOf[to]]
  BY DEF TypeOK, StageMap

\* A step that the store does not see.
LEMMA StoreStutters ==
    ASSUME account'.password = account.password, account'.security = account.security,
           asked' = asked, StageMap' = StageMap, answer' = answer
    PROVE  StoreStep
  BY DEF StoreStep, Store!storeVars, WishMap, StageMap

LEMMA AskMaps ==
    ASSUME TypeOK, AskedInv, NEW a \in Attempts, Ask(a)
    PROVE  StoreStep
<1>1. PICK q \in Login \cup Reset : asked' = [asked EXCEPT ![a] = q]
  BY DEF Ask
<1>2. StageMap[a] = "idle" /\ StageMap' = [StageMap EXCEPT ![a] = "waiting"]
  BY StageValues, StageMoves DEF Ask, GoTo, Stages, StageMap
<1>3. WishMap' = [WishMap EXCEPT ![a] = WishOf(q)] /\ WishOf(q) \in Store!Wishes
  BY <1>1, Wishes DEF TypeOK, WishMap
<1>4. Store!Ask(a)
  BY <1>2, <1>3 DEF Ask, GoTo, Store!Ask, Store!Move, StageMap, WishMap
<1>5. QED BY <1>4 DEF StoreStep, Store!StoreNext

\* The check of a password: right is Recognize, wrong is Reject.
LEMMA CheckMaps ==
    ASSUME TypeOK, AskedInv, NEW a \in Attempts, PasswordWrong(a) \/ PasswordRight(a)
    PROVE  StoreStep
<1>1. pc[a] = "find" /\ asked[a] \in Login /\ UNCHANGED <<account, asked, answer>>
  BY WishTypes DEF PasswordWrong, PasswordRight, Finds, GoTo, worldVars
<1>2. StageMap[a] = "waiting" /\ WishMap[a].ticket = NoAsk /\ WishMap[a] # NoAsk
      /\ WishMap[a].secret = asked[a].password
  BY <1>1, Seen, StageValues
<1>3. CASE PasswordWrong(a)
  <2>1. StageMap' = [StageMap EXCEPT ![a] = "rejected"]
    BY <1>3, StageValues, StageMoves DEF PasswordWrong, GoTo, Stages
  <2>2. Store!Reject(a)
    BY <1>1, <1>2, <2>1 DEF Store!Reject, Store!Move, StageMap, WishMap
  <2>3. QED BY <2>2 DEF StoreStep, Store!StoreNext
<1>4. CASE PasswordRight(a)
  <2>1. StageMap' = [StageMap EXCEPT ![a] = "known"]
    BY <1>4, StageValues, StageMoves DEF PasswordRight, GoTo, Stages
  <2>2. Store!Recognize(a)
    BY <1>1, <1>2, <1>4, <2>1 DEF PasswordRight, Store!Recognize, Store!Move, StageMap, WishMap
  <2>3. QED BY <2>2 DEF StoreStep, Store!StoreNext
<1>5. QED BY <1>3, <1>4

\* The end of a request, whatever it is told.
LEMMA EndMaps ==
    ASSUME TypeOK, AskedInv, NEW a \in Attempts, pc[a] \notin {"idle", "done"},
           NEW status, Answer(a, status), asked' = asked
    PROVE  Store!Finish(a) /\ Store!Tell(a, status)
<1>1. StageMap' = [StageMap EXCEPT ![a] = "over"]
  BY StageValues, StageMoves DEF Answer, Stages
<1>2. StageMap[a] \notin {"idle", "over"}
  BY StageValues, Seen DEF TypeOK, Stages
<1>3. QED
  BY <1>1, <1>2 DEF Answer, Store!Finish, Store!InProgress, Store!Tell, StageMap, WishMap

LEMMA RefuseMaps ==
    ASSUME TypeOK, AskedInv, NEW a \in Attempts, pc[a] \notin {"idle", "logReset", "done"},
           Answer(a, "Refused"), asked' = asked,
           account'.password = account.password, account'.security = account.security
    PROVE  StoreStep
<1>1. StageMap[a] # "changed"
  BY StageValues, Seen DEF TypeOK, Stages
<1>2. Store!Refuse(a)
  BY <1>1, EndMaps DEF Store!Refuse, StageMap
<1>3. QED BY <1>2 DEF StoreStep, Store!StoreNext, Store!Decide

LEMMA AcceptMaps ==
    ASSUME TypeOK, AskedInv, NEW a \in Attempts,
           pc[a] \in {"logLogin", "code", "resetCountAgain", "logReset"},
           Answer(a, "OK"), asked' = asked,
           account'.password = account.password, account'.security = account.security
    PROVE  StoreStep
<1>1. StageMap[a] \in {"known", "changed"}
  BY StageValues, Seen
<1>2. Store!Accept(a)
  BY <1>1, EndMaps DEF Store!Accept, StageMap
<1>3. QED BY <1>2 DEF StoreStep, Store!StoreNext, Store!Decide

LEMMA BreakMaps ==
    ASSUME TypeOK, AskedInv, NEW a \in Attempts, pc[a] \notin {"idle", "done"},
           Answer(a, "ServerError"), asked' = asked,
           account'.password = account.password, account'.security = account.security
    PROVE  StoreStep
<1>1. Store!Break(a)
  BY EndMaps DEF Store!Break
<1>2. QED BY <1>1 DEF StoreStep, Store!StoreNext, Store!Decide

\* The write of a new password takes the ticket in the same step.
LEMMA TakesTicket ==
    ASSUME TypeOK, AskedInv, CopyInv, NEW a \in Attempts, pc[a] = "changePassword",
           WriteCopy(a)
    PROVE  Store!TakeTicket(a) /\ asked' = asked
<1>1. asked[a] \in Reset
  BY DEF AskedInv, ResetStages
<1>2. StageMap[a] = "waiting" /\ WishMap[a].secret = asked[a].password
      /\ WishMap[a].ticket = asked[a].token
  BY <1>1, Seen, StageValues
<1>3. /\ account'.password = asked[a].password
      /\ account'.security = account.security + 1
      /\ asked[a].token = account.security
      /\ asked' = asked
  BY Written DEF Writes
<1>4. QED BY <1>2, <1>3 DEF Store!TakeTicket, StageMap, WishMap

LEMMA WriteMaps ==
    ASSUME TypeOK, AskedInv, CopyInv, NEW a \in Attempts, UpdateUser(a)
    PROVE  StoreStep
<1>1. pc[a] \in Writes /\ WriteCopy(a) /\ asked' = asked
  BY DEF UpdateUser, Writes, WriteCopy, worldVars
<1>2. CASE pc[a] = "changePassword"
  <2>1. GoTo(a, "logReset")
    BY <1>2 DEF UpdateUser
  <2>2. StageMap[a] = "waiting"
    BY <1>2, StageValues DEF StageMap
  <2>3. StageMap' = [StageMap EXCEPT ![a] = "changed"]
    BY <2>1, StageValues, StageMoves DEF GoTo, Stages
  <2>4. Store!Change(a)
    BY <1>1, <1>2, <2>1, <2>2, <2>3, TakesTicket
       DEF Store!Change, Store!Move, StageMap, WishMap, GoTo
  <2>5. QED BY <2>4 DEF StoreStep, Store!StoreNext
<1>3. CASE pc[a] # "changePassword"
  <2>1. account'.password = account.password /\ account'.security = account.security
    BY <1>1, <1>3, Written
  <2>2. CASE pc[a] = "resetCount"
    <3>1. StageMap' = [StageMap EXCEPT ![a] = "known"] /\ StageMap[a] = "known"
      BY <2>2, StageValues, StageMoves, Seen DEF UpdateUser, GoTo, Stages
    <3>2. StageMap' = StageMap
      BY <3>1 DEF StageMap
    <3>3. QED BY <1>1, <2>1, <2>2, <3>2, StoreStutters DEF UpdateUser, GoTo
  <2>3. CASE pc[a] = "countFailure"
    BY <1>1, <2>1, <2>3, RefuseMaps DEF UpdateUser
  <2>4. CASE pc[a] = "resetCountAgain"
    BY <1>1, <2>1, <2>4, AcceptMaps DEF UpdateUser
  <2>5. QED BY <1>1, <1>3, <2>2, <2>3, <2>4 DEF Writes
<1>4. QED BY <1>2, <1>3

LEMMA CodeMaps ==
    ASSUME TypeOK, AskedInv, NEW a \in Attempts, CheckCode(a)
    PROVE  StoreStep
<1>1. pc[a] = "code" /\ asked[a] \in Login /\ UNCHANGED <<account, asked>>
  BY DEF CheckCode, AskedInv, LoginStages, worldVars
<1>2. StageMap[a] = "known" /\ WishMap[a].ticket = NoAsk /\ WishMap[a] # NoAsk
  BY <1>1, Seen, StageValues
<1>3. CASE GoTo(a, "countFailure")
  <2>1. StageMap' = [StageMap EXCEPT ![a] = "rejected"]
    BY <1>3, StageValues, StageMoves DEF GoTo, Stages
  <2>2. Store!Reject(a)
    BY <1>1, <1>2, <1>3, <2>1 DEF Store!Reject, Store!Move, StageMap, WishMap, GoTo
  <2>3. QED BY <2>2 DEF StoreStep, Store!StoreNext
<1>4. CASE GoTo(a, "resetCountAgain")
  <2>1. StageMap' = [StageMap EXCEPT ![a] = "known"]
    BY <1>4, StageValues, StageMoves DEF GoTo, Stages
  <2>2. StageMap' = StageMap
    BY <1>2, <2>1 DEF StageMap
  <2>3. QED BY <1>1, <1>4, <2>2, StoreStutters DEF GoTo
<1>5. CASE Answer(a, "OK")
  BY <1>1, <1>5, AcceptMaps
<1>6. QED BY <1>3, <1>4, <1>5 DEF CheckCode

LEMMA LoggedInMaps ==
    ASSUME TypeOK, AskedInv, NEW a \in Attempts, LogUserLoggedIn(a)
    PROVE  StoreStep
<1>1. pc[a] = "logLogin" /\ UNCHANGED <<account, asked>>
  BY DEF LogUserLoggedIn, worldVars
<1>2. CASE GoTo(a, "code")
  <2>1. StageMap' = [StageMap EXCEPT ![a] = "known"]
    BY <1>2, StageValues, StageMoves DEF GoTo, Stages
  <2>2. StageMap[a] = "known"
    BY <1>1, StageValues DEF StageMap
  <2>3. StageMap' = StageMap
    BY <2>1, <2>2 DEF StageMap
  <2>4. QED BY <1>1, <1>2, <2>3, StoreStutters DEF GoTo
<1>3. QED
  BY <1>1, <1>2, AcceptMaps, RefuseMaps DEF LogUserLoggedIn

\* Whoever is in flight is who the store has in progress.
LEMMA CrashMaps ==
    ASSUME TypeOK, AskedInv, Crash
    PROVE  StoreStep
<1>1. \A a \in Attempts : StageMap[a] \notin {"idle", "over"} <=> a \in InFlight
  <2> SUFFICES ASSUME NEW a \in Attempts
               PROVE  StageMap[a] \notin {"idle", "over"} <=> pc[a] \notin {"idle", "done"}
    BY DEF InFlight
  <2>1. pc[a] \in Stages /\ StageMap[a] = StageOf[pc[a]]
    BY DEF TypeOK, StageMap
  <2>2. QED BY <2>1, StageValues DEF Stages
<1>2. StageMap' = [a \in Attempts |-> IF a \in InFlight THEN "over" ELSE StageMap[a]]
  BY StageValues DEF Crash, StageMap
<1>3. /\ \E a \in Attempts : a \in InFlight
      /\ answer' = [a \in Attempts |-> IF a \in InFlight THEN "Lost" ELSE answer[a]]
      /\ UNCHANGED <<account, asked>>
  BY DEF Crash, InFlight, worldVars
<1>4. Store!Lose
  BY <1>1, <1>2, <1>3 DEF Store!Lose, Store!InProgress, StageMap, WishMap
<1>5. QED BY <1>4 DEF StoreStep, Store!StoreNext

LEMMA SignInStepMaps == IInv /\ [Next]_vars => StoreStep
<1> SUFFICES ASSUME TypeOK, AskedInv, CopyInv, [Next]_vars PROVE StoreStep
  BY DEF IInv
<1>1. ASSUME NEW a \in Attempts,
             RefuseLockedOut(a) \/ TokenWrong(a) \/ UpdateConflict(a)
      PROVE  StoreStep
  <2>1. /\ pc[a] \notin {"idle", "logReset", "done"}
        /\ Answer(a, "Refused") /\ UNCHANGED <<account, asked>>
    BY <1>1 DEF RefuseLockedOut, TokenWrong, UpdateConflict, Finds, worldVars, Writes
  <2>2. QED BY <2>1, RefuseMaps
<1>2. ASSUME NEW a \in Attempts, TokenRight(a) PROVE StoreStep
  <2>1. /\ pc[a] = "find" /\ GoTo(a, "changePassword")
        /\ UNCHANGED <<account, asked>>
    BY <1>2 DEF TokenRight, Finds, worldVars
  <2>2. StageMap' = [StageMap EXCEPT ![a] = "waiting"]
    BY <2>1, StageValues, StageMoves DEF GoTo, Stages
  <2>3. StageMap[a] = "waiting"
    BY <2>1, StageValues DEF StageMap
  <2>4. StageMap' = StageMap
    BY <2>2, <2>3 DEF StageMap
  <2>5. QED BY <2>1, <2>4, StoreStutters DEF GoTo
<1>3. ASSUME NEW a \in Attempts, LogUserPasswordReset(a) PROVE StoreStep
  BY <1>3, AcceptMaps DEF LogUserPasswordReset, worldVars
<1>4. ASSUME NEW a \in Attempts, LogFails(a) PROVE StoreStep
  <2>1. pc[a] \in Logs /\ Answer(a, "ServerError") /\ UNCHANGED <<account, asked>>
    BY <1>4 DEF LogFails, Logs, worldVars
  <2>2. QED BY <2>1, BreakMaps DEF Logs
<1>5. ASSUME NEW a \in Attempts, DatabaseFails(a) PROVE StoreStep
  <2>1. pc[a] \in Writes /\ Answer(a, "ServerError") /\ asked' = asked
    BY <1>5 DEF DatabaseFails, WriteCopy, worldVars
  <2>2. CASE WriteCopy(a) /\ pc[a] = "changePassword"
    <3>1. Store!Break(a)
      BY <2>1, <2>2, EndMaps, TakesTicket DEF Store!Break
    <3>2. QED BY <3>1 DEF StoreStep, Store!StoreNext, Store!Decide
  <2>3. CASE WriteCopy(a) /\ pc[a] # "changePassword"
    BY <2>1, <2>3, Written, BreakMaps DEF Writes
  <2>4. CASE UNCHANGED account
    BY <2>1, <2>4, BreakMaps DEF Writes
  <2>5. QED BY <1>5, <2>2, <2>3, <2>4 DEF DatabaseFails
<1>6. CASE LockoutExpires \/ UNCHANGED vars
  <2>1. UNCHANGED <<account, asked, pc, answer>>
    BY <1>6 DEF LockoutExpires, vars
  <2>2. QED BY <2>1, StoreStutters DEF StageMap
<1>7. QED
  BY <1>1, <1>2, <1>3, <1>4, <1>5, <1>6, AskMaps, CheckMaps, WriteMaps, CodeMaps, LoggedInMaps,
     CrashMaps DEF Next

\* The endpoints implement the store: although every request works on a copy of
\* the row, a login is accepted for a password that was right at one moment while
\* it ran, a password changes in one step for a ticket that is good in that step,
\* and who is refused changed nothing.
THEOREM SignInImplementsStore == Spec => ImplementsCredentials
<1>1. Init => Store!StoreInit
  <2> SUFFICES ASSUME Init PROVE Store!StoreInit
    OBVIOUS
  <2>1. account.password = InitialPassword /\ account.security = 0
    BY DEF Init, NewAccount
  <2>2. WishMap = [a \in Attempts |-> NoAsk] /\ StageMap = [a \in Attempts |-> "idle"]
    BY StageValues DEF Init, WishMap, WishOf, StageMap
  <2>3. QED BY <2>1, <2>2 DEF Init, Store!StoreInit, WishMap, StageMap
<1>2. IInv /\ [Next]_vars => [Store!StoreNext]_(Store!storeVars)
  BY SignInStepMaps DEF StoreStep
<1>3. QED
  BY <1>1, <1>2, SignInInductive, PTL DEF Spec, ImplementsCredentials, Store!StoreSpec
=============================================================================
