---------------------------- MODULE RegisterProofs ----------------------------
(***************************************************************************)
(* Theorems about Register, for any number of requests, any addresses, any *)
(* bound on failed sign-ins and every combination of faults.               *)
(***************************************************************************)
EXTENDS Register, TLAPS

USE DEF Requests

(***************************************************************************)
(* Type correctness.                                                       *)
(***************************************************************************)
LEMMA EntryTypes ==
    ASSUME NEW e \in Entries
    PROVE  Reverted(e) \in Entries /\ Saved(e) \in Entries
<1>1. Reverted(e) \in Entries
  BY DEF Entries, EntityStates, Reverted
<1>2. Saved(e) \in Entries
  BY DEF Entries, EntityStates, Saved
<1>3. QED BY <1>1, <1>2

LEMMA InitType == Init => TypeOK
  BY DEF Init, TypeOK, AccountsInit, AccountsTypeOK, NewUser, Entries, EntityStates, Stages, Responses

LEMMA RowTypes ==
    ASSUME AccountsTypeOK
    PROVE  /\ \A u \in Registered : u \in UserIds /\ users[u] \in Row
           /\ \A u \in UserIds, s \in Nat, f \in Nat :
                 UpdateRow(u, s, f) => users' \in [UserIds -> Row \cup {NoRow}]
           /\ \A u \in UserIds, e \in Emails :
                 InsertRow(u, e) => users' \in [UserIds -> Row \cup {NoRow}]
<1>1. \A u \in Registered : u \in UserIds /\ users[u] \in Row
  BY DEF AccountsTypeOK, Registered
<1>2. \A u \in UserIds, s \in Nat, f \in Nat :
         UpdateRow(u, s, f) => users' \in [UserIds -> Row \cup {NoRow}]
  BY <1>1 DEF AccountsTypeOK, UpdateRow, WithRow, StampMatches, Row
<1>3. \A u \in UserIds, e \in Emails :
         InsertRow(u, e) => users' \in [UserIds -> Row \cup {NoRow}]
  BY DEF AccountsTypeOK, InsertRow, Row
<1>4. QED BY <1>1, <1>2, <1>3

(***************************************************************************)
(* What the two writing statements do to the table, in the proofs' terms.  *)
(***************************************************************************)
OnlyRow(u, row) ==
    /\ users'[u] = row
    /\ \A v \in UserIds : v # u => users'[v] = users[v]

RowAdded(u, e) ==
    /\ OnlyRow(u, [email |-> e, stamp |-> 0, failed |-> 0])
    /\ Registered' = Registered \cup {u}

RowRewritten(u, failed) ==
    /\ u \in Registered
    /\ OnlyRow(u, [email |-> users[u].email, stamp |-> users[u].stamp + 1, failed |-> failed])
    /\ Registered' = Registered

LEMMA Inserted ==
    ASSUME AccountsTypeOK, NEW u \in UserIds, NEW e \in Emails, InsertRow(u, e)
    PROVE  RowAdded(u, e)
<1>1. [email |-> e, stamp |-> 0, failed |-> 0] # NoRow
  BY NoRowAssumption DEF Row
<1>2. QED
  BY <1>1 DEF AccountsTypeOK, InsertRow, Registered, RowAdded, OnlyRow

LEMMA Updated ==
    ASSUME AccountsTypeOK, NEW u \in UserIds, NEW s \in Nat, NEW f \in Nat,
           UpdateRow(u, s, f)
    PROVE  users[u].stamp = s /\ RowRewritten(u, f)
<1>1. [email |-> users[u].email, stamp |-> s + 1, failed |-> f] # NoRow
  BY NoRowAssumption DEF AccountsTypeOK, UpdateRow, StampMatches, Registered, Row
<1>2. QED
  BY <1>1 DEF AccountsTypeOK, UpdateRow, WithRow, StampMatches, Registered, RowRewritten, OnlyRow

LEMMA LogType ==
    ASSUME AccountsTypeOK, NEW u \in UserIds, LogUserEvent("UserCreated", u)
    PROVE  audit' \subseteq LogEntry
  BY DEF AccountsTypeOK, LogUserEvent, LogEntry, UserEventType

LEMMA TypeStep == TypeOK /\ RowsInv /\ [Next]_vars => TypeOK'
<1> SUFFICES ASSUME TypeOK, RowsInv, [Next]_vars PROVE TypeOK'
  OBVIOUS
<1> USE RegisterAssumption DEF TypeOK, Stages, Responses, GoTo, Answer, InFlight
<1>a. AccountsTypeOK
  OBVIOUS
<1>b. \A r \in Requests : tracked[r] \in Entries /\ tracked[r].stamp \in Nat /\ tracked[r].failed \in Nat
  BY DEF Entries
<1>c. ASSUME NEW r \in Requests, tracked' = [tracked EXCEPT ![r] = Reverted(@)]
      PROVE  tracked' \in [Requests -> Entries]
  BY <1>b, <1>c, EntryTypes
<1>d. ASSUME NEW r \in Requests, pc[r] = "insert" PROVE command[r].email \in Emails
  BY <1>d DEF RowsInv, Commands
<1>1. ASSUME NEW r \in Requests, Receive(r) PROVE TypeOK'
  BY <1>1 DEF Receive, AccountsTypeOK
<1>2. ASSUME NEW r \in Requests, RejectBody(r) PROVE TypeOK'
  BY <1>2 DEF RejectBody, AccountsTypeOK
<1>3. ASSUME NEW r \in Requests, RejectInvalid(r) PROVE TypeOK'
  BY <1>3, <1>c DEF RejectInvalid, Throw, AccountsTypeOK
<1>4. ASSUME NEW r \in Requests, RejectRule(r) PROVE TypeOK'
  BY <1>4, <1>c DEF RejectRule, Throw, AccountsTypeOK
<1>5. ASSUME NEW r \in Requests, RejectIdentity(r) PROVE TypeOK'
  BY <1>5 DEF RejectIdentity, AccountsTypeOK
<1>6. ASSUME NEW r \in Requests, BuildUser(r) PROVE TypeOK'
  BY <1>6 DEF BuildUser, AccountsTypeOK
<1>7. ASSUME NEW r \in Requests, RejectDuplicate(r) PROVE TypeOK'
  BY <1>7 DEF RejectDuplicate, AccountsTypeOK
<1>8. ASSUME NEW r \in Requests, TrackUser(r) PROVE TypeOK'
  BY <1>8 DEF TrackUser, AccountsTypeOK, Entries, EntityStates
<1>9. ASSUME NEW r \in Requests, InsertUser(r) PROVE TypeOK'
  <2>1. users' \in [UserIds -> Row \cup {NoRow}]
    BY <1>9, <1>a, <1>d, RowTypes DEF InsertUser
  <2>2. tracked' \in [Requests -> Entries]
    BY <1>9, <1>b DEF InsertUser, Entries, EntityStates
  <2>3. QED
    BY <1>9, <2>1, <2>2 DEF InsertUser, AccountsTypeOK
<1>10. ASSUME NEW r \in Requests, InsertRefused(r) PROVE TypeOK'
  BY <1>10, <1>c DEF InsertRefused, Throw, AccountsTypeOK
<1>11. ASSUME NEW r \in Requests, UpdateUser(r) PROVE TypeOK'
  <2>1. users' \in [UserIds -> Row \cup {NoRow}]
    BY <1>11, <1>a, <1>b, RowTypes DEF UpdateUser
  <2>2. tracked' \in [Requests -> Entries]
    BY <1>11, <1>b DEF UpdateUser, Entries, EntityStates
  <2>3. QED
    BY <1>11, <2>1, <2>2 DEF UpdateUser, AccountsTypeOK
<1>12. ASSUME NEW r \in Requests, UpdateConflict(r) PROVE TypeOK'
  BY <1>12 DEF UpdateConflict, AccountsTypeOK, Entries, EntityStates
<1>13. ASSUME NEW r \in Requests, LogUserCreated(r) PROVE TypeOK'
  BY <1>13, <1>a, LogType DEF LogUserCreated, AccountsTypeOK
<1>14. ASSUME NEW r \in Requests, LogUserCreatedFails(r) PROVE TypeOK'
  BY <1>14, <1>c, <1>a, LogType DEF LogUserCreatedFails, Throw, AccountsTypeOK
<1>15. ASSUME NEW r \in Requests, Commit(r) PROVE TypeOK'
  <2>1. users' \in [UserIds -> Row \cup {NoRow}]
    BY <1>15, <1>a, <1>b, RowTypes DEF Commit, Current, UpdateRow, AccountsTypeOK
  <2>2. tracked' \in [Requests -> Entries]
    BY <1>15, <1>b, EntryTypes DEF Commit
  <2>3. QED
    BY <1>15, <2>1, <2>2 DEF Commit, AccountsTypeOK
<1>16. ASSUME NEW r \in Requests, CommitConflict(r) PROVE TypeOK'
  BY <1>16, <1>c DEF CommitConflict, Throw, AccountsTypeOK
<1>17. ASSUME NEW r \in Requests, StatementLost(r) PROVE TypeOK'
  BY <1>17, <1>c DEF StatementLost, Throw, AccountsTypeOK
<1>18. ASSUME NEW r \in Requests, AnswerLost(r) PROVE TypeOK'
  <2>1. users' \in [UserIds -> Row \cup {NoRow}]
    BY <1>18, <1>a, <1>b, <1>d, RowTypes DEF AnswerLost
  <2>2. QED
    BY <1>18, <1>c, <2>1 DEF AnswerLost, Throw, AccountsTypeOK
<1>19. ASSUME NEW r \in Requests, FailedSignIn(r) PROVE TypeOK'
  <2>1. users[r].stamp \in Nat /\ users[r].failed + 1 \in Nat
    BY <1>19, <1>a, RowTypes DEF FailedSignIn, Row
  <2>2. users' \in [UserIds -> Row \cup {NoRow}]
    BY <1>19, <1>a, <2>1, RowTypes DEF FailedSignIn, AccessFailed
  <2>3. QED
    BY <1>19, <2>2 DEF FailedSignIn, AccessFailed, requestVars, AccountsTypeOK
<1>20. ASSUME Crash PROVE TypeOK'
  BY <1>20 DEF Crash, AccountsTypeOK
<1>21. ASSUME UNCHANGED vars PROVE TypeOK'
  BY <1>21 DEF vars, AccountsTypeOK
<1> QED
  BY <1>1, <1>2, <1>3, <1>4, <1>5, <1>6, <1>7, <1>8, <1>9, <1>10, <1>11, <1>12, <1>13, <1>14, <1>15, <1>16, <1>17, <1>18, <1>19, <1>20, <1>21 DEF Next, Serve

(***************************************************************************)
(* The effects of the actions that write the table.                        *)
(***************************************************************************)
LEMMA Values ==
    ASSUME TypeOK
    PROVE  /\ AccountsTypeOK
           /\ \A r \in Requests : /\ tracked[r] \in Entries
                                  /\ tracked[r].stamp \in Nat
                                  /\ tracked[r].failed \in Nat
           /\ \A u \in Registered : /\ u \in Requests
                                    /\ users[u].email \in Emails
                                    /\ users[u].stamp \in Nat
                                    /\ users[u].failed \in Nat
           /\ \A u \in Requests \ Registered : users[u] = NoRow
  BY DEF TypeOK, AccountsTypeOK, Entries, Registered, Row

LEMMA InsertEffect ==
    ASSUME TypeOK, RowsInv, NEW r \in Requests, pc[r] = "insert",
           InsertRow(r, command[r].email)
    PROVE  command[r] \in Commands /\ RowAdded(r, command[r].email)
<1>1. command[r] \in Commands /\ command[r].email \in Emails
  BY DEF TypeOK, RowsInv, Commands
<1>2. QED BY <1>1, Inserted, Values

LEMMA UpdateEffect ==
    ASSUME TypeOK, NEW r \in Requests, UpdateRow(r, tracked[r].stamp, tracked[r].failed)
    PROVE  users[r].stamp = tracked[r].stamp /\ RowRewritten(r, tracked[r].failed)
  BY Updated, Values

LEMMA SignInEffect ==
    ASSUME TypeOK, NEW u \in Requests, FailedSignIn(u)
    PROVE  /\ RowRewritten(u, users[u].failed + 1)
           /\ UNCHANGED <<audit, command, pc, tracked, response>>
<1>1. u \in Registered /\ users[u].stamp \in Nat /\ users[u].failed + 1 \in Nat
  BY Values DEF FailedSignIn
<1>2. UpdateRow(u, users[u].stamp, users[u].failed + 1)
  BY DEF FailedSignIn, AccessFailed
<1>3. QED BY <1>1, <1>2, Updated, Values DEF FailedSignIn, AccessFailed, requestVars

\* A commit never writes: what UpdateAsync saved is saved, what it was refused
\* is refused again.
LEMMA CommitEffect ==
    ASSUME TypeOK, RowsInv, TrackerInv, NEW r \in Requests, Commit(r)
    PROVE  UNCHANGED users /\ UNCHANGED tracked
<1>1. r \in Registered /\ users[r].stamp \in Nat /\ tracked[r].stamp \in Nat
  BY Values DEF Commit, RowsInv
<1>2. tracked[r].state # "Modified"
  BY <1>1 DEF Commit, TrackerInv, Current, StampMatches
<1>3. Saved(tracked[r]) = tracked[r]
  BY <1>2 DEF Saved
<1>4. QED BY <1>2, <1>3 DEF Commit, TypeOK

LEMMA RowsStep == TypeOK /\ RowsInv /\ TrackerInv /\ [Next]_vars => RowsInv'
<1> SUFFICES ASSUME TypeOK, RowsInv, TrackerInv, [Next]_vars PROVE RowsInv'
  OBVIOUS
<1> USE RegisterAssumption DEF RowsInv
<1>u. UNCHANGED users => Registered' = Registered
  BY DEF Registered
<1>w. \A u \in Registered : u \in Requests
  BY Values
<1>1. ASSUME NEW r \in Requests, Receive(r) PROVE RowsInv'
  BY <1>1, <1>u, <1>w DEF Receive, TypeOK, Stages, GoTo, Answer
<1>2. ASSUME NEW r \in Requests, RejectBody(r) PROVE RowsInv'
  BY <1>2, <1>u, <1>w DEF RejectBody, TypeOK, Stages, GoTo, Answer
<1>3. ASSUME NEW r \in Requests, RejectInvalid(r) PROVE RowsInv'
  BY <1>3, <1>u, <1>w DEF RejectInvalid, Throw, Reverted, TypeOK, Stages, GoTo, Answer
<1>4. ASSUME NEW r \in Requests, RejectRule(r) PROVE RowsInv'
  BY <1>4, <1>u, <1>w DEF RejectRule, Throw, Reverted, TypeOK, Stages, GoTo, Answer
<1>5. ASSUME NEW r \in Requests, RejectIdentity(r) PROVE RowsInv'
  BY <1>5, <1>u, <1>w DEF RejectIdentity, TypeOK, Stages, GoTo, Answer
<1>6. ASSUME NEW r \in Requests, BuildUser(r) PROVE RowsInv'
  BY <1>6, <1>u, <1>w DEF BuildUser, TypeOK, Stages, GoTo, Answer
<1>7. ASSUME NEW r \in Requests, RejectDuplicate(r) PROVE RowsInv'
  BY <1>7, <1>u, <1>w DEF RejectDuplicate, TypeOK, Stages, GoTo, Answer
<1>8. ASSUME NEW r \in Requests, TrackUser(r) PROVE RowsInv'
  BY <1>8, <1>u, <1>w DEF TrackUser, TypeOK, Stages, GoTo, Answer
<1>9. ASSUME NEW r \in Requests, InsertUser(r) PROVE RowsInv'
  <2>1. command[r] \in Commands /\ RowAdded(r, command[r].email)
    BY <1>9, InsertEffect DEF InsertUser
  <2>2. QED
    BY <1>9, <2>1, <1>w DEF InsertUser, RowAdded, OnlyRow, TypeOK, Stages, GoTo, Answer
<1>10. ASSUME NEW r \in Requests, InsertRefused(r) PROVE RowsInv'
  BY <1>10, <1>u, <1>w DEF InsertRefused, Throw, Reverted, TypeOK, Stages, GoTo, Answer
<1>11. ASSUME NEW r \in Requests, UpdateUser(r) PROVE RowsInv'
  <2>1. users[r].stamp = tracked[r].stamp /\ RowRewritten(r, tracked[r].failed)
    BY <1>11, UpdateEffect DEF UpdateUser
  <2>2. QED
    BY <1>11, <2>1, <1>w DEF UpdateUser, RowRewritten, OnlyRow, TypeOK, Stages, GoTo, Answer
<1>12. ASSUME NEW r \in Requests, UpdateConflict(r) PROVE RowsInv'
  BY <1>12, <1>u, <1>w DEF UpdateConflict, Current, StampMatches, TypeOK, Stages, GoTo, Answer
<1>13. ASSUME NEW r \in Requests, LogUserCreated(r) PROVE RowsInv'
  BY <1>13, <1>u, <1>w DEF LogUserCreated, LogUserEvent, TypeOK, Stages, GoTo, Answer
<1>14. ASSUME NEW r \in Requests, LogUserCreatedFails(r) PROVE RowsInv'
  BY <1>14, <1>u, <1>w DEF LogUserCreatedFails, Throw, Reverted, LogUserEvent, TypeOK, Stages, GoTo, Answer
<1>15. ASSUME NEW r \in Requests, Commit(r) PROVE RowsInv'
  <2>1. UNCHANGED users /\ UNCHANGED tracked
    BY <1>15, CommitEffect
  <2>2. QED
    BY <1>15, <2>1, <1>u, <1>w DEF Commit, TypeOK, Stages, GoTo, Answer
<1>16. ASSUME NEW r \in Requests, CommitConflict(r) PROVE RowsInv'
  BY <1>16, <1>u, <1>w DEF CommitConflict, Throw, Reverted, TypeOK, Stages, GoTo, Answer
<1>17. ASSUME NEW r \in Requests, StatementLost(r) PROVE RowsInv'
  BY <1>17, <1>u, <1>w DEF StatementLost, Throw, Reverted, TypeOK, Stages, GoTo, Answer
<1>18. ASSUME NEW r \in Requests, AnswerLost(r) PROVE RowsInv'
  <2>1. CASE pc[r] = "insert" /\ command[r].flaw # "column" /\ InsertRow(r, command[r].email)
    <3>1. command[r] \in Commands /\ RowAdded(r, command[r].email)
      BY <2>1, InsertEffect
    <3>2. QED
      BY <1>18, <2>1, <3>1, <1>w DEF AnswerLost, Throw, Reverted, RowAdded, OnlyRow, TypeOK, Stages, GoTo, Answer
  <2>2. CASE pc[r] = "update" /\ UpdateRow(r, tracked[r].stamp, tracked[r].failed)
    <3>1. users[r].stamp = tracked[r].stamp /\ RowRewritten(r, tracked[r].failed)
      BY <2>2, UpdateEffect
    <3>2. QED
      BY <1>18, <2>2, <3>1, <1>w DEF AnswerLost, Throw, Reverted, RowRewritten, OnlyRow, TypeOK, Stages, GoTo, Answer
  <2>3. QED
    BY <1>18, <2>1, <2>2 DEF AnswerLost
<1>19. ASSUME NEW r \in Requests, FailedSignIn(r) PROVE RowsInv'
  <2>1. /\ RowRewritten(r, users[r].failed + 1)
        /\ UNCHANGED <<audit, command, pc, tracked, response>>
    BY <1>19, SignInEffect
  <2>2. QED
    BY <2>1, <1>w DEF RowRewritten, OnlyRow, TypeOK, Stages, GoTo, Answer
<1>20. ASSUME Crash PROVE RowsInv'
  BY <1>20, <1>u, <1>w DEF Crash, InFlight, TypeOK, Stages, GoTo, Answer
<1>21. ASSUME UNCHANGED vars PROVE RowsInv'
  BY <1>21, <1>u DEF vars
<1> QED
  BY <1>1, <1>2, <1>3, <1>4, <1>5, <1>6, <1>7, <1>8, <1>9, <1>10, <1>11, <1>12, <1>13, <1>14, <1>15, <1>16, <1>17, <1>18, <1>19, <1>20, <1>21 DEF Next, Serve

LEMMA TrackerStep == TypeOK /\ RowsInv /\ TrackerInv /\ [Next]_vars => TrackerInv'
<1> SUFFICES ASSUME TypeOK, RowsInv, TrackerInv, [Next]_vars PROVE TrackerInv'
  OBVIOUS
<1> USE RegisterAssumption DEF RowsInv, TrackerInv
<1>u. UNCHANGED users => Registered' = Registered
  BY DEF Registered
<1>w. \A u \in Registered : u \in Requests
  BY Values
<1>1. ASSUME NEW r \in Requests, Receive(r) PROVE TrackerInv'
  BY <1>1, <1>u, <1>w, Values DEF Receive, TypeOK, Stages, GoTo, Answer
<1>2. ASSUME NEW r \in Requests, RejectBody(r) PROVE TrackerInv'
  BY <1>2, <1>u, <1>w, Values DEF RejectBody, TypeOK, Stages, GoTo, Answer
<1>3. ASSUME NEW r \in Requests, RejectInvalid(r) PROVE TrackerInv'
  BY <1>3, <1>u, <1>w, Values DEF RejectInvalid, Throw, Reverted, TypeOK, Stages, GoTo, Answer
<1>4. ASSUME NEW r \in Requests, RejectRule(r) PROVE TrackerInv'
  BY <1>4, <1>u, <1>w, Values DEF RejectRule, Throw, Reverted, TypeOK, Stages, GoTo, Answer
<1>5. ASSUME NEW r \in Requests, RejectIdentity(r) PROVE TrackerInv'
  BY <1>5, <1>u, <1>w, Values DEF RejectIdentity, TypeOK, Stages, GoTo, Answer
<1>6. ASSUME NEW r \in Requests, BuildUser(r) PROVE TrackerInv'
  BY <1>6, <1>u, <1>w, Values DEF BuildUser, TypeOK, Stages, GoTo, Answer
<1>7. ASSUME NEW r \in Requests, RejectDuplicate(r) PROVE TrackerInv'
  BY <1>7, <1>u, <1>w, Values DEF RejectDuplicate, TypeOK, Stages, GoTo, Answer
<1>8. ASSUME NEW r \in Requests, TrackUser(r) PROVE TrackerInv'
  BY <1>8, <1>u, <1>w, Values DEF TrackUser, TypeOK, Stages, GoTo, Answer
<1>9. ASSUME NEW r \in Requests, InsertUser(r) PROVE TrackerInv'
  <2>1. command[r] \in Commands /\ RowAdded(r, command[r].email)
    BY <1>9, InsertEffect DEF InsertUser
  <2>2. QED
    BY <1>9, <2>1, <1>w, Values DEF InsertUser, RowAdded, OnlyRow, TypeOK, Stages, GoTo, Answer
<1>10. ASSUME NEW r \in Requests, InsertRefused(r) PROVE TrackerInv'
  BY <1>10, <1>u, <1>w, Values DEF InsertRefused, Throw, Reverted, TypeOK, Stages, GoTo, Answer
<1>11. ASSUME NEW r \in Requests, UpdateUser(r) PROVE TrackerInv'
  <2>1. users[r].stamp = tracked[r].stamp /\ RowRewritten(r, tracked[r].failed)
    BY <1>11, UpdateEffect DEF UpdateUser
  <2>2. /\ tracked'[r].state = "Unchanged"
        /\ tracked'[r].stamp = users'[r].stamp
        /\ tracked'[r].failed = users'[r].failed
    BY <1>11, <2>1, Values DEF UpdateUser, RowRewritten, OnlyRow, TypeOK, Entries
  <2>3. \A q \in Requests : q # r => tracked'[q] = tracked[q] /\ users'[q] = users[q]
    BY <1>11, <2>1 DEF UpdateUser, RowRewritten, OnlyRow, TypeOK
  <2>4. users'[r].stamp \in Nat
    BY <1>11, <2>1, Values DEF RowRewritten, OnlyRow
  <2>5. pc' = [pc EXCEPT ![r] = "log"]
    BY <1>11 DEF UpdateUser, GoTo
  <2>6. QED
    BY <2>2, <2>3, <2>4, <2>5 DEF TypeOK
<1>12. ASSUME NEW r \in Requests, UpdateConflict(r) PROVE TrackerInv'
  <2>1. r \in Registered /\ tracked[r].stamp # users[r].stamp
    BY <1>12 DEF UpdateConflict, Current, StampMatches
  <2>2. tracked[r].stamp < users[r].stamp
    BY <1>12, <2>1, Values DEF UpdateConflict
  <2>3. QED
    BY <1>12, <2>2, <1>u, <1>w, Values DEF UpdateConflict, TypeOK, GoTo
<1>13. ASSUME NEW r \in Requests, LogUserCreated(r) PROVE TrackerInv'
  BY <1>13, <1>u, <1>w, Values DEF LogUserCreated, LogUserEvent, TypeOK, Stages, GoTo, Answer
<1>14. ASSUME NEW r \in Requests, LogUserCreatedFails(r) PROVE TrackerInv'
  BY <1>14, <1>u, <1>w, Values DEF LogUserCreatedFails, Throw, Reverted, LogUserEvent, TypeOK, Stages, GoTo, Answer
<1>15. ASSUME NEW r \in Requests, Commit(r) PROVE TrackerInv'
  <2>1. UNCHANGED users /\ UNCHANGED tracked
    BY <1>15, CommitEffect
  <2>2. QED
    BY <1>15, <2>1, <1>u, <1>w, Values DEF Commit, TypeOK, Stages, GoTo, Answer
<1>16. ASSUME NEW r \in Requests, CommitConflict(r) PROVE TrackerInv'
  BY <1>16, <1>u, <1>w, Values DEF CommitConflict, Throw, Reverted, TypeOK, Stages, GoTo, Answer
<1>17. ASSUME NEW r \in Requests, StatementLost(r) PROVE TrackerInv'
  BY <1>17, <1>u, <1>w, Values DEF StatementLost, Throw, Reverted, TypeOK, Stages, GoTo, Answer
<1>18. ASSUME NEW r \in Requests, AnswerLost(r) PROVE TrackerInv'
  <2>1. CASE pc[r] = "insert" /\ command[r].flaw # "column" /\ InsertRow(r, command[r].email)
    <3>1. command[r] \in Commands /\ RowAdded(r, command[r].email)
      BY <2>1, InsertEffect
    <3>2. QED
      BY <1>18, <2>1, <3>1, <1>w, Values DEF AnswerLost, Throw, Reverted, RowAdded, OnlyRow, TypeOK, Stages, GoTo, Answer
  <2>2. CASE pc[r] = "update" /\ UpdateRow(r, tracked[r].stamp, tracked[r].failed)
    <3>1. users[r].stamp = tracked[r].stamp /\ RowRewritten(r, tracked[r].failed)
      BY <2>2, UpdateEffect
    <3>2. QED
      BY <1>18, <2>2, <3>1, <1>w, Values DEF AnswerLost, Throw, Reverted, RowRewritten, OnlyRow, TypeOK, Stages, GoTo, Answer
  <2>3. QED
    BY <1>18, <2>1, <2>2 DEF AnswerLost
<1>19. ASSUME NEW r \in Requests, FailedSignIn(r) PROVE TrackerInv'
  <2>1. /\ RowRewritten(r, users[r].failed + 1)
        /\ UNCHANGED <<audit, command, pc, tracked, response>>
    BY <1>19, SignInEffect
  <2>2. QED
    BY <2>1, <1>w, Values DEF RowRewritten, OnlyRow, TypeOK, Stages, GoTo, Answer
<1>20. ASSUME Crash PROVE TrackerInv'
  BY <1>20, <1>u, <1>w, Values DEF Crash, InFlight, TypeOK, Stages, GoTo, Answer
<1>21. ASSUME UNCHANGED vars PROVE TrackerInv'
  BY <1>21, <1>u DEF vars
<1> QED
  BY <1>1, <1>2, <1>3, <1>4, <1>5, <1>6, <1>7, <1>8, <1>9, <1>10, <1>11, <1>12, <1>13, <1>14, <1>15, <1>16, <1>17, <1>18, <1>19, <1>20, <1>21 DEF Next, Serve

LEMMA AnswersStep == TypeOK /\ RowsInv /\ TrackerInv /\ AnswersInv /\ [Next]_vars => AnswersInv'
<1> SUFFICES ASSUME TypeOK, RowsInv, TrackerInv, AnswersInv, [Next]_vars PROVE AnswersInv'
  OBVIOUS
<1> USE RegisterAssumption DEF RowsInv, AnswersInv
<1>u. UNCHANGED users => Registered' = Registered
  BY DEF Registered
<1>w. \A u \in Registered : u \in Requests
  BY Values
<1>1. ASSUME NEW r \in Requests, Receive(r) PROVE AnswersInv'
  BY <1>1, <1>u, <1>w, Values DEF Receive, TypeOK, Stages, GoTo, Answer
<1>2. ASSUME NEW r \in Requests, RejectBody(r) PROVE AnswersInv'
  BY <1>2, <1>u, <1>w, Values DEF RejectBody, TypeOK, Stages, GoTo, Answer
<1>3. ASSUME NEW r \in Requests, RejectInvalid(r) PROVE AnswersInv'
  BY <1>3, <1>u, <1>w, Values DEF RejectInvalid, Throw, Reverted, TypeOK, Stages, GoTo, Answer
<1>4. ASSUME NEW r \in Requests, RejectRule(r) PROVE AnswersInv'
  BY <1>4, <1>u, <1>w, Values DEF RejectRule, Throw, Reverted, TypeOK, Stages, GoTo, Answer
<1>5. ASSUME NEW r \in Requests, RejectIdentity(r) PROVE AnswersInv'
  BY <1>5, <1>u, <1>w, Values DEF RejectIdentity, TypeOK, Stages, GoTo, Answer
<1>6. ASSUME NEW r \in Requests, BuildUser(r) PROVE AnswersInv'
  BY <1>6, <1>u, <1>w, Values DEF BuildUser, TypeOK, Stages, GoTo, Answer
<1>7. ASSUME NEW r \in Requests, RejectDuplicate(r) PROVE AnswersInv'
  BY <1>7, <1>u, <1>w, Values DEF RejectDuplicate, TypeOK, Stages, GoTo, Answer
<1>8. ASSUME NEW r \in Requests, TrackUser(r) PROVE AnswersInv'
  BY <1>8, <1>u, <1>w, Values DEF TrackUser, TypeOK, Stages, GoTo, Answer
<1>9. ASSUME NEW r \in Requests, InsertUser(r) PROVE AnswersInv'
  <2>1. command[r] \in Commands /\ RowAdded(r, command[r].email)
    BY <1>9, InsertEffect DEF InsertUser
  <2>2. QED
    BY <1>9, <2>1, <1>w, Values DEF InsertUser, RowAdded, OnlyRow, TypeOK, Stages, GoTo, Answer
<1>10. ASSUME NEW r \in Requests, InsertRefused(r) PROVE AnswersInv'
  BY <1>10, <1>u, <1>w, Values DEF InsertRefused, Throw, Reverted, TypeOK, Stages, GoTo, Answer
<1>11. ASSUME NEW r \in Requests, UpdateUser(r) PROVE AnswersInv'
  <2>1. users[r].stamp = tracked[r].stamp /\ RowRewritten(r, tracked[r].failed)
    BY <1>11, UpdateEffect DEF UpdateUser
  <2>2. QED
    BY <1>11, <2>1, <1>w, Values DEF UpdateUser, RowRewritten, OnlyRow, TypeOK, Stages, GoTo, Answer
<1>12. ASSUME NEW r \in Requests, UpdateConflict(r) PROVE AnswersInv'
  BY <1>12, <1>u, <1>w, Values DEF UpdateConflict, Current, StampMatches, TypeOK, Stages, GoTo, Answer
<1>13. ASSUME NEW r \in Requests, LogUserCreated(r) PROVE AnswersInv'
  BY <1>13, <1>u, <1>w, Values DEF LogUserCreated, LogUserEvent, TypeOK, Stages, GoTo, Answer
<1>14. ASSUME NEW r \in Requests, LogUserCreatedFails(r) PROVE AnswersInv'
  BY <1>14, <1>u, <1>w, Values DEF LogUserCreatedFails, Throw, Reverted, LogUserEvent, TypeOK, Stages, GoTo, Answer
<1>15. ASSUME NEW r \in Requests, Commit(r) PROVE AnswersInv'
  <2>1. UNCHANGED users /\ UNCHANGED tracked
    BY <1>15, CommitEffect
  <2>2. QED
    BY <1>15, <2>1, <1>u, <1>w, Values DEF Commit, TypeOK, Stages, GoTo, Answer
<1>16. ASSUME NEW r \in Requests, CommitConflict(r) PROVE AnswersInv'
  BY <1>16, <1>u, <1>w, Values DEF CommitConflict, Throw, Reverted, TypeOK, Stages, GoTo, Answer
<1>17. ASSUME NEW r \in Requests, StatementLost(r) PROVE AnswersInv'
  BY <1>17, <1>u, <1>w, Values DEF StatementLost, Throw, Reverted, TypeOK, Stages, GoTo, Answer
<1>18. ASSUME NEW r \in Requests, AnswerLost(r) PROVE AnswersInv'
  <2>1. CASE pc[r] = "insert" /\ command[r].flaw # "column" /\ InsertRow(r, command[r].email)
    <3>1. command[r] \in Commands /\ RowAdded(r, command[r].email)
      BY <2>1, InsertEffect
    <3>2. QED
      BY <1>18, <2>1, <3>1, <1>w, Values DEF AnswerLost, Throw, Reverted, RowAdded, OnlyRow, TypeOK, Stages, GoTo, Answer
  <2>2. CASE pc[r] = "update" /\ UpdateRow(r, tracked[r].stamp, tracked[r].failed)
    <3>1. users[r].stamp = tracked[r].stamp /\ RowRewritten(r, tracked[r].failed)
      BY <2>2, UpdateEffect
    <3>2. QED
      BY <1>18, <2>2, <3>1, <1>w, Values DEF AnswerLost, Throw, Reverted, RowRewritten, OnlyRow, TypeOK, Stages, GoTo, Answer
  <2>3. QED
    BY <1>18, <2>1, <2>2 DEF AnswerLost
<1>19. ASSUME NEW r \in Requests, FailedSignIn(r) PROVE AnswersInv'
  <2>1. /\ RowRewritten(r, users[r].failed + 1)
        /\ UNCHANGED <<audit, command, pc, tracked, response>>
    BY <1>19, SignInEffect
  <2>2. QED
    BY <2>1, <1>w, Values DEF RowRewritten, OnlyRow, TypeOK, Stages, GoTo, Answer
<1>20. ASSUME Crash PROVE AnswersInv'
  BY <1>20, <1>u, <1>w, Values DEF Crash, InFlight, TypeOK, Stages, GoTo, Answer
<1>21. ASSUME UNCHANGED vars PROVE AnswersInv'
  BY <1>21, <1>u DEF vars
<1> QED
  BY <1>1, <1>2, <1>3, <1>4, <1>5, <1>6, <1>7, <1>8, <1>9, <1>10, <1>11, <1>12, <1>13, <1>14, <1>15, <1>16, <1>17, <1>18, <1>19, <1>20, <1>21 DEF Next, Serve

(***************************************************************************)
(* Every step changes the table in one of two ways, if at all, and appends *)
(* to the user log only what a request past its insert appends.            *)
(***************************************************************************)
TableGrows ==
    \E r \in Requests : /\ ~ NameTaken(command[r].email)
                        /\ RowAdded(r, command[r].email)

RowMoves ==
    \E r \in Requests, failed \in Nat :
        failed >= users[r].failed /\ RowRewritten(r, failed)

LEMMA TableStep ==
    ASSUME TypeOK, RowsInv, TrackerInv, [Next]_vars
    PROVE  UNCHANGED users \/ TableGrows \/ RowMoves
<1>1. ASSUME NEW r \in Requests, InsertUser(r) PROVE TableGrows
  <2>1. ~ NameTaken(command[r].email) /\ RowAdded(r, command[r].email)
    BY <1>1, InsertEffect DEF InsertUser, InsertRow
  <2>2. QED BY <2>1 DEF TableGrows
<1>2. ASSUME NEW r \in Requests, pc[r] = "update",
             UpdateRow(r, tracked[r].stamp, tracked[r].failed)
      PROVE  RowMoves
  <2>1. users[r].stamp = tracked[r].stamp /\ RowRewritten(r, tracked[r].failed)
    BY <1>2, UpdateEffect
  <2>2. tracked[r].failed \in Nat /\ tracked[r].failed >= users[r].failed
    BY <1>2, <2>1, Values DEF TrackerInv, RowsInv
  <2>3. QED BY <2>1, <2>2 DEF RowMoves
<1>3. ASSUME NEW r \in Requests, FailedSignIn(r) PROVE RowMoves
  <2>1. RowRewritten(r, users[r].failed + 1)
    BY <1>3, SignInEffect
  <2>2. users[r].failed + 1 \in Nat /\ users[r].failed + 1 >= users[r].failed
    BY <2>1, Values DEF RowRewritten
  <2>3. QED BY <2>1, <2>2 DEF RowMoves
<1>4. ASSUME NEW r \in Requests, UpdateUser(r) PROVE RowMoves
  BY <1>2, <1>4 DEF UpdateUser
<1>5. ASSUME NEW r \in Requests, AnswerLost(r) PROVE TableGrows \/ RowMoves
  <2>1. CASE pc[r] = "insert" /\ InsertRow(r, command[r].email)
    <3>1. ~ NameTaken(command[r].email) /\ RowAdded(r, command[r].email)
      BY <2>1, InsertEffect DEF InsertRow
    <3>2. QED BY <3>1 DEF TableGrows
  <2>2. CASE pc[r] = "update" /\ UpdateRow(r, tracked[r].stamp, tracked[r].failed)
    BY <1>2, <2>2
  <2>3. QED BY <1>5, <2>1, <2>2 DEF AnswerLost
<1>6. ASSUME NEW r \in Requests, Commit(r) PROVE UNCHANGED users
  BY <1>6, CommitEffect
<1>7. ASSUME NEW r \in Requests,
             Receive(r) \/ RejectBody(r) \/ RejectInvalid(r) \/ RejectRule(r)
             \/ RejectIdentity(r) \/ BuildUser(r) \/ RejectDuplicate(r) \/ TrackUser(r)
             \/ InsertRefused(r) \/ UpdateConflict(r) \/ LogUserCreated(r)
             \/ LogUserCreatedFails(r) \/ CommitConflict(r) \/ StatementLost(r)
      PROVE  UNCHANGED users
  BY <1>7 DEF Receive, RejectBody, RejectInvalid, RejectRule, RejectIdentity, BuildUser,
              RejectDuplicate, TrackUser, InsertRefused, UpdateConflict, LogUserCreated,
              LogUserCreatedFails, CommitConflict, StatementLost
<1>8. Crash \/ UNCHANGED vars => UNCHANGED users
  BY DEF Crash, vars
<1>9. QED
  BY <1>1, <1>3, <1>4, <1>5, <1>6, <1>7, <1>8 DEF Next, Serve

LEMMA AuditStep ==
    ASSUME TypeOK, RowsInv, [Next]_vars
    PROVE  \A entry \in audit' : entry \in audit \/ entry.user \in Registered
<1>1. ASSUME NEW r \in Requests, LogUserCreated(r) \/ LogUserCreatedFails(r)
      PROVE  \A entry \in audit' : entry \in audit \/ entry.user \in Registered
  BY <1>1 DEF LogUserCreated, LogUserCreatedFails, LogUserEvent, RowsInv
<1>2. ASSUME NEW r \in Requests,
             Receive(r) \/ RejectBody(r) \/ RejectInvalid(r) \/ RejectRule(r)
             \/ RejectIdentity(r) \/ BuildUser(r) \/ RejectDuplicate(r) \/ TrackUser(r)
             \/ InsertUser(r) \/ InsertRefused(r) \/ UpdateUser(r) \/ UpdateConflict(r)
             \/ Commit(r) \/ CommitConflict(r) \/ StatementLost(r) \/ AnswerLost(r)
      PROVE  UNCHANGED audit
  BY <1>2 DEF Receive, RejectBody, RejectInvalid, RejectRule, RejectIdentity, BuildUser,
              RejectDuplicate, TrackUser, InsertUser, InsertRefused, UpdateUser, UpdateConflict,
              Commit, CommitConflict, StatementLost, AnswerLost
<1>3. (\E r \in Requests : FailedSignIn(r)) \/ Crash \/ UNCHANGED vars => UNCHANGED audit
  BY DEF FailedSignIn, AccessFailed, Crash, vars
<1>4. QED
  BY <1>1, <1>2, <1>3 DEF Next, Serve

\* Hence nobody who has a row ever loses it, or gets another e-mail.
LEMMA RowsStay ==
    ASSUME TypeOK, RowsInv, TrackerInv, [Next]_vars
    PROVE  \A u \in Registered : /\ u \in Registered'
                                 /\ users'[u].email = users[u].email
                                 /\ users'[u].failed >= users[u].failed
<1>1. ASSUME UNCHANGED users, NEW u \in Registered
      PROVE  /\ u \in Registered'
             /\ users'[u].email = users[u].email
             /\ users'[u].failed >= users[u].failed
  BY <1>1, Values DEF Registered
<1>2. ASSUME NEW r \in Requests, RowAdded(r, command[r].email), ~ NameTaken(command[r].email),
             NEW u \in Registered
      PROVE  /\ u \in Registered'
             /\ users'[u].email = users[u].email
             /\ users'[u].failed >= users[u].failed
  <2>1. u \in Requests /\ users[u].failed \in Nat
    BY Values
  <2>2. CASE u = r
    <3>1. r \in Registered /\ users[r].email = command[r].email
      BY <2>2 DEF RowsInv
    <3>2. QED BY <1>2, <3>1 DEF NameTaken
  <2>3. CASE u # r
    BY <1>2, <2>1, <2>3 DEF RowAdded, OnlyRow
  <2>4. QED BY <2>2, <2>3
<1>3. ASSUME NEW r \in Requests, NEW failed \in Nat, failed >= users[r].failed,
             RowRewritten(r, failed), NEW u \in Registered
      PROVE  /\ u \in Registered'
             /\ users'[u].email = users[u].email
             /\ users'[u].failed >= users[u].failed
  <2>1. u \in Requests /\ users[u].failed \in Nat
    BY Values
  <2>2. QED BY <1>3, <2>1 DEF RowRewritten, OnlyRow
<1>4. QED
  BY <1>1, <1>2, <1>3, TableStep DEF TableGrows, RowMoves

LEMMA LogStep ==
    ASSUME TypeOK, RowsInv, TrackerInv, LogImpliesRow, [Next]_vars
    PROVE  LogImpliesRow'
  BY AuditStep, RowsStay DEF LogImpliesRow

LEMMA UniqueStep ==
    ASSUME TypeOK, RowsInv, TrackerInv, UniqueUserName, [Next]_vars
    PROVE  UniqueUserName'
<1>1. ASSUME UNCHANGED users PROVE UniqueUserName'
  BY <1>1 DEF UniqueUserName, Registered
<1>2. ASSUME TableGrows PROVE UniqueUserName'
  <2>1. PICK r \in Requests : ~ NameTaken(command[r].email) /\ RowAdded(r, command[r].email)
    BY <1>2 DEF TableGrows
  <2>2. r \notin Registered
    BY <2>1 DEF NameTaken, RowsInv
  <2>3. \A u \in Registered : u \in Requests /\ u # r /\ users'[u] = users[u]
    BY <2>1, <2>2, Values DEF RowAdded, OnlyRow
  <2>4. users'[r].email = command[r].email /\ Registered' = Registered \cup {r}
    BY <2>1 DEF RowAdded, OnlyRow
  <2>5. \A u \in Registered : NormalizedName[users[u].email] # NormalizedName[command[r].email]
    BY <2>1 DEF NameTaken
  <2>6. QED
    BY <2>3, <2>4, <2>5 DEF UniqueUserName
<1>3. ASSUME RowMoves PROVE UniqueUserName'
  <2>1. Registered' = Registered
    BY <1>3 DEF RowMoves, RowRewritten
  <2>2. QED
    BY <2>1, RowsStay DEF UniqueUserName
<1>4. QED
  BY <1>1, <1>2, <1>3, TableStep

(***************************************************************************)
(* The theorems.                                                           *)
(***************************************************************************)

\* The invariant holds initially and every step keeps it.
THEOREM Inductive == Spec => []IInv
<1>1. Init => IInv
  <2> SUFFICES ASSUME Init PROVE IInv
    OBVIOUS
  <2>1. TypeOK
    BY InitType
  <2>2. Registered = {} /\ audit = {}
    BY DEF Init, AccountsInit, Registered
  <2>3. UniqueUserName /\ LogImpliesRow
    BY <2>2 DEF UniqueUserName, LogImpliesRow
  <2>4. RowsInv /\ TrackerInv /\ AnswersInv
    BY <2>2, RegisterAssumption DEF Init, NewUser, RowsInv, TrackerInv, AnswersInv
  <2>5. QED BY <2>1, <2>3, <2>4 DEF IInv
<1>2. IInv /\ [Next]_vars => IInv'
  BY TypeStep, RowsStep, TrackerStep, AnswersStep, LogStep, UniqueStep DEF IInv
<1>3. QED BY <1>1, <1>2, PTL DEF Spec

\* Every variable keeps its type.
THEOREM TypeCorrect == Spec => []TypeOK
<1>1. IInv => TypeOK
  BY DEF IInv
<1>2. QED BY <1>1, Inductive, PTL

\* However registrations interleave, a normalized user name has one row at most.
THEOREM UserNamesAreUnique == Spec => []UniqueUserName
<1>1. IInv => UniqueUserName
  BY DEF IInv
<1>2. QED BY <1>1, Inductive, PTL

\* 201 means a row under the e-mail asked for and an entry of the user log.
THEOREM CreatedMeansDurable == Spec => []CreatedIsDurable
<1>1. IInv => CreatedIsDurable
  BY DEF IInv, AnswersInv, RowsInv, CreatedIsDurable
<1>2. QED BY <1>1, Inductive, PTL

\* 400 means that the request left nothing behind.
THEOREM BadRequestMeansNothing == Spec => []BadRequestLeavesNothing
<1>1. IInv => BadRequestLeavesNothing
  BY DEF IInv, AnswersInv, LogImpliesRow, BadRequestLeavesNothing
<1>2. QED BY <1>1, Inductive, PTL

\* A user named by the log is in the table.
THEOREM LogNamesRows == Spec => []LogImpliesRow
<1>1. IInv => LogImpliesRow
  BY DEF IInv
<1>2. QED BY <1>1, Inductive, PTL

\* A write that UpdateAsync was refused can not succeed later, in the commit.
THEOREM RefusedStaysRefused == Spec => []RefusedWriteStaysRefused
<1>1. IInv => RefusedWriteStaysRefused
  <2> SUFFICES ASSUME IInv, NEW r \in Requests, pc[r] \in {"log", "commit"},
                      tracked[r].state = "Modified"
               PROVE  ~ Current(r)
    BY DEF RefusedWriteStaysRefused
  <2>1. r \in Registered /\ tracked[r].stamp < users[r].stamp
    BY DEF IInv, RowsInv, TrackerInv
  <2>2. tracked[r].stamp \in Nat /\ users[r].stamp \in Nat
    BY <2>1, Values DEF IInv
  <2>3. QED BY <2>1, <2>2 DEF Current, StampMatches
<1>2. QED BY <1>1, Inductive, PTL

\* No step deletes an account, renames it, or sets back its failed sign-ins.
THEOREM NothingIsUndone == Spec => NothingUndone
<1>1. IInv /\ [Next]_vars =>
        [\A u \in Registered : /\ u \in Registered'
                               /\ users'[u].email = users[u].email
                               /\ users'[u].failed >= users[u].failed]_vars
  BY RowsStay DEF IInv
<1>2. QED BY <1>1, Inductive, PTL DEF Spec, NothingUndone

(***************************************************************************)
(* The causes of 500.  A stamp only grows, so a row that has left its      *)
(* registration behind stays ahead of it.                                  *)
(***************************************************************************)
Cause(r) ==
    \/ command[r].flaw \in {"rule", "column"}
    \/ r \notin Registered /\ NameTaken(command[r].email)
    \/ r \in Registered /\ tracked[r].stamp < users[r].stamp

CauseInv == \A r \in Requests : response[r] = "ServerError" => Cause(r)

LEMMA CauseStays ==
    ASSUME TypeOK, RowsInv, NEW r \in Requests, Cause(r),
           \/ UNCHANGED users \/ TableGrows
           \/ \E u \in Requests, failed \in Nat : RowRewritten(u, failed),
           command'[r] = command[r], tracked'[r] = tracked[r]
    PROVE  Cause(r)'
<1>w. /\ \A u \in Registered : u \in Requests /\ users[u].stamp \in Nat
      /\ tracked[r].stamp \in Nat
  BY Values
<1>1. CASE command[r].flaw \in {"rule", "column"}
  BY <1>1 DEF Cause
<1>2. CASE UNCHANGED users
  BY <1>2 DEF Cause, Registered, NameTaken
<1>3. CASE TableGrows
  <2>1. PICK q \in Requests : ~ NameTaken(command[q].email) /\ RowAdded(q, command[q].email)
    BY <1>3 DEF TableGrows
  <2>2. CASE r \notin Registered /\ NameTaken(command[r].email)
    <3>1. q # r /\ r \notin Registered'
      BY <2>1, <2>2 DEF RowAdded
    <3>2. PICK u \in Registered : NormalizedName[users[u].email] = NormalizedName[command[r].email]
      BY <2>2 DEF NameTaken
    <3>3. u # q
      <4>1. u = q => users[q].email = command[q].email
        BY <3>2 DEF RowsInv
      <4>2. QED BY <2>1, <3>2, <4>1 DEF NameTaken
    <3>4. u \in Registered' /\ users'[u] = users[u]
      BY <1>w, <2>1, <3>2, <3>3 DEF RowAdded, OnlyRow
    <3>5. NameTaken(command[r].email)'
      BY <3>2, <3>4 DEF NameTaken
    <3>6. QED BY <3>1, <3>5 DEF Cause
  <2>3. CASE r \in Registered /\ tracked[r].stamp < users[r].stamp
    <3>1. q # r
      <4>1. users[r].email = command[r].email
        BY <2>3 DEF RowsInv
      <4>2. QED BY <2>1, <2>3, <4>1 DEF NameTaken
    <3>2. users'[r] = users[r] /\ r \in Registered'
      BY <2>1, <2>3, <3>1 DEF RowAdded, OnlyRow
    <3>3. QED BY <2>3, <3>2 DEF Cause
  <2>4. QED BY <1>1, <2>2, <2>3 DEF Cause
<1>4. CASE \E u \in Requests, failed \in Nat : RowRewritten(u, failed)
  <2>1. PICK u \in Requests, failed \in Nat : RowRewritten(u, failed)
    BY <1>4
  <2>2. /\ Registered' = Registered
        /\ \A v \in Registered : /\ users'[v].email = users[v].email
                                 /\ users'[v].stamp \in Nat /\ users'[v].stamp >= users[v].stamp
    BY <1>w, <2>1 DEF RowRewritten, OnlyRow
  <2>3. CASE r \notin Registered /\ NameTaken(command[r].email)
    BY <2>2, <2>3 DEF Cause, NameTaken
  <2>4. CASE r \in Registered /\ tracked[r].stamp < users[r].stamp
    <3>1. tracked[r].stamp < users'[r].stamp
      BY <1>w, <2>2, <2>4
    <3>2. QED BY <2>2, <2>4, <3>1 DEF Cause
  <2>5. QED BY <1>1, <2>3, <2>4 DEF Cause
<1>5. QED BY <1>2, <1>3, <1>4

\* A request is answered once; what it asked for and what it knew of its row
\* change no more.
LEMMA AnsweredOnce ==
    ASSUME TypeOK, AnswersInv, [Next]_vars, NEW r \in Requests, response[r] # "none"
    PROVE  response'[r] = response[r] /\ command'[r] = command[r] /\ tracked'[r] = tracked[r]
<1>1. pc[r] = "done"
  BY DEF AnswersInv
<1> USE DEF TypeOK
<1>2. ASSUME NEW q \in Requests, Receive(q) \/ Serve(q) \/ StatementLost(q) \/ AnswerLost(q)
      PROVE  response'[r] = response[r] /\ command'[r] = command[r] /\ tracked'[r] = tracked[r]
  <2>1. pc[q] # "done"
    BY <1>2 DEF Receive, Serve, RejectBody, RejectInvalid, RejectRule, RejectIdentity, BuildUser,
                RejectDuplicate, TrackUser, InsertUser, InsertRefused, UpdateUser, UpdateConflict,
                LogUserCreated, LogUserCreatedFails, Commit, CommitConflict, StatementLost, AnswerLost
  <2>2. q # r
    BY <1>1, <2>1
  <2>3. /\ \/ command' = command \/ \E c : command' = [command EXCEPT ![q] = c]
        /\ \/ response' = response \/ \E a : response' = [response EXCEPT ![q] = a]
        /\ \/ tracked' = tracked \/ \E t : tracked' = [tracked EXCEPT ![q] = t]
    BY <1>2 DEF Receive, Serve, RejectBody, RejectInvalid, RejectRule, RejectIdentity, BuildUser,
                RejectDuplicate, TrackUser, InsertUser, InsertRefused, UpdateUser, UpdateConflict,
                LogUserCreated, LogUserCreatedFails, Commit, CommitConflict, StatementLost, AnswerLost,
                Throw, Answer, GoTo
  <2>4. QED BY <2>2, <2>3
<1>3. ASSUME (\E u \in Requests : FailedSignIn(u)) \/ UNCHANGED vars
      PROVE  response' = response /\ command' = command /\ tracked' = tracked
  BY <1>3 DEF FailedSignIn, requestVars, vars
<1>4. ASSUME Crash
      PROVE  response'[r] = response[r] /\ command'[r] = command[r] /\ tracked'[r] = tracked[r]
  BY <1>1, <1>4 DEF Crash, InFlight
<1>5. QED BY <1>2, <1>3, <1>4 DEF Next

\* A request that is answered 500 now has its cause now.
LEMMA ErrorCaused ==
    ASSUME ~ LoggerMayFail, ~ DatabaseMayFail, TypeOK, RowsInv, TrackerInv, [Next]_vars,
           NEW r \in Requests, response[r] # "ServerError", response'[r] = "ServerError"
    PROVE  Cause(r)'
<1> USE DEF TypeOK
<1>1. ASSUME NEW q \in Requests, Receive(q) \/ Serve(q)
      PROVE  q = r /\ (RejectRule(r) \/ InsertRefused(r) \/ CommitConflict(r))
  <2>1. ASSUME NEW a, response' = [response EXCEPT ![q] = a]
        PROVE  q = r /\ a = "ServerError"
    BY <2>1
  <2>2. ASSUME Receive(q) \/ BuildUser(q) \/ TrackUser(q) \/ InsertUser(q) \/ UpdateUser(q)
               \/ UpdateConflict(q) \/ LogUserCreated(q)
        PROVE  FALSE
    BY <2>2 DEF Receive, BuildUser, TrackUser, InsertUser, UpdateUser, UpdateConflict,
                LogUserCreated, GoTo
  <2>3. ASSUME RejectBody(q) \/ RejectInvalid(q) \/ RejectIdentity(q) \/ RejectDuplicate(q)
        PROVE  FALSE
    BY <2>1, <2>3 DEF RejectBody, RejectInvalid, RejectIdentity, RejectDuplicate, Throw, Answer
  <2>4. ASSUME Commit(q) PROVE FALSE
    BY <2>1, <2>4 DEF Commit, Answer
  <2>5. ~ LogUserCreatedFails(q)
    BY DEF LogUserCreatedFails
  <2>6. ASSUME RejectRule(q) \/ InsertRefused(q) \/ CommitConflict(q) PROVE q = r
    BY <2>1, <2>6 DEF RejectRule, InsertRefused, CommitConflict, Throw, Answer
  <2>7. QED BY <1>1, <2>2, <2>3, <2>4, <2>5, <2>6 DEF Serve
<1>2. /\ ~ (\E q \in Requests : StatementLost(q) \/ AnswerLost(q) \/ FailedSignIn(q))
      /\ ~ Crash /\ ~ UNCHANGED vars
  BY DEF StatementLost, AnswerLost, FailedSignIn, requestVars, Crash, vars
<1>3. RejectRule(r) \/ InsertRefused(r) \/ CommitConflict(r)
  BY <1>1, <1>2 DEF Next
<1>4. users' = users /\ command' = command /\ tracked' = [tracked EXCEPT ![r] = Reverted(@)]
  BY <1>3 DEF RejectRule, InsertRefused, CommitConflict, Throw, Answer
<1>5. Registered' = Registered /\ tracked'[r].stamp = tracked[r].stamp
  BY <1>4 DEF Registered, Reverted, Entries
<1>6. CASE RejectRule(r)
  BY <1>4, <1>6 DEF RejectRule, Cause
<1>7. CASE InsertRefused(r)
  <2>1. r \notin Registered
    BY <1>7 DEF InsertRefused, RowsInv
  <2>2. QED BY <1>4, <1>5, <1>7, <2>1 DEF InsertRefused, Cause, NameTaken
<1>8. CASE CommitConflict(r)
  <2>1. r \in Registered /\ tracked[r].stamp < users[r].stamp
    BY <1>8 DEF CommitConflict, RowsInv, TrackerInv
  <2>2. QED BY <1>4, <1>5, <2>1 DEF Cause
<1>9. QED BY <1>3, <1>6, <1>7, <1>8

LEMMA CauseStep ==
    ASSUME ~ LoggerMayFail, ~ DatabaseMayFail, IInv, CauseInv, [Next]_vars
    PROVE  CauseInv'
<1> SUFFICES ASSUME NEW r \in Requests, response'[r] = "ServerError" PROVE Cause(r)'
  BY DEF CauseInv
<1>1. CASE response[r] = "ServerError"
  <2>1. Cause(r) /\ command'[r] = command[r] /\ tracked'[r] = tracked[r]
    BY <1>1, AnsweredOnce DEF CauseInv, IInv
  <2>2. \/ UNCHANGED users \/ TableGrows
        \/ \E u \in Requests, failed \in Nat : RowRewritten(u, failed)
    BY TableStep DEF RowMoves, IInv
  <2>3. QED BY <2>1, <2>2, CauseStays DEF IInv
<1>2. CASE response[r] # "ServerError"
  BY <1>2, ErrorCaused DEF IInv
<1>3. QED BY <1>1, <1>2

LEMMA CauseSuffices ==
    ASSUME TypeOK, CauseInv
    PROVE  ServerErrorHasACause
<1>1. \A r \in Registered : users[r].stamp \in Nat /\ tracked[r].stamp \in Nat
  BY Values
<1>2. QED BY <1>1 DEF CauseInv, Cause, ServerErrorHasACause, Current, StampMatches

\* While the database and the user log work, 500 has one of the four causes,
\* whatever else happens - a restart of the process included.
THEOREM ServerErrorsHaveCauses ==
    ASSUME ~ LoggerMayFail, ~ DatabaseMayFail
    PROVE  Spec => []ServerErrorHasACause
<1>1. Init => CauseInv
  BY DEF Init, CauseInv
<1>2. IInv /\ CauseInv /\ [Next]_vars => CauseInv'
  BY CauseStep
<1>3. IInv /\ CauseInv => ServerErrorHasACause
  BY CauseSuffices DEF IInv
<1>4. QED BY <1>1, <1>2, <1>3, Inductive, PTL DEF Spec

-----------------------------------------------------------------------------
(***************************************************************************)
(* Register implements AccountRegistry.                                    *)
(***************************************************************************)
(***************************************************************************)
(* The refinement mapping, in the proofs' terms.                           *)
(***************************************************************************)
Wish == [r \in Requests |-> WishOf(command[r])]
OwnedNames == [r \in Requests |-> NameOf(users[r])]

LEMMA WishOfCommand ==
    ASSUME NEW c \in Commands
    PROVE  /\ WishOf(c) \in [name : Names, wellFormed : BOOLEAN]
           /\ WishOf(c) # NoRow
           /\ WishOf(c).name = NormalizedName[c.email]
           /\ WishOf(c).wellFormed <=> c.flaw = "none"
<1>1. c # NoCommand /\ c.email \in Emails
  BY RegisterAssumption DEF Commands
<1>2. NormalizedName[c.email] \in Names
  BY <1>1, NormalizedNameAssumption
<1>3. WishOf(c) = [name |-> NormalizedName[c.email], wellFormed |-> c.flaw = "none"]
  BY <1>1 DEF WishOf
<1>4. WishOf(c) \in [name : Names, wellFormed : BOOLEAN]
  BY <1>2, <1>3
<1>5. WishOf(c) # NoRow
  BY <1>4, RegistryAssumption
<1>6. WishOf(c).name = NormalizedName[c.email]
  BY <1>3
<1>7. WishOf(c).wellFormed = (c.flaw = "none")
  BY <1>3
<1>8. QED BY <1>4, <1>5, <1>6, <1>7

\* A name is given exactly where there is a row.
LEMMA NamesGiven ==
    ASSUME TypeOK
    PROVE  \A c \in Requests :
             /\ c \notin Registered => OwnedNames[c] = NoRow
             /\ c \in Registered => /\ OwnedNames[c] = NormalizedName[users[c].email]
                                    /\ OwnedNames[c] \in Names
<1> SUFFICES ASSUME NEW c \in Requests
             PROVE  /\ c \notin Registered => OwnedNames[c] = NoRow
                    /\ c \in Registered => /\ OwnedNames[c] = NormalizedName[users[c].email]
                                           /\ OwnedNames[c] \in Names
  OBVIOUS
<1>1. c \notin Registered => OwnedNames[c] = NoRow
  BY Values DEF OwnedNames, NameOf
<1>2. c \in Registered => OwnedNames[c] = NormalizedName[users[c].email]
  BY DEF OwnedNames, NameOf, Registered
<1>3. c \in Registered => OwnedNames[c] \in Names
  BY <1>2, Values, NormalizedNameAssumption
<1>4. QED BY <1>1, <1>2, <1>3

LEMMA NameIsOwned ==
    ASSUME TypeOK, NEW e \in Emails
    PROVE  NameTaken(e) <=> \E c \in Requests : OwnedNames[c] = NormalizedName[e]
<1>1. NormalizedName[e] # NoRow
  BY NormalizedNameAssumption, RegistryAssumption
<1>2. QED
  BY <1>1, NamesGiven, Values DEF NameTaken

(***************************************************************************)
(* What the writes of Register do to the names given.                      *)
(***************************************************************************)
LEMMA GivenByInsert ==
    ASSUME NEW r \in Requests, NEW e \in Emails, RowAdded(r, e)
    PROVE  OwnedNames' = [OwnedNames EXCEPT ![r] = NormalizedName[e]]
<1>1. NameOf(users'[r]) = NormalizedName[e]
  BY NoRowAssumption DEF RowAdded, OnlyRow, NameOf, Row
<1>2. \A c \in Requests : c # r => users'[c] = users[c]
  BY DEF RowAdded, OnlyRow
<1>3. QED
  BY <1>1, <1>2 DEF OwnedNames

LEMMA KeptByUpdate ==
    ASSUME TypeOK, NEW r \in Requests, NEW f \in Nat, RowRewritten(r, f)
    PROVE  OwnedNames' = OwnedNames
<1>1. users'[r] # NoRow /\ users'[r].email = users[r].email
  BY NoRowAssumption, Values DEF RowRewritten, OnlyRow, Row
<1>2. users[r] # NoRow
  BY DEF RowRewritten, Registered
<1>3. \A c \in Requests : c # r => users'[c] = users[c]
  BY DEF RowRewritten, OnlyRow
<1>4. \A c \in Requests : NameOf(users'[c]) = NameOf(users[c])
  BY <1>1, <1>2, <1>3 DEF NameOf
<1>5. QED BY <1>4 DEF OwnedNames

(***************************************************************************)
(* The steps of the registry.                                              *)
(***************************************************************************)
LEMMA Waits ==
    ASSUME IInv, NEW r \in Requests, pc[r] \in InFlight
    PROVE  Registry!Waiting(r) /\ command[r] \in Commands
<1>1. command[r] \in Commands /\ response[r] = "none"
  BY DEF IInv, TypeOK, RowsInv, AnswersInv, InFlight
<1>2. QED
  BY <1>1, WishOfCommand DEF Registry!Waiting

LEMMA MapsToStutter ==
    ASSUME UNCHANGED <<command, response>>, OwnedNames' = OwnedNames
    PROVE  UNCHANGED Registry!registryVars
  BY DEF Registry!registryVars, OwnedNames

LEMMA MapsToBreak ==
    ASSUME IInv, NEW r \in Requests, pc[r] \in InFlight, Throw(r, "ServerError"),
           OwnedNames' = OwnedNames
    PROVE  Registry!Break(r)
<1>1. Registry!Waiting(r)
  BY Waits
<1>2. Registry!Tell(r, "ServerError") /\ UNCHANGED command
  BY DEF Throw, Answer, Registry!Tell
<1>3. QED
  BY <1>1, <1>2 DEF Registry!Break, OwnedNames

\* The insert gives the name that was asked for, and that nobody had.
LEMMA MapsToGive ==
    ASSUME IInv, NEW r \in Requests, pc[r] = "insert", command[r].flaw # "column",
           InsertRow(r, command[r].email), UNCHANGED command
    PROVE  Registry!Give(r)
<1>1. Registry!Waiting(r) /\ command[r] \in Commands
  BY Waits DEF InFlight, Stages
<1>2. command[r].flaw = "none" /\ command[r].email \in Emails
  BY <1>1 DEF IInv, RowsInv, Commands
<1>3. /\ WishOf(command[r]).wellFormed
      /\ WishOf(command[r]).name = NormalizedName[command[r].email]
  BY <1>1, <1>2, WishOfCommand
<1>4. RowAdded(r, command[r].email)
  BY InsertEffect DEF IInv
<1>5. OwnedNames' = [OwnedNames EXCEPT ![r] = NormalizedName[command[r].email]]
  BY <1>2, <1>4, GivenByInsert
<1>6. \A c \in Requests : OwnedNames[c] # NormalizedName[command[r].email]
  BY <1>2, NameIsOwned DEF InsertRow, IInv
<1>7. QED
  BY <1>1, <1>3, <1>5, <1>6 DEF Registry!Give, Registry!Owned, OwnedNames

LEMMA MapsToRefuse ==
    ASSUME IInv, NEW r \in Requests, pc[r] \in InFlight, r \notin Registered,
           Answer(r, "BadRequest"), UNCHANGED users,
           command[r].flaw = "none" => NameTaken(command[r].email)
    PROVE  Registry!Refuse(r)
<1>1. Registry!Waiting(r) /\ command[r] \in Commands
  BY Waits
<1>2. command[r].email \in Emails
  BY <1>1 DEF Commands
<1>3. OwnedNames[r] = NoRow
  BY NamesGiven DEF IInv
<1>4. /\ WishOf(command[r]).wellFormed <=> command[r].flaw = "none"
      /\ WishOf(command[r]).name = NormalizedName[command[r].email]
  BY <1>1, WishOfCommand
<1>5. WishOf(command[r]).wellFormed =>
        \E c \in Requests : OwnedNames[c] = WishOf(command[r]).name
  BY <1>2, <1>4, NameIsOwned DEF IInv
<1>6. QED
  BY <1>1, <1>3, <1>5 DEF Registry!Refuse, Registry!Owned, Registry!Tell, OwnedNames, Answer

LEMMA MapsToAccept ==
    ASSUME IInv, NEW r \in Requests, Commit(r)
    PROVE  Registry!Accept(r)
<1>1. Registry!Waiting(r) /\ command[r] \in Commands
  BY Waits DEF Commit, InFlight, Stages
<1>2. UNCHANGED users
  BY CommitEffect DEF IInv
<1>3. r \in Registered /\ users[r].email = command[r].email
  BY DEF Commit, IInv, RowsInv
<1>4. OwnedNames[r] = WishOf(command[r]).name
  BY <1>1, <1>3, NamesGiven, WishOfCommand DEF IInv
<1>5. QED
  BY <1>1, <1>2, <1>4 DEF Commit, Answer, Registry!Accept, Registry!Tell, OwnedNames

LEMMA MapsToAsk ==
    ASSUME IInv, NEW r \in Requests, Receive(r)
    PROVE  Registry!Ask(r)
<1>1. PICK c \in Commands : command' = [command EXCEPT ![r] = c]
  BY DEF Receive
<1>2. Wish[r] = NoRow
  BY DEF Receive, IInv, RowsInv, Wish, WishOf
<1>3. command \in [Requests -> Commands \cup {NoCommand}]
  BY DEF IInv, TypeOK
<1>4. Wish' = [Wish EXCEPT ![r] = WishOf(c)]
  BY <1>1, <1>3 DEF Wish
<1>5. WishOf(c) \in Registry!Wishes
  BY <1>1, WishOfCommand DEF Registry!Wishes
<1>6. QED
  BY <1>2, <1>4, <1>5 DEF Receive, Registry!Ask, Wish

\* Whoever is in flight is who waits, so a crash loses exactly the answers due.
LEMMA MapsToLose ==
    ASSUME IInv, Crash
    PROVE  Registry!Lose
<1>1. \A r \in Requests : pc[r] \in InFlight => Registry!Waiting(r)
  BY Waits
<1>2. \A r \in Requests : pc[r] = "idle" => ~ Registry!Waiting(r)
  BY DEF IInv, RowsInv, WishOf, Registry!Waiting
<1>3. \A r \in Requests : pc[r] = "done" => ~ Registry!Waiting(r)
  BY DEF IInv, AnswersInv, Registry!Waiting
<1>4. \A r \in Requests : pc[r] \in InFlight \/ pc[r] = "idle" \/ pc[r] = "done"
  BY DEF IInv, TypeOK, InFlight
<1>5. \A r \in Requests : pc[r] \in InFlight <=> Registry!Waiting(r)
  BY <1>1, <1>2, <1>3, <1>4
<1>6. QED
  BY <1>5 DEF Crash, Registry!Lose

(***************************************************************************)
(* The steps of Register, one after the other.                             *)
(***************************************************************************)
RegistryStep == [Registry!RegistryNext]_(Registry!registryVars)

LEMMA OneClient ==
    ASSUME NEW r \in Requests,
           \/ Registry!Ask(r) \/ Registry!GiveQuietly(r) \/ Registry!Accept(r)
           \/ Registry!Refuse(r) \/ Registry!Break(r)
    PROVE  RegistryStep
  BY DEF RegistryStep, Registry!RegistryNext, Registry!Decide

\* The requests that are turned away: told 400 with nothing given, or 500.
LEMMA RejectionsMap ==
    ASSUME IInv, NEW r \in Requests,
           \/ RejectBody(r) \/ RejectInvalid(r) \/ RejectRule(r) \/ RejectIdentity(r)
           \/ RejectDuplicate(r) \/ InsertRefused(r)
    PROVE  RegistryStep
<1>1. pc[r] \in InFlight /\ r \notin Registered
  BY DEF IInv, RowsInv, InFlight, Stages, RejectBody, RejectInvalid, RejectRule,
         RejectIdentity, RejectDuplicate, InsertRefused
<1>2. CASE RejectRule(r) \/ InsertRefused(r)
  <2>1. Throw(r, "ServerError") /\ UNCHANGED users
    BY <1>2 DEF RejectRule, InsertRefused
  <2>2. OwnedNames' = OwnedNames
    BY <2>1 DEF OwnedNames
  <2>3. QED BY <1>1, <2>1, <2>2, MapsToBreak, OneClient
<1>3. CASE RejectBody(r) \/ RejectInvalid(r) \/ RejectIdentity(r) \/ RejectDuplicate(r)
  <2>1. Answer(r, "BadRequest") /\ UNCHANGED users
    BY <1>3 DEF RejectBody, RejectInvalid, RejectIdentity, RejectDuplicate, Throw
  <2>2. command[r].flaw = "none" => NameTaken(command[r].email)
    BY <1>3 DEF RejectBody, RejectInvalid, RejectIdentity, RejectDuplicate
  <2>3. QED BY <1>1, <2>1, <2>2, MapsToRefuse, OneClient
<1>4. QED BY <1>2, <1>3

\* The steps that neither give a name nor answer anybody.
LEMMA QuietStepsMap ==
    ASSUME IInv, NEW r \in Requests,
           \/ BuildUser(r) \/ TrackUser(r) \/ UpdateUser(r) \/ UpdateConflict(r)
           \/ LogUserCreated(r) \/ FailedSignIn(r)
    PROVE  RegistryStep
<1>1. UNCHANGED <<command, response>>
  BY DEF BuildUser, TrackUser, UpdateUser, UpdateConflict, LogUserCreated, GoTo,
         FailedSignIn, requestVars
<1>2. OwnedNames' = OwnedNames
  <2>1. CASE UpdateUser(r)
    <3>1. RowRewritten(r, tracked[r].failed) /\ tracked[r].failed \in Nat
      BY <2>1, UpdateEffect, Values DEF UpdateUser, IInv
    <3>2. QED BY <3>1, KeptByUpdate DEF IInv
  <2>2. CASE FailedSignIn(r)
    <3>1. RowRewritten(r, users[r].failed + 1) /\ users[r].failed + 1 \in Nat
      BY <2>2, SignInEffect, Values DEF FailedSignIn, IInv
    <3>2. QED BY <3>1, KeptByUpdate DEF IInv
  <2>3. CASE BuildUser(r) \/ TrackUser(r) \/ UpdateConflict(r) \/ LogUserCreated(r)
    BY <2>3 DEF BuildUser, TrackUser, UpdateConflict, LogUserCreated, OwnedNames
  <2>4. QED BY <2>1, <2>2, <2>3
<1>3. QED BY <1>1, <1>2, MapsToStutter DEF RegistryStep

\* The failures after the check, and the lost statements and answers.
LEMMA FailuresMap ==
    ASSUME IInv, NEW r \in Requests,
           \/ LogUserCreatedFails(r) \/ CommitConflict(r)
           \/ StatementLost(r) \/ AnswerLost(r)
    PROVE  RegistryStep
<1>1. pc[r] \in InFlight /\ Throw(r, "ServerError")
  BY DEF InFlight, Stages, LogUserCreatedFails, CommitConflict, StatementLost, AnswerLost
<1>2. CASE UNCHANGED users
  <2>1. OwnedNames' = OwnedNames
    BY <1>2 DEF OwnedNames
  <2>2. QED BY <1>1, <2>1, MapsToBreak, OneClient
<1>3. CASE /\ pc[r] = "insert" /\ command[r].flaw # "column"
           /\ InsertRow(r, command[r].email)
  <2>1. UNCHANGED command /\ Registry!Tell(r, "ServerError")
    BY <1>1 DEF Throw, Answer, Registry!Tell
  <2>2. Registry!Give(r) /\ Registry!Waiting(r)
    BY <1>1, <1>3, <2>1, MapsToGive, Waits
  <2>3. QED BY <2>1, <2>2, OneClient DEF Registry!Break
<1>4. CASE UpdateRow(r, tracked[r].stamp, tracked[r].failed)
  <2>1. RowRewritten(r, tracked[r].failed) /\ tracked[r].failed \in Nat
    BY <1>4, UpdateEffect, Values DEF IInv
  <2>2. OwnedNames' = OwnedNames
    BY <2>1, KeptByUpdate DEF IInv
  <2>3. QED BY <1>1, <2>2, MapsToBreak, OneClient
<1>5. QED
  BY <1>2, <1>3, <1>4 DEF LogUserCreatedFails, CommitConflict, StatementLost, AnswerLost

LEMMA InsertMaps ==
    ASSUME IInv, NEW r \in Requests, InsertUser(r)
    PROVE  RegistryStep
<1>1. Registry!Give(r)
  BY MapsToGive DEF InsertUser, GoTo
<1>2. UNCHANGED response
  BY DEF InsertUser, GoTo
<1>3. QED BY <1>1, <1>2, OneClient DEF Registry!GiveQuietly

LEMMA StepMaps == IInv /\ [Next]_vars => RegistryStep
<1> SUFFICES ASSUME IInv, [Next]_vars PROVE RegistryStep
  OBVIOUS
<1>1. ASSUME NEW r \in Requests, Receive(r) \/ Commit(r) PROVE RegistryStep
  BY <1>1, MapsToAsk, MapsToAccept, OneClient
<1>2. ASSUME NEW r \in Requests, Serve(r) PROVE RegistryStep
  BY <1>1, <1>2, RejectionsMap, QuietStepsMap, InsertMaps, FailuresMap DEF Serve
<1>3. ASSUME NEW r \in Requests, StatementLost(r) \/ AnswerLost(r) \/ FailedSignIn(r)
      PROVE  RegistryStep
  BY <1>3, QuietStepsMap, FailuresMap
<1>4. CASE Crash
  BY <1>4, MapsToLose DEF RegistryStep, Registry!RegistryNext
<1>5. CASE UNCHANGED vars
  <2>1. UNCHANGED <<command, response>> /\ OwnedNames' = OwnedNames
    BY <1>5 DEF vars, OwnedNames
  <2>2. QED BY <2>1, MapsToStutter DEF RegistryStep
<1>6. QED BY <1>1, <1>2, <1>3, <1>4, <1>5 DEF Next

\* Register implements the registry: whatever requests do to each other and
\* whatever breaks, a name is given once and for good, to a client that asked
\* for it in a well-formed command; 201 is told to its owner only, and 400 only
\* to clients who own nothing and could not own the name at that moment.
THEOREM RegisterImplementsRegistry == Spec => ImplementsRegistry
<1>1. Init => Registry!RegistryInit
  BY DEF Init, AccountsInit, Registry!RegistryInit, WishOf, NameOf
<1>2. IInv /\ [Next]_vars => [Registry!RegistryNext]_(Registry!registryVars)
  BY StepMaps DEF RegistryStep
<1>3. QED
  BY <1>1, <1>2, Inductive, PTL DEF Spec, ImplementsRegistry, Registry!RegistrySpec
=============================================================================
