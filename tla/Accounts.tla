------------------------------- MODULE Accounts -------------------------------
(***************************************************************************)
(* The state that every request of the API shares: the AspNetUsers table   *)
(* of PostgreSQL and the user log (Elasticsearch, or the console when      *)
(* logging is disabled), with the reads and the writes that Identity and   *)
(* UserRepository make on them.  Each operator below is one SQL statement  *)
(* or one indexing call, hence one atomic step of the caller.              *)
(*                                                                         *)
(* A row is identified by the Guid that the User constructor draws.  The   *)
(* columns kept are those the properties tell apart: the e-mail (which is  *)
(* also the user name), the ConcurrencyStamp - a fresh Guid on every       *)
(* write, modelled by a version number that is never reused - and          *)
(* AccessFailedCount, the column another request may write meanwhile.      *)
(***************************************************************************)
EXTENDS Naturals

CONSTANTS
    UserIds,         \* identifiers of user rows
    Emails,          \* e-mail addresses as they are typed
    Names,           \* normalized user names
    NormalizedName,  \* the e-mail's normalized form (upper case): Emails -> Names
    NoRow            \* the absence of a row

Row == [email : Emails, stamp : Nat, failed : Nat]

ASSUME NormalizedNameAssumption == NormalizedName \in [Emails -> Names]
ASSUME NoRowAssumption == NoRow \notin Row

VARIABLES
    users,  \* the table: the row of every identifier, NoRow when there is none
    audit   \* the entries of the user log

accountVars == <<users, audit>>

UserEventType == {"UserCreated", "UserLoggedIn", "UserPasswordReset"}
LogEntry == [event : UserEventType, user : UserIds]

AccountsTypeOK ==
    /\ users \in [UserIds -> Row \cup {NoRow}]
    /\ audit \subseteq LogEntry

AccountsInit ==
    /\ users = [u \in UserIds |-> NoRow]
    /\ audit = {}

-----------------------------------------------------------------------------
Registered == {u \in UserIds : users[u] # NoRow}

\* SELECT by NormalizedUserName, also what the unique index looks up.
NameTaken(e) ==
    \E u \in Registered : NormalizedName[users[u].email] = NormalizedName[e]

\* Variant: a table whose index on the normalized name is not unique.
InsertRowUnindexed(u, e) ==
    users' = [users EXCEPT ![u] = [email |-> e, stamp |-> 0, failed |-> 0]]

\* INSERT: the unique index refuses a second row with the same normalized name.
InsertRow(u, e) ==
    /\ ~ NameTaken(e)
    /\ users' = [users EXCEPT ![u] = [email |-> e, stamp |-> 0, failed |-> 0]]

\* Variant: no concurrency token, the last writer wins.
RowExists(u, stamp) == u \in Registered

\* UPDATE ... WHERE "ConcurrencyStamp" = the stamp that was read: one row or none.
StampMatches(u, stamp) == u \in Registered /\ users[u].stamp = stamp

\* Variant: the stamp is kept instead of drawn anew.
WithRowSameStamp(u, stamp, failed) ==
    [users EXCEPT ![u] = [email |-> users[u].email, stamp |-> stamp, failed |-> failed]]

WithRow(u, stamp, failed) ==
    [users EXCEPT ![u] = [email |-> users[u].email, stamp |-> stamp + 1, failed |-> failed]]

UpdateRow(u, stamp, failed) ==
    /\ StampMatches(u, stamp)
    /\ users' = WithRow(u, stamp, failed)

\* AccessFailedAsync of another request: a wrong password was given for u.
AccessFailed(u) ==
    /\ u \in Registered
    /\ UpdateRow(u, users[u].stamp, users[u].failed + 1)
    /\ UNCHANGED audit

LogUserEvent(event, u) == audit' = audit \cup {[event |-> event, user |-> u]}
=============================================================================
