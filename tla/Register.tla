------------------------------- MODULE Register -------------------------------
(***************************************************************************)
(* POST /api/register: concurrent registrations against one table.         *)
(*                                                                         *)
(* A request runs AccountController.Register, CommandsExecutor.Execute,    *)
(* the mediator's behaviours (logging, unit of work, user injection,       *)
(* validation) and RegisterUserCommandHandler.  Nothing is locked and no   *)
(* transaction spans the request: every database or Elasticsearch call is  *)
(* an await at which the other requests may run, so each such call is an   *)
(* action of its own, together with the code up to the next await.         *)
(*                                                                         *)
(* Every execution gets its own DI scope, so its own DbContext: tracked[r] *)
(* is the one entry of that context's change tracker.                      *)
(***************************************************************************)
EXTENDS Accounts

CONSTANTS
    Flaws,            \* what may be wrong with a command, and "none"
    NoCommand,        \* a request that was not sent yet
    MaxFailed,        \* bound on AccessFailedCount
    LoggerMayFail,    \* Elasticsearch may be down, or its answer may be lost
    DatabaseMayFail,  \* a statement or its answer may be lost
    MayCrash          \* the process may stop and restart

(***************************************************************************)
(* The first gate of the pipeline that a command does not pass:            *)
(*   body      model binding or [ApiController]'s ModelState check         *)
(*   validator RegisterUserCommandValidator ("jo", "no-digit-Password")    *)
(*   rule      a value object's rule ("Jo ", which the validator does not  *)
(*             trim, or "ann@host", which it takes for an address)         *)
(*   identity  UserManager's own password and user name validators         *)
(*   column    varchar(100) of the name columns                            *)
(***************************************************************************)
AllFlaws == {"none", "body", "validator", "rule", "identity", "column"}
Commands == [email : Emails, flaw : Flaws]

\* A request is named by the Guid that its user gets if it comes that far.
Requests == UserIds

ASSUME RegisterAssumption ==
    /\ Flaws \subseteq AllFlaws
    /\ NoCommand \notin Commands
    /\ MaxFailed \in Nat
    /\ {LoggerMayFail, DatabaseMayFail, MayCrash} \subseteq BOOLEAN

VARIABLES
    command,   \* the command of each request
    pc,        \* where its execution stands
    tracked,   \* its change tracker's entry for the user it creates
    response   \* what the client got

requestVars == <<command, pc, tracked, response>>
vars == <<users, audit, command, pc, tracked, response>>

Stages == {"idle", "validate", "check", "insert", "update", "log", "commit", "done"}
InFlight == Stages \ {"idle", "done"}
EntityStates == {"Detached", "Added", "Unchanged", "Modified"}
Entries == [state : EntityStates, stamp : Nat, failed : Nat]
Responses == {"none", "Created", "BadRequest", "ServerError", "Lost"}

TypeOK ==
    /\ AccountsTypeOK
    /\ command \in [Requests -> Commands \cup {NoCommand}]
    /\ pc \in [Requests -> Stages]
    /\ tracked \in [Requests -> Entries]
    /\ response \in [Requests -> Responses]

NewUser == [state |-> "Detached", stamp |-> 0, failed |-> 0]

Init ==
    /\ AccountsInit
    /\ command = [r \in Requests |-> NoCommand]
    /\ pc = [r \in Requests |-> "idle"]
    /\ tracked = [r \in Requests |-> NewUser]
    /\ response = [r \in Requests |-> "none"]

-----------------------------------------------------------------------------
\* The row that an entry stands for is still the one the request read or wrote.
Current(r) == StampMatches(r, tracked[r].stamp)

GoTo(r, stage) ==
    /\ pc' = [pc EXCEPT ![r] = stage]
    /\ UNCHANGED <<command, response>>

Answer(r, status) ==
    /\ pc' = [pc EXCEPT ![r] = "done"]
    /\ response' = [response EXCEPT ![r] = status]
    /\ UNCHANGED command

\* SaveChanges accepts the changes it wrote; an unchanged entry sends nothing.
Saved(entry) ==
    IF entry.state = "Modified"
      THEN [state |-> "Unchanged", stamp |-> entry.stamp + 1, failed |-> entry.failed]
      ELSE entry

\* Variant: RevertAsync deletes what was added.
RevertedToDeleted(entry) ==
    [entry EXCEPT !.state = IF @ = "Modified" THEN "Unchanged"
                            ELSE IF @ = "Added" THEN "Deleted" ELSE @]

\* UnitOfWork.RevertAsync touches the change tracker and nothing else.
Reverted(entry) ==
    [entry EXCEPT !.state = IF @ = "Modified" THEN "Unchanged"
                            ELSE IF @ = "Added" THEN "Detached" ELSE @]

\* Variant: the controller catches every exception.
ThrowAsBadRequest(r, status) ==
    /\ tracked' = [tracked EXCEPT ![r] = Reverted(@)]
    /\ Answer(r, "BadRequest")

\* An exception leaves the handler: revert, rethrow, and only an
\* InvalidCommandException is caught by the controller.
Throw(r, status) ==
    /\ tracked' = [tracked EXCEPT ![r] = Reverted(@)]
    /\ Answer(r, status)

-----------------------------------------------------------------------------
Receive(r) ==
    /\ pc[r] = "idle"
    /\ \E c \in Commands : command' = [command EXCEPT ![r] = c]
    /\ pc' = [pc EXCEPT ![r] = "validate"]
    /\ UNCHANGED <<users, audit, tracked, response>>

RejectBody(r) ==
    /\ pc[r] = "validate"
    /\ command[r].flaw = "body"
    /\ Answer(r, "BadRequest")
    /\ UNCHANGED <<users, audit, tracked>>

\* Variant: the controller does not catch InvalidCommandException.
RejectInvalidUncaught(r) ==
    /\ pc[r] = "validate"
    /\ command[r].flaw = "validator"
    /\ Throw(r, "ServerError")
    /\ UNCHANGED <<users, audit>>

RejectInvalid(r) ==
    /\ pc[r] = "validate"
    /\ command[r].flaw = "validator"
    /\ Throw(r, "BadRequest")
    /\ UNCHANGED <<users, audit>>

\* new Name, new Email or new UserName throws BusinessRuleValidationException.
RejectRule(r) ==
    /\ pc[r] = "validate"
    /\ command[r].flaw = "rule"
    /\ Throw(r, "ServerError")
    /\ UNCHANGED <<users, audit>>

\* CreateAsync validates the password before it touches the store; the failed
\* result is returned, and the unit of work then commits an empty tracker.
RejectIdentity(r) ==
    /\ pc[r] = "validate"
    /\ command[r].flaw = "identity"
    /\ Answer(r, "BadRequest")
    /\ UNCHANGED <<users, audit, tracked>>

\* Variant: registrations take a lock that is never given back.
BuildUserUnderLock(r) ==
    /\ pc[r] = "validate"
    /\ command[r].flaw \in {"none", "column"}
    /\ \A q \in Requests \ {r} : pc[q] \in {"idle", "validate"}
    /\ GoTo(r, "check")
    /\ UNCHANGED <<users, audit, tracked>>

BuildUser(r) ==
    /\ pc[r] = "validate"
    /\ command[r].flaw \in {"none", "column"}
    /\ GoTo(r, "check")
    /\ UNCHANGED <<users, audit, tracked>>

\* CreateAsync's duplicate check: FindByNameAsync found somebody.
RejectDuplicate(r) ==
    /\ pc[r] = "check"
    /\ NameTaken(command[r].email)
    /\ Answer(r, "BadRequest")
    /\ UNCHANGED <<users, audit, tracked>>

\* Variant: the event is logged before the row is inserted.
TrackUserLogsFirst(r) ==
    /\ pc[r] = "check"
    /\ ~ NameTaken(command[r].email)
    /\ tracked' = [tracked EXCEPT ![r].state = "Added"]
    /\ GoTo(r, "insert")
    /\ LogUserEvent("UserCreated", r)
    /\ UNCHANGED users

\* Nobody found: the store adds the user to the context.
TrackUser(r) ==
    /\ pc[r] = "check"
    /\ ~ NameTaken(command[r].email)
    /\ tracked' = [tracked EXCEPT ![r].state = "Added"]
    /\ GoTo(r, "insert")
    /\ UNCHANGED <<users, audit>>

\* The store saves by itself: the row is there before the unit of work commits.
InsertUser(r) ==
    /\ pc[r] = "insert"
    /\ command[r].flaw # "column"
    /\ InsertRow(r, command[r].email)
    /\ tracked' = [tracked EXCEPT ![r].state = "Unchanged"]
    /\ GoTo(r, "update")
    /\ UNCHANGED audit

\* DbUpdateException: the unique index, or a column that is too short.
InsertRefused(r) ==
    /\ pc[r] = "insert"
    /\ NameTaken(command[r].email) \/ command[r].flaw = "column"
    /\ Throw(r, "ServerError")
    /\ UNCHANGED <<users, audit>>

\* UserManager.UpdateAsync on the row just inserted writes every column.
UpdateUser(r) ==
    /\ pc[r] = "update"
    /\ UpdateRow(r, tracked[r].stamp, tracked[r].failed)
    /\ tracked' = [tracked EXCEPT ![r].stamp = @ + 1]
    /\ GoTo(r, "log")
    /\ UNCHANGED audit

\* Variants: the handler returns the errors of UpdateAsync to the client ...
UpdateConflictReturned(r) ==
    /\ pc[r] = "update"
    /\ ~ Current(r)
    /\ tracked' = [tracked EXCEPT ![r].state = "Modified"]
    /\ Answer(r, "BadRequest")
    /\ UNCHANGED <<users, audit>>

\* ... or reloads the stamp and lets the commit write its own values ...
UpdateConflictReloads(r) ==
    /\ pc[r] = "update"
    /\ ~ Current(r)
    /\ tracked' = [tracked EXCEPT ![r].state = "Modified", ![r].stamp = users[r].stamp]
    /\ GoTo(r, "log")
    /\ UNCHANGED <<users, audit>>

\* ... or tries again until the stamp matches.
UpdateConflictRetries(r) ==
    /\ pc[r] = "update"
    /\ ~ Current(r)
    /\ UNCHANGED vars

\* Somebody wrote the row first.  The store turns the concurrency exception
\* into a failed result, which the handler ignores; the entry stays Modified.
UpdateConflict(r) ==
    /\ pc[r] = "update"
    /\ ~ Current(r)
    /\ tracked' = [tracked EXCEPT ![r].state = "Modified"]
    /\ GoTo(r, "log")
    /\ UNCHANGED <<users, audit>>

LogUserCreated(r) ==
    /\ pc[r] = "log"
    /\ LogUserEvent("UserCreated", r)
    /\ GoTo(r, "commit")
    /\ UNCHANGED <<users, tracked>>

\* Variant: the logger swallows the failure.
LogUserCreatedFailsQuietly(r) ==
    /\ LoggerMayFail
    /\ pc[r] = "log"
    /\ GoTo(r, "commit")
    /\ UNCHANGED <<users, audit, tracked>>

\* Variant: the handler takes the account back when it can not be logged.
LogUserCreatedFailsUndone(r) ==
    /\ LoggerMayFail
    /\ pc[r] = "log"
    /\ Throw(r, "ServerError")
    /\ users' = [users EXCEPT ![r] = NoRow]
    /\ UNCHANGED audit

\* ElasticUserLoggerService throws on an invalid response; the entry may have
\* been indexed all the same.
LogUserCreatedFails(r) ==
    /\ LoggerMayFail
    /\ pc[r] = "log"
    /\ LogUserEvent("UserCreated", r) \/ UNCHANGED audit
    /\ Throw(r, "ServerError")
    /\ UNCHANGED users

\* UnitOfWork.CommitAsync.  Nothing is left to save unless UpdateAsync was
\* refused; then SaveChanges sends the same statement again, for the same stamp.
Commit(r) ==
    /\ pc[r] = "commit"
    /\ tracked[r].state = "Modified" => Current(r)
    /\ users' = IF tracked[r].state = "Modified"
                   THEN WithRow(r, tracked[r].stamp, tracked[r].failed)
                   ELSE users
    /\ tracked' = [tracked EXCEPT ![r] = Saved(@)]
    /\ Answer(r, "Created")
    /\ UNCHANGED audit

\* DbUpdateConcurrencyException: the row is not the one that was read.
CommitConflict(r) ==
    /\ pc[r] = "commit"
    /\ tracked[r].state = "Modified"
    /\ ~ Current(r)
    /\ Throw(r, "ServerError")
    /\ UNCHANGED <<users, audit>>

Serve(r) ==
    \/ RejectBody(r) \/ RejectInvalid(r) \/ RejectRule(r) \/ RejectIdentity(r)
    \/ BuildUser(r) \/ RejectDuplicate(r) \/ TrackUser(r)
    \/ InsertUser(r) \/ InsertRefused(r) \/ UpdateUser(r) \/ UpdateConflict(r)
    \/ LogUserCreated(r) \/ LogUserCreatedFails(r) \/ Commit(r) \/ CommitConflict(r)

-----------------------------------------------------------------------------
\* The connection breaks before the statement reaches the database ...
StatementLost(r) ==
    /\ DatabaseMayFail
    /\ \/ pc[r] \in {"check", "insert", "update"}
       \/ pc[r] = "commit" /\ tracked[r].state = "Modified"
    /\ Throw(r, "ServerError")
    /\ UNCHANGED <<users, audit>>

\* ... or after the database executed it.
AnswerLost(r) ==
    /\ DatabaseMayFail
    /\ \/ /\ pc[r] = "insert"
          /\ command[r].flaw # "column"
          /\ InsertRow(r, command[r].email)
       \/ /\ pc[r] = "update"
          /\ UpdateRow(r, tracked[r].stamp, tracked[r].failed)
    /\ Throw(r, "ServerError")
    /\ UNCHANGED audit

\* The container stops and is restarted: in-flight requests get no answer.
Crash ==
    /\ MayCrash
    /\ \E r \in Requests : pc[r] \in InFlight
    /\ pc' = [r \in Requests |-> IF pc[r] \in InFlight THEN "done" ELSE pc[r]]
    /\ response' = [r \in Requests |-> IF pc[r] \in InFlight THEN "Lost" ELSE response[r]]
    /\ UNCHANGED <<users, audit, command, tracked>>

\* A sign-in with a wrong password, served by another request.
FailedSignIn(u) ==
    /\ u \in Registered
    /\ users[u].failed < MaxFailed
    /\ AccessFailed(u)
    /\ UNCHANGED requestVars

Next ==
    \/ \E r \in Requests :
        Receive(r) \/ Serve(r) \/ StatementLost(r) \/ AnswerLost(r) \/ FailedSignIn(r)
    \/ Crash

Spec == Init /\ [][Next]_vars

\* The server runs the requests it received; clients, faults and other
\* requests owe nothing.
FairSpec == Spec /\ \A r \in Requests : WF_vars(Serve(r))
-----------------------------------------------------------------------------
(***************************************************************************)
(* Safety.                                                                 *)
(***************************************************************************)

\* Two registrations never end up with the same user name, although the check
\* (FindByNameAsync) and the insert are different statements.
UniqueUserName ==
    \A u, v \in Registered :
        NormalizedName[users[u].email] = NormalizedName[users[v].email] => u = v

\* 201 is only answered when the registration is durable: the row is in the
\* table under the e-mail asked for and the user log has the entry, whatever
\* was done to the row and by whomever since it was inserted.
CreatedIsDurable ==
    \A r \in Requests : response[r] = "Created" =>
        /\ r \in Registered
        /\ users[r].email = command[r].email
        /\ [event |-> "UserCreated", user |-> r] \in audit

\* The handler ignores that UpdateAsync was refused because the row had changed.
\* The unit of work is what notices: the entry is still Modified when it saves,
\* and the stamp it was read with never matches again, so the command fails
\* instead of overwriting the row.
RefusedWriteStaysRefused ==
    \A r \in Requests :
        pc[r] \in {"log", "commit"} /\ tracked[r].state = "Modified" => ~ Current(r)

\* A client told 400 may correct the command and send it again: the refused
\* request left neither a row nor a log entry behind.
BadRequestLeavesNothing ==
    \A r \in Requests : response[r] = "BadRequest" =>
        /\ r \notin Registered
        /\ [event |-> "UserCreated", user |-> r] \notin audit

\* The user log never names an account that is not in the table.
LogImpliesRow == \A entry \in audit : entry.user \in Registered

\* With the database and Elasticsearch up, 500 has one of four causes: a rule
\* the validator does not know, a column that is too short, a race lost to
\* another registration of the name, or a sign-in that wrote the row
\* between the two writes of its registration (the account exists and works).
ServerErrorHasACause ==
    \A r \in Requests : response[r] = "ServerError" =>
        \/ command[r].flaw \in {"rule", "column"}
        \/ r \notin Registered /\ NameTaken(command[r].email)
        \/ r \in Registered /\ ~ Current(r)

\* No step of a registration undoes what another request wrote to a row: an
\* account never disappears, never changes its name, and AccessFailedCount
\* never goes back although UpdateAsync rewrites every column.
NothingUndone ==
    [][\A u \in Registered :
        /\ u \in Registered'
        /\ users'[u].email = users[u].email
        /\ users'[u].failed >= users[u].failed]_vars

(***************************************************************************)
(* Liveness.                                                               *)
(***************************************************************************)

\* As long as nothing breaks, once a well-formed registration for a name is
\* received the name gets an account - its own, or that of the rival it lost
\* the race to: concurrent requests never refuse each other.
WellFormedNameGetsAccount ==
    \A e \in Emails :
        (\E r \in Requests : /\ pc[r] = "validate"
                             /\ command[r] = [email |-> e, flaw |-> "none"])
            ~> NameTaken(e)

(***************************************************************************)
(* Register implements AccountRegistry: a client owns the normalized name  *)
(* of its row, and only a command without a flaw is a well-formed wish.    *)
(***************************************************************************)
WishOf(c) ==
    IF c = NoCommand
      THEN NoRow
      ELSE [name |-> NormalizedName[c.email], wellFormed |-> c.flaw = "none"]

NameOf(row) == IF row = NoRow THEN NoRow ELSE NormalizedName[row.email]

\* "No row" stands for no wish and no name as well.
ASSUME RegistryAssumption == NoRow \notin Names \cup [name : Names, wellFormed : BOOLEAN]

Registry == INSTANCE AccountRegistry WITH
    Clients <- Requests,
    None <- NoRow,
    wish <- [r \in Requests |-> WishOf(command[r])],
    owned <- [r \in Requests |-> NameOf(users[r])],
    answer <- response

\* Every behaviour of the API is one of the registry: names are given once and
\* for good, 201 and 400 tell the truth, and every client that waits is told.
ImplementsRegistry == Registry!RegistrySpec
ImplementsFairRegistry == Registry!FairRegistrySpec

(***************************************************************************)
(* The inductive invariant behind the safety properties.                   *)
(***************************************************************************)

\* A row belongs to a command without a flaw, and to a request past its insert.
RowsInv ==
    \A r \in Requests :
        /\ pc[r] = "idle" <=> command[r] = NoCommand
        /\ pc[r] \in {"check", "insert"} => command[r].flaw \in {"none", "column"}
        /\ pc[r] \in {"idle", "validate", "check", "insert"} => r \notin Registered
        /\ pc[r] \in {"update", "log", "commit"} => r \in Registered
        /\ r \in Registered => /\ users[r].email = command[r].email
                              /\ command[r].flaw = "none"

\* What the change tracker knows: nothing before the insert, then a version of
\* the row that is the current one exactly when the stamps are equal, and an
\* outdated one when a write was refused.
TrackerInv ==
    \A r \in Requests :
        /\ pc[r] \in {"idle", "validate", "check", "insert"} =>
              tracked[r].stamp = 0 /\ tracked[r].failed = 0
        /\ pc[r] = "update" => tracked[r].state = "Unchanged"
        /\ pc[r] \in {"update", "log", "commit"} =>
              /\ tracked[r].stamp <= users[r].stamp
              /\ tracked[r].stamp = users[r].stamp => tracked[r].failed = users[r].failed
        /\ pc[r] \in {"log", "commit"} /\ tracked[r].state = "Modified" =>
              tracked[r].stamp < users[r].stamp

\* When an answer is given, and what was logged by then.
AnswersInv ==
    \A r \in Requests :
        /\ pc[r] = "done" <=> response[r] # "none"
        /\ pc[r] = "commit" => [event |-> "UserCreated", user |-> r] \in audit
        /\ response[r] = "Created" =>
              r \in Registered /\ [event |-> "UserCreated", user |-> r] \in audit
        /\ response[r] = "BadRequest" => r \notin Registered

IInv ==
    /\ TypeOK
    /\ UniqueUserName
    /\ LogImpliesRow
    /\ RowsInv
    /\ TrackerInv
    /\ AnswersInv

(***************************************************************************)
(* What the repository says and the code does not do.                      *)
(***************************************************************************)

\* UnitOfWorkPipelineBehaviour.cs:8: "ensures Unit of Work is committed if the
\* command succeeds, or reverted if an exception occurs".
ExceptionReverts ==
    \A r \in Requests : response[r] = "ServerError" => r \notin Registered
=============================================================================
