# A formal model of the account API

The repository is an ASP.NET Core template: a hand-written mediator with
pipeline behaviours, a unit of work with domain events over Entity Framework
Core, and ASP.NET Identity for the accounts, on PostgreSQL, with a user log in
Elasticsearch.  The modules in this directory model the parts of it that keep
state or run concurrently, TLC checks them on small instances, and TLAPS proves
the most important results for every instance.

Paths below are relative to the repository's `src/` directory
(`Project.Api/...`, `Project.Application/...`, `Project.Domain/...`,
`Project.Infrastructure/...`, `Project.Logging/...`).

## 1. Inventory

| Component | State | Operations | Interacts with |
|---|---|---|---|
| `AccountController` (`Project.Api/Controllers/Users`) | none | `Register`, `GetUserInfo` | executors; maps `InvalidCommandException` to 400 |
| `CommandsExecutor`, `QueriesExecutor`, `Mediator`, `MediatorModule` (`Project.Infrastructure/Processing`) | a DI scope per execution | `Execute`, `Send`, `Publish` | behaviours, handlers |
| Behaviours: user injection (two), logging, unit of work, validation | none | `Handle` around `next` | outermost first, a command with a result gets user injection, logging, unit of work, user injection again, validation; other requests get fewer of them |
| `UnitOfWork`, `UnitOfWorkPipelineBehavior` | the scope's change tracker | `CommitAsync`, `RevertAsync` | dispatcher, database |
| `Entity`, `DomainEventsDispatcher` | the pending events of every entity | `AddDomainEvent`, `ClearDomainEvents`, `DispatchEventsAsync` | `Mediator.Publish` |
| `RegisterUserCommand`, its validator and handler | none | `Handle` | value objects, `UserManager`, user log |
| `User`, value objects, rules (`Project.Domain`), converters | names, e-mail | constructors, `Rename`, `SetValue`, equality | change tracker |
| `UserRepository`, `ApplicationDbContext`, migrations | the table `AspNetUsers` | reads and writes of one row | PostgreSQL |
| User log (`ElasticUserLoggerService`, `DefaultUserLoggerService`) | the index `user-events` | `LogUserCreated`, `LogUserLoggedIn`, `LogUserPasswordReset` | Elasticsearch, or the console |
| Identity's endpoints with `LoggingSignInManager`, `LoggingUserManager` | failed sign-ins, lockout, password, stamps in `AspNetUsers` | `/login`, `/resetPassword` | user log |
| `GetUserDetailsQuery` and its handler | none | one read | `UserRepository` |
| Correlation ids, CORS, Swagger, monitoring, problem details, typed-id converters | configuration | - | - |

What makes the system hard to test:

* **Nothing is locked and no transaction spans a request.**  Every database or
  Elasticsearch call is an `await` at which other requests run: the duplicate
  check and the insert of a registration, and its insert and its update, are
  separate statements.
* **Two mechanisms save.**  Identity's store calls `SaveChanges` on its own;
  the unit of work commits or reverts afterwards, when the row is durable.
* **Results are ignored or turned into exceptions in different places**:
  `UpdateAsync`'s failure is ignored, a failing user log throws, a rule the
  validator does not know throws something nobody catches.
* **Events are dispatched before the save**, from a list that is cleared first.
* **Failures**: statements or answers lost, the process stopped between two
  writes.

`PROJECT.json` lists each of these hazards at its line, with the properties
that would catch it going wrong.

What makes each component correct:

* registration: user names are never given twice, answers tell the truth (201:
  durable, 400: nothing happened), a refused write stays refused, the log names
  only existing accounts, everything received is answered;
* unit of work: a command saves all or nothing, events are published once and in
  order, a revert leaves nothing to be saved, the dispatch ends;
* pipeline: no handler runs unguarded, and what the log says is what happened;
* input: which texts pass one gate and fail at a later one is known; names that
  are accepted can be loaded again, what is saved is what was meant;
* sign-in: a reset token works once, no write brings back an old password, what is
  accepted was right at one moment, the answers and the log agree with the row;
* details: whoever is signed in is shown its own account.

## 2. Modules

| Module | Models | Kind |
|---|---|---|
| `Accounts` | the table `AspNetUsers` and the user log, one operator per statement | shared state, extended by `Register` |
| `Register` | POST `/api/register`, any number of concurrent requests | component, safety and liveness properties, inductive invariant |
| `AccountRegistry` | what registration promises: names given once, truthful answers | abstract specification that `Register` implements |
| `UnitOfWork` | a command with any handlers: change tracker, domain events, commit, revert | component |
| `AtomicCommand` | what a command promises: one effect on the rows it knows or none, after its events were heard | abstract specification that `UnitOfWork` implements |
| `Pipeline` | one executor's DI scope: chains of behaviours, `Send` within handlers of requests and of events, what is committed, reverted and logged | component |
| `Names` | the value object `Name`: trimming, rule, equality | pure operators |
| `Addresses` | the value objects `Email` and `UserName` and their rules | pure operators |
| `RegisterInput` | what a client may type as name, e-mail or password, through validator, value objects and Identity | operators against reference definitions |
| `AccountApi` | registrations, logins and GET `/api/info` over one table | composition, extends `Register` |
| `UserNames` | one user's names in memory, in the change tracker and in the table | component over `Names` |
| `SignIn` | POST `/login` and `/resetPassword` for one account, concurrently | component |
| `CredentialStore` | what logins and resets promise: checked at one moment, changed in one step | abstract specification that `SignIn` implements |
| `MCRegister`, `MCAccountApi`, `MCUnitOfWork`, `MCPipeline`, `MCRegisterInput`, `MCUserNames`, `MCSignIn` | - | instances for TLC |
| `RegisterProofs` | theorems about `Register`: its properties, then its refinement of `AccountRegistry` | proofs |
| `AccountApiProofs` | theorems about `AccountApi`; extends `RegisterProofs` | proofs |
| `UnitOfWorkProofs` | theorems about `UnitOfWork`: what is written, which events are published, its refinement of `AtomicCommand` | proofs |
| `NamesProofs` | theorems about texts; extended by `UserNamesProofs` and `RegisterInputProofs` | proofs |
| `PipelineProofs`, `UserNamesProofs`, `RegisterInputProofs`, `SignInProofs` | theorems about the module each is named for | proofs |

`Register` extends `Accounts` and instantiates `AccountRegistry` with a
refinement mapping, which `AccountApi` inherits; `SignIn` instantiates
`CredentialStore` and `UnitOfWork` instantiates `AtomicCommand`.  `Addresses` and `UserNames` extend `Names`, `RegisterInput`
extends `Addresses`.

Definitions introduced by a comment "Variant:" are not part of the model: each
is a plausible mistake in the code (a dropped guard, a swapped order), and
`PROJECT.json` pairs it with the property that must fail when it replaces the
definition after it.

### Register and Accounts

A request `r` is also the identifier of the user row it may create (the `Guid`
the `User` constructor draws).  `pc[r]` is the await its execution stands at:

    idle -> validate -> check -> insert -> update -> log -> commit -> done

| Action | Code up to the next await |
|---|---|
| `Receive` | the request reaches `AccountController.Register` |
| `RejectBody`, `RejectInvalid`, `RejectRule`, `RejectIdentity` | the first gate a flawed command fails at: model binding, `CommandValidationBehavior`, a value object's rule, Identity's password and name validators |
| `BuildUser` | the value objects and `User.Create`; `CreateAsync` starts |
| `RejectDuplicate`, `TrackUser` | `FindByNameAsync` answered |
| `InsertUser`, `InsertRefused` | the store's own `SaveChanges`, under the unique index `UserNameIndex` and the columns of `varchar(100)` |
| `UpdateUser`, `UpdateConflict` | `UserManager.UpdateAsync`, whose result the handler ignores |
| `LogUserCreated`, `LogUserCreatedFails` | the user log |
| `Commit`, `CommitConflict` | `UnitOfWork.CommitAsync` and the answer |
| `StatementLost`, `AnswerLost`, `Crash` | the environment's faults |
| `FailedSignIn` | another request increments `AccessFailedCount` of a row |

`Throw` is what every exception does on its way out: `RevertAsync` on the
change tracker, and an answer chosen by whether the controller catches it.  The
text of a command is abstracted to `flaw`, the first gate it does not pass: all
that the pipeline does with the text is to find that gate.  A row keeps the
e-mail (also the user name), the `ConcurrencyStamp` as a version number, and
`AccessFailedCount`; `NormalizedName` maps two spellings of an address to one
name.  The concurrency stamp, the unique index, `FindByNameAsync` and the
store's automatic save are Identity's and Entity Framework's: they are modelled
from how the handler uses them and marked external where no line of the
repository stands for them.

### AccountApi

`AccountApi` adds to `Register` what a client does with its account.  The client
of request `r` has a password of its own, so it can only get into the account
`r`; `signingIn` are those whose password was just accepted, `token[r]` is the
e-mail claim of the bearer token, `info[r]` whose details it was shown.

| Action | Code |
|---|---|
| `SignIn`, `SignInResets` | Identity's `CheckPasswordSignInAsync`, which resets `AccessFailedCount` in the row when there were failures |
| `LogUserLoggedIn`, `LogUserLoggedInFails` | `LoggingSignInManager`, then the endpoint issues the token, or answers 500 |
| `GetUserInfo` | `AccountController.GetUserInfo` and its query's handler (`UserDetails`), by `UserRepository.GetByEmailAsync` (`ByEmail`) |
| `TokenExpires` | the token is forgotten |

The reset is the second way, beside `FailedSignIn`, in which another request
writes a row whose registration is between its two writes.  Registrations with
their faults go on as in `Register`.  E-mail addresses are fixed: Identity's
endpoint to change one needs a code by mail, and no mail sender is configured.

### UnitOfWork

One DI scope.  `state`, `current` and `original` are the change tracker,
`pending` is `Entity.DomainEvents`, `queue` the dispatcher's local list and
`serving` the event whose handlers run.  The handlers are any code: `Load`,
`Create`, `Change`, `Delete` and `AddDomainEvent` are enabled while a handler
runs, and `HandlerReturns`, `HandlerThrows` and `EventHandlersFinish` end it.
`OtherScope` is every other command of the process, writing or deleting rows.
A handler does not remove an aggregate it has just created (Entity Framework
then forgets it), and the handlers of one notification run as one step sequence.

Handlers write through the tracker only: a handler that saves by itself, as
Identity's store makes the registration's do, is modelled in `Register` (row by row)
and in `Pipeline` (whose changes are durable), and `AllOrNothing` and
`AtomicCommand` promise nothing about it.

`wrote`, `published`, `raised` and `answerLost` are history.

`AtomicCommand` forgets all of this but the table, the events raised and heard, and
which rows the command has looked at or created; `Known` computes the latter from
the tracker.  A failed command may have taken effect only if an answer can be lost.
It does not promise that a row is still as the command saw it: rows have no
concurrency token, and a lost update is a step of the abstract command, too.

### Pipeline

A scope makes calls: call 1 is the executor's, the others are sent by handlers
with the scope's mediator (`sender`).  `Chain(c)` is the list of behaviours that
`Execute` or `Send` composes around the handler, computed from the order of
registration (`Registered`), the generic constraints by which the container
leaves behaviours out (`Applies`) and the fold of the code (`Around`, which puts one
behaviour after the other around the rest with `Put`).  The
control state is the `stack` of calls, the place `at` of each in its chain, and
whether the innermost call goes in or comes out with a result or an exception
(`mode`).  One action per behaviour and direction.

`HandlerChanges`, `HandlerSaves`, `HandlerSends`, `HandlerReturns` and
`HandlerThrows` are any handler's code.  The handlers of events are code like it,
which runs within `CommitAsync` and before it saves: `CodeRuns` holds at a handler
and at a unit of work that has a result to commit, and a call made there goes back
there (`SentByHandler`, `HandlerGoesOn`, `HandlerFailsToo`).  Their own exceptions
are `Revert` at a unit of work with a result.

The scope's change tracker is a set of calls, `unsaved`: those that changed
something in it.  All leave it together, into the set that says what happened to
them:

| Set | By | Code |
|---|---|---|
| `saved` | `Commit` | `CommitAsync` returned |
| `inDoubt` | `CommitAnswerLost` | the database committed, `SaveChanges` threw, the tracker is reverted |
| `selfSaved` | `HandlerSaves` | a write of Identity's store, with the scope's `DbContext`; if its answer is lost, the tracker keeps the changes as well |
| `forgotten` | `Revert`, `ExecuteEnds` | the tracker is reverted, or disposed with its scope |

`claims` are the claims with which the caller's account is found;
`AccountChanges` may take them away at any time.

### Names, Addresses, RegisterInput and UserNames

A text is a sequence of characters of a small alphabet that has what the code
distinguishes: a letter in two cases, a space, a newline, and something that is
none of these.  `Matches` is the regular expression by its own structure,
`MatchesWords` says what a reader takes it for.

`Addresses` does the same for `EmailMustBeValidRule` (where `MailAddress` is the
library's: it takes dots anywhere but in front, and no white space; that it
normalizes Unicode host names is outside the alphabet) and for the
expression of `UserNameMustBeValidRule`.  `RegisterInput` types a text into one
`field`; `PassesValidator`, `PassesRules` and `PassesIdentity` are the gates in the
order of the pipeline, and `Flaw` names the first that refuses it: it derives from
the text what `Register` takes as the `flaw` of a command.

In `UserNames` every action is a whole call: `Rename` puts new `Name` objects
into the user, `SetValue` changes the object in place, which the change
tracker's snapshot may share (`shared`), because `UserEntityTypeConfiguration`
configures a converter but no `ValueComparer`.  `Commit` saves what the tracker
finds modified by `Name.Equals`; `Update` is `UserRepository.UpdateAsync`, which
marks everything modified.  `inPlace` is history.

### SignIn

`pc[a]` is the database or log call an attempt stands at, and `copy[a]` the row
as its `DbContext` holds it; `UpdateUser` and `UpdateConflict` are Identity's
write of all columns under the `ConcurrencyStamp`.  `CheckPasswordSignInAsync`
and `ResetPasswordAsync` of the base classes are modelled from how the logging
managers call them, and are external in the map.  `LogUserLoggedIn` and
`LogUserPasswordReset` are the repository's: they run after the base class
succeeded and before the endpoint goes on, and `LogFails` is their exception.
Time is `expired`, the last lockout that is over; a reset token is the security
stamp it was issued for.  Abstracted away: new passwords are acceptable, the
e-mail is confirmed, no recovery codes, one account.

## 3. Runs

| Run | Question | Bounds |
|---|---|---|
| `register_faults` | do the safety properties, the inductive invariant and the refinement hold with every fault? | 3 requests, 3 addresses (two of one name), 2 failed sign-ins, all flaws |
| `register_live` | with logins and queries on the same rows: is everyone answered, as the fair registry demands, and shown its own account? | `AccountApi`, 2 requests, all flaws, all faults, 1 failed sign-in at a time |
| `register_quiet` | while nothing breaks: what causes a 500, and does a name get an account? | `AccountApi`, 2 requests, all flaws, no faults |
| `register_revert` | is a failed registration reverted? (no) | 2 requests |
| `uow_safe` | all or nothing, events once, in order and kept, clean reverts, nothing deleted comes back, an end, the refinement of `AtomicCommand` | 2 aggregates, 2 values, 3 events, all faults |
| `uow_revert` | does a revert clear all pending changes? (no) | 1 aggregate, no events |
| `pipeline_safe` | guarded handlers, atomic commands, a truthful log, for every kind of request and every nesting, with handlers that save by themselves and lost answers | 3 calls in a scope, 6.6 million states |
| `pipeline_void` | is a command without a result committed? (no) | 1 call |
| `input_rules` | what do validator, value objects, converter and Identity make of a text? | names of 5 characters, up to 6 long; addresses of 7 characters, up to 9 long, with at most 3 dots, 2 @ and one of each other; passwords of 5 classes, up to 7 long |
| `user_names` | do row and object agree after saves and reverts? | 4 texts: two spellings, one with white space, one broken |
| `signin_safe` | tokens used once, nothing restored, truthful log and answers, the refinement of `CredentialStore` | 3 attempts, 2 passwords, lockout after 2 failures, all faults |
| `signin_twofactor` | is a logged login a login? (no) | 1 attempt |

Why the bounds suffice to see the interesting cases: three requests let two
race for a name while a third holds or wins it; two spellings of one name and
one other name separate "taken" from "taken by me"; two failed sign-ins hit a
row both between insert and update and after the refused update.  Two
aggregates and three events let a handler raise events on its own and on
another entity while events are being published.  Three calls are a command
that sends a command that sends a request, or two after each other, from its handler
or from a handler of its events.  Texts of
six characters hold two words with white space before, between and after them
and a final newline, and go beyond the shortest name, of three letters; addresses
of nine go beyond the longest last part of the expression, of four letters, and
passwords of seven beyond the shortest, of six.  Three attempts with two failures
to a lockout let a reset and two logins, or two resets with one token and a
login, interleave around the lock.

Further bounds: `MaxFailed`, `MaxStamp`, `MaxEvents`, `MaxCalls`, `MaxLen` and
`MaxOf` appear in the guards of the actions that grow what they bound (`MaxStamp`:
only rows younger than that are reset by a login, so that a failed and a
successful sign-in fit between the two writes of a registration); `SignIn!Tokens` bounds the security stamps
for which tokens are presented.

Requests are symmetric in `register_faults` and attempts in `signin_safe`; no
symmetry is used where liveness is checked.  `CHECK_DEADLOCK FALSE` is set
everywhere: a finished set of requests, a finished command, a text of maximal
length has nothing left to do.

**Fairness.**  `Register!FairSpec` is weak fairness of `Serve(r)` for each
request: Kestrel runs a received request, and every await of it ends - with an
answer or with an exception.  Clients, faults and other requests are not fair.
`AccountApi!ApiFairSpec` assumes the same of the registrations and nothing of
logins and queries.
`UnitOfWork!FairSpec` is weak fairness of the pipeline: handlers return or
throw.  Nothing else is assumed.

**Conditions.**  `ServerErrorHasACause` and `WellFormedNameGetsAccount` are
about a database and a user log that work, as their run's constants say.
`AllOrNothing` excepts a SaveChanges whose answer was lost (`answerLost`): the
failure is reported although everything is saved, which no code at this side can
tell.  `CommandsAreAtomic` and `LogTellsTheOutcome` speak of what units of work
commit and revert.  A command that failed may have left durable changes in three
ways: a handler saved them itself (`selfSaved`), the answer of the commit was lost
(`inDoubt`), or a command sent within it succeeded and committed them; the first two
are no violation, and the third is the only way into `saved`.  A command that
succeeded has lost changes only if a command sent within it failed.
`RevertLeavesNothing` excepts an entity that was changed and then removed, `SavedUpToCase` and `RevertedUpToCase`
the spelling and the parts changed in place.  Each of these exceptions is a fact
about the code, and the property says that there is no other.

### What the violations show

* `ExceptionReverts`: "reverted if an exception occurs"
  (`UnitOfWorkPipelineBehaviour.cs:8`) is not true of a user that Identity saved.
* `RevertClearsAllPendingChanges`: the claim of the test of that name
  (`UnitOfWorkTests.cs:113`) fails for an entity changed and then removed.
* `VoidCommandIsCommitted`: "committed if the command succeeds"
  (`UnitOfWorkPipelineBehaviour.cs:8`) is not true of a command without a
  result: it is an `IRequest<Unit>` but no `ICommand<Unit>`, so neither the unit
  of work nor the logging behaviour is put around it.
* `LoggedInMeansSignedIn`: the event for "a user has successfully logged in"
  (`IUserLoggerService.cs:20`) is written when the password was right and the
  second factor has yet to be checked.

### Divergences that passing properties describe

* A lost race for a name and a broken business rule end in 500, not in the 400 of
  `AccountController.cs:33`: they are among the causes in `ServerErrorHasACause`.
  `ValidatorGap` and `RulesDisagree` say which names and addresses get past the
  validator and break a rule.  Among them are usual ones: an address with a plus
  sign, or under a top-level domain of more than four letters, is a valid `Email`
  and no valid `UserName`, and the handler builds both of the same text.
* A password whose only digit is not ASCII passes the validator (`\d`) and is
  refused by Identity, and so is an address with a letter outside ASCII
  (`IdentityGap`); the answer is 400 in both cases.
* A sign-in that resets the failed count while its registration is between its two
  writes makes the registration answer 500, although the account exists and
  works: the last cause in `ServerErrorHasACause`.
* A save overwrites what another scope changed in a row without a concurrency token;
  only rows that were deleted meanwhile are noticed (`DeletedStaysDeleted`).
* Events raised while events are being published are never heard, and when a handler
  of an event throws, the events after it are gone, although their entities are still
  tracked; `EventsAreKept` says that no other event is lost or unheard.  Handlers of
  events run before the save and hear of changes that are rolled back later.
* A query's behaviours run twice, once around `Mediator.Send` and once inside.
* A handler that sends commands shares its unit of work with them, and so does a
  handler of an event that sends one while its command is being committed.
* "Failed" in the log does not say that nothing was saved: the handler may have saved
  by itself, as the registration's does, or the commit's answer was lost.
* The expression of `NameMustBeValidRule` also accepts one final newline
  (`MatchesWords`), which `Trim` then removes.
* A rename that only changes the case is not saved by the unit of work, and a
  change in place is not detected (`SavedUpToCase`).

Some need no model:

* `AccountController.cs:32` says 200 where the code answers 201.
* `BusinessRuleValidationExceptionProblemDetails` (409) is constructed nowhere.
* `UserNameMustBeValidRule.cs:16` says "letters, numbers, and underscores"; its
  expression, line 30, demands an e-mail address.
* `NameMustBeValidRule.cs:19` speaks of a timeout; the expression has none.
* `CorrelationMiddleware` "adds a unique correlation ID to each HTTP request", and
  `Program.cs` does not install it: `ExecutionContextAccessor.CorrelationId` always
  throws.
* `MapIdentityApi` also maps Identity's own `/register`, which creates a user without
  the names that the table requires, so it ends in 500.
* `GetHashCode` of the value objects folds to lower case and `Equals` to upper case,
  which differ for letters with two lower-case forms; nothing in the repository
  keeps value objects in a hash table.

## 4. Proofs

TLAPS checks the theorems below for every value of the constants: any sets of
requests, accounts, entities and events, any normalization of names, any
alphabet, any bounds, every combination of faults.  The assumptions are the
named `ASSUME`s of the modules, which type the constants and say that sentinels
are no values; TLC evaluates them on every run of the module's instance
(`RegisterAssumption`, `NormalizedNameAssumption`, `NoRowAssumption` and
`RegistryAssumption` on those of `MCRegister`, the same with
`AccountApiAssumption` on those of `MCAccountApi`, `UnitOfWorkAssumption` on
`MCUnitOfWork`, `PipelineAssumption` on `MCPipeline`, `NamesAssumption` and
`UserNamesAssumption` on `MCUserNames`, `NamesAssumption`, `AddressesAssumption`
and `RegisterInputAssumption` on `MCRegisterInput`, `SignInAssumption` and
`CredentialsAssumption` on `MCSignIn`).

Each module of proofs has an inductive invariant, `IInv` (some need a second one
on top of it), and one theorem `Spec => []IInv` from which the others follow.

### Register

| Theorem | States |
|---|---|
| `Inductive`, `TypeCorrect` | `Spec => []IInv`, `Spec => []TypeOK` |
| `UserNamesAreUnique` | `Spec => []UniqueUserName` |
| `CreatedMeansDurable` | `Spec => []CreatedIsDurable` |
| `BadRequestMeansNothing` | `Spec => []BadRequestLeavesNothing` |
| `LogNamesRows` | `Spec => []LogImpliesRow` |
| `RefusedStaysRefused` | `Spec => []RefusedWriteStaysRefused` |
| `NothingIsUndone` | `Spec => NothingUndone` |
| `ServerErrorsHaveCauses` | `Spec => []ServerErrorHasACause`, if neither database nor user log fails |
| `RegisterImplementsRegistry` | `Spec => ImplementsRegistry` |

The invariant adds to the properties what they rest on:

* `RowsInv` ties a request's stage to its row: no row before the insert, a row
  with the command's e-mail after it, and only for a command without a flaw;
* `TrackerInv` says what the change tracker's copy is worth: its stamp never
  runs ahead of the row's, the copy is the row when the stamps agree, and a
  refused update leaves a stamp that is strictly behind - for good, because
  stamps only grow.  This is why the commit cannot overwrite a failed sign-in;
* `AnswersInv` says when answers are given, and what the log holds by then.

`Inserted` and `Updated` describe the two writing statements without `EXCEPT`;
`InsertEffect`, `UpdateEffect`, `SignInEffect` and `CommitEffect` lift them to
the actions (a commit never writes: what `UpdateAsync` saved is saved, what it
was refused is refused again).  `TypeStep`, `RowsStep`, `TrackerStep` and
`AnswersStep` go through the actions one by one.  `TableStep` then sums the
actions up - the table is unchanged, grows by a row whose name was free, or a
row moves to its next version without losing failed sign-ins - and uniqueness,
the log invariant and `NothingUndone` follow from that summary alone.

The causes of a 500 are an invariant of their own (`CauseInv`): `ErrorCaused` goes
through the actions that answer 500, and `CauseStays` shows that a cause, once
there, stays - the name remains taken because rows stay, and a row that ran ahead of
its registration's copy stays ahead because stamps grow.

The refinement maps every action to one step of the registry or to none: the
insert gives the name away, the answer is the registry's answer, and everything
between is a stutter.  That the insert's name is free in the registry is
uniqueness; that an answer is true is `AnswersInv`.

### AccountApi

| Theorem | States |
|---|---|
| `ApiInductive`, `ApiTypeCorrect` | `ApiSpec => []ApiInv`, `ApiSpec => []ApiTypeOK` |
| `EverybodySeesItself` | `ApiSpec => []InfoIsOwn` |
| `ApiServerErrorsHaveCauses` | `ApiSpec => []ServerErrorHasACause`, under the same condition |
| `ApiImplementsRegistry` | `ApiSpec => ImplementsRegistry` |

The composition takes every step of `Register` over with its proof; what is new
are the steps of the clients.  A sign-in that resets the failed count is one more
version of a row, so `RegisterProofs`' invariant survives it, and it is a stutter
of the registry.  `InfoIsOwn` rests on two facts: all rows of one e-mail are one
row (its normalized name is unique, although the e-mail column is not), and a
token carries the e-mail of its owner's row, which never changes.

### UnitOfWork

| Theorem | States |
|---|---|
| `UnitOfWorkInductive` | `Spec => []IInv` |
| `EventsInductive` | `Spec => [](IInv /\ EventsInv)` |
| `UnitOfWorkTypeCorrect` | `Spec => []TypeOK` |
| `EventsAreHeardOnceInOrder` | `Spec => []EventsOnceInOrder` |
| `EventsStayInOnePlace` | `Spec => []EventsAreKept` |
| `CommandsAreAllOrNothing` | `Spec => []AllOrNothing` |
| `RevertsAreClean` | `Spec => RevertLeavesNothing` |
| `DeletedRowsStayDeleted` | `Spec => DeletedStaysDeleted` |
| `CommandInductive` | `Spec => []CommandInv` |
| `UnitOfWorkImplementsCommand` | `Spec => ImplementsCommand` |
| `PipelineComesCloser` | `Spec => [][Closer]_<<pc, queue, serving>>` |

`TrackerTypes` types the tracker, and `StagesInv` says what each stage of a
command owes: nothing is written before the last step, and a tracker that was
accepted or reverted has nothing left to save.  The proof has one lemma on what
accepting the changes leaves of an entity's entry and one on what a revert does,
and the steps of other scopes touch the table only.

The events need a second invariant, `EventsInv`.  `Placed` and `InOrder` say that
the lists together are one list: an entity's events are in order within each, and
those published come before those in the dispatcher's list, which come before those
still with the entity - so none is twice anywhere.  `Waiting` says that none is lost,
and that the handler's events are with tracked entities until the dispatcher
collects them all.  The one step that needs work is the collection
(`CollectEvents`): `FlattenLists` shows what the library's recursive `FlattenSeq` does
to lists of different entities, by the least index at which it would not, and a
sequence of all tracked entities without repetition has each of them because
there are finitely many.

The refinement needs three more facts (`MappingInv`): what a running command tracks
has a value, so that what it created is there after the save; only events of its
handler are ever dispatched; and handlers of events run only once an event was
published, which is how the abstract command tells the two stages apart.  Then the
first access to a row is the abstract `Look` or `Make`, `PublishNext` is `Hear` - the
list's head is the least event of its entity that was not heard, by `InOrder` and
`Waiting` - and the save is the whole effect (`SaveMapping`): nothing is due any
more because the list is empty, rows that are not tracked are not written, and a
row that somebody deleted would have been a conflict.  Changes in memory, the
collection of the events and the end of their handlers stutter.

`EventsStayInOnePlace` rests on one more (`LossInv`): when a command has failed, an
event is with its entity, or published, or it was in a list whose first events had been
published - because `SaveChanges` waits for the list to be empty, so of all that can
throw only a handler of an event does while something is in it.

`PipelineComesCloser` is the part of `Terminates` that needs no fairness: every move
of the pipeline ends a stage or leaves less to publish, and what handlers raise
meanwhile goes to lists the dispatcher does not come back to.  That it moves at all
is `FairSpec`'s, and left to TLC.

### Pipeline

| Theorem | States |
|---|---|
| `PipelineInductive`, `PipelineTypeCorrect` | `Spec => []IInv`, `Spec => []TypeOK` |
| `HandlersGuarded` | `Spec => []HandlersAreGuarded` |
| `EndsInductive` | `Spec => [](IInv /\ EndsInv)` |
| `CommandsAtomic` | `Spec => []CommandsAreAtomic` |
| `LogTrue` | `Spec => []LogTellsTheOutcome` |

The chains are computed, not assumed: `AroundOne` and `AroundFour` unroll the
recursive `Around` for the lengths there are, and `SendChains` and
`ExecuteChains` name the places of all six chains.  `Shapes` keeps what they have
in common (`Shaped`: the handler is last and nowhere else, the logging is there
once at most, validation and injection are in front of every handler, logging
in front of every command's with a result).  `StackInv` says that all calls but the
innermost wait at their handlers, or at their units of work while a handler of an
event waits (`Waits`), `PassedInv` that the behaviours a call is
inside of let it pass - which the steps of other calls cannot undo, because a
call is in progress once only, and its own way out passes the logging last seen.
The lemmas are `MoveIn`, `MoveOut`, `CallingStep` and `Returning`, one for each
thing an action can do to the stack.

What becomes of a command's changes needs a second invariant, `EndsInv`.  A command
ends (`EndsAs`) when it passes its unit of work on the way out, before its outcome
is known to the caller; from then on nothing takes the ending back (`KeepsEnds`).
`OpenInv` says that changes are unsaved only while their command is inside its unit
of work; `SavedInv` that they are saved only by a command that ended with a result,
`DroppedInv` that they are forgotten or in doubt only by one that ended with an error -
this one or one within it, because the call that commits or reverts while others wait
is within all of them (`Nested`).  A command that waits at its unit of work has not
passed it yet (`WaitingPlaces`), so what handlers of its events change is still inside.  `LogInv` follows the log
through the logging behaviour, which is outside the unit of work.  `Within` is a
recursive function along the senders, which are smaller than what they send:
`WithinExists` and `WithinUnfolds` show that it has the value its definition
asks for, `Descend` carries facts along it (both by the least number at which they would
fail).  `MoveShapes` sums up the eleven actions that move a call through its chain.

### Names

| Theorem | States |
|---|---|
| `TrimIdempotent` | `Trim(Trim(t)) = Trim(t)` for every text |
| `MatchesAreWords` | `Matches(t) <=> WordsFrom(t, 1)` for every text |
| `UserNamesInductive`, `UserNamesTypeCorrect` | `Spec => []IInv`, `Spec => []TypeOK` |
| `RowsReadBack` | `Spec => []UserCanBeLoaded` |
| `SavesAreTrueUpToCase` | `Spec => []SavedUpToCase` |
| `RevertsAreTrueUpToCase` | `Spec => []RevertedUpToCase` |

A stored name is read back because what a `Name` holds is accepted and trimmed
(`Kept`), and trimming again changes nothing: a trimmed text begins and ends with a
character that is no white space, or is empty (`Trimmed`, by the least and the
greatest such position, whose existence `LeastNatural` derives from the
well-foundedness of the naturals).  `LoadedInv` says that the snapshot is the row
but for the parts `SetValue` changed in place.

`Matches` is a recursive function over the positions of a text, chosen by its
equation.  `MatchesAreWords` gives its closed form: `WordsFrom` satisfies the equation
(`WordsUnfold`), so a function that does exists, and there is one only, because two
of them agree from the last position backwards (`BackwardsUnique`).

### RegisterInput

| Theorem | States |
|---|---|
| `UserNamesAreAddresses` | the closed form of `MatchesUserName(t)`, for every text |
| `NamesAreWords` | `Spec => []MatchesWords` |
| `NamesReadBack` | `ReadsBack(Trim(t))` for every text that `Name` accepts |
| `NamesAreOnlyTooShort` | `Spec => []ValidatorGap` |
| `DisagreementsAreKnown` | `Spec => []RulesDisagree` |
| `IdentityRefusesNonAscii` | `Spec => []IdentityGap` |

The properties are facts about any text, so the invariant is only that what is typed
is one (`TextsAreTyped`).  `UserNamesAreAddresses` does for the expression of
`UserNameMustBeValidRule` what `MatchesAreWords` does for that of names; its domain is
taken apart at the first dot (`FirstPart`, `LabelsUnfold`).  `TrimCuts` shows that `Trim`
cuts a part out of the text, with white space on both sides: hence what has no white
space inside keeps its letters (`TrimKeepsInk`), and the validator's conditions on
the text and the rules' on the trimmed text meet.  `EmailHasShape` and
`UserNameHasShape` bring both rules into the same terms - the one `@` and the last dot
behind it - and `DisagreementIsKnown` compares them.

`AddressesAssumption` says that word characters, symbols, dot, hyphen, `@` and white
space are all different and all there is: without it a "symbol" could be white
space, which the rules treat otherwise.  That leaves out quotes, comments and angle
brackets, with which `MailAddress` takes other texts apart.

### SignIn

| Theorem | States |
|---|---|
| `SignInInductive`, `SignInTypeCorrect` | `Spec => []IInv`, `Spec => []TypeOK` |
| `TokensAreUsedOnce` | `Spec => []TokenUsedOnce` |
| `LogIsTrue`, `AnswersTrue` | `Spec => []LogTellsTheTruth`, `Spec => []AnswersAreTrue` |
| `NothingIsRestored` | `Spec => NothingRestored` |
| `SignInImplementsStore` | `Spec => ImplementsCredentials` |

The argument is about copies.  A copy with the row's `ConcurrencyStamp` is the row,
except for what its own request did to it; stamps only grow, so a copy that has
fallen behind never writes again.  Used reset tokens are older than the row's
security stamp, hence than that of every copy that can still write.  For the
refinement, the write of a reset is the abstract change of the password, the
password check is the abstract acceptance, and all other steps stutter.

### Only model-checked

Liveness and the fair refinement of the registry, which are out of the prover's
reach: `Terminates`, `ImplementsFairRegistry` and `WellFormedNameGetsAccount`, under
the fairness of section 3.  Every invariant and every action property of a passing
run is a theorem.

## 5. Not modelled

Start-up configuration (CORS, Swagger, monitoring, logging sinks, typed-id
converters), log lines and correlation ids, the problem-details classes nobody
constructs, migrations other than the table they create, deployment files;
`UserRepository.DeleteAsync`, which nothing calls; Identity's endpoints beyond
`/login` and `/resetPassword`, under which the repository puts no code; the
reflective equality of `ValueObject`, which every value object overrides, and
hash codes.  The tree also has the minified bundles of third-party Grafana
plugins (`observability/grafana/data/plugins`), its only JavaScript: they are
build output of other projects, run in a dashboard and are called by no code of
this one.  A faithful model of them would have to start from their own sources.

## 6. Plan

What would extend the development, in this order:

1. `AccountApi` with the lockout and the second factor of `SignIn`, once a mail
   sender exists and an e-mail address can change.
2. The scopes of `Pipeline` as implementations of `AtomicCommand`, which needs a
   version of it for commands within commands.
