------------------------------- MODULE Pipeline -------------------------------
(***************************************************************************)
(* One execution of CommandsExecutor or QueriesExecutor, in its DI scope:  *)
(* the chain of behaviours that the executor and Mediator.Send build from  *)
(* the registrations, and the calls and returns through it.  A handler may *)
(* send further requests with the scope's mediator; those share the scope, *)
(* hence the change tracker, but get a chain of their own.                 *)
(*                                                                         *)
(* What the unit of work does inside is the subject of UnitOfWork; here a  *)
(* call has changed the scope's entities or not, and what the scope has    *)
(* changed is saved or forgotten together: by a unit of work, whose answer *)
(* from the database may get lost, or by a handler that saves by itself.   *)
(***************************************************************************)
EXTENDS Naturals, SequencesExt

CONSTANTS
    ExecutedKinds,  \* what is given to an executor
    SentKinds,      \* what handlers send with the scope's mediator
    MaxCalls,       \* bound on the requests of one scope
    NoRequest

(***************************************************************************)
(* ICommand<TResult>, ICommand - an IRequest<Unit>, not an ICommand<Unit>  *)
(* - and IQuery<TResult>.                                                  *)
(***************************************************************************)
Kinds == {"command", "void", "query"}

\* Any of them may be IUserAware, and there may be validators that refuse it.
Request == [kind : Kinds, userAware : BOOLEAN, valid : BOOLEAN]
RequestsOf(kinds) == {q \in Request : q.kind \in kinds}

ASSUME PipelineAssumption ==
    /\ ExecutedKinds \cup SentKinds \subseteq Kinds
    /\ MaxCalls \in Nat \ {0}
    /\ NoRequest \notin Request

-----------------------------------------------------------------------------
(***************************************************************************)
(* The chains.                                                             *)
(***************************************************************************)
\* Variants: the logging behaviour is registered before the unit of work ...
RegisteredLoggingFirst == <<"Validation", "UserInjectionQuery", "Logging", "UnitOfWork">>

\* The IRequestPipelineBehavior<,>s in the order of their registration.
Registered == <<"Validation", "UserInjectionQuery", "UnitOfWork", "Logging">>

\* ... the injection of users is constrained to queries.
AppliesInjectionToQueries(b, kind) ==
    /\ b \in {"UnitOfWork", "Logging"} => kind = "command"
    /\ b = "UserInjectionQuery" => kind = "query"

\* The container leaves out a behaviour whose generic constraint the request
\* does not meet.
Applies(b, kind) == b \in {"UnitOfWork", "Logging"} => kind = "command"

Put(b, kind, inner) == IF Applies(b, kind) THEN <<b>> \o inner ELSE inner

\* Enumerable.Aggregate: every behaviour is put around what there is.
Around(behaviours, kind, inner) ==
    LET around[i \in 0..Len(behaviours)] ==
          IF i = 0 THEN inner ELSE Put(behaviours[i], kind, around[i - 1])
    IN around[Len(behaviours)]

\* Mediator.Send.
SendChain(kind) == Around(Registered, kind, <<"Handler">>)

\* The executors' Execute; both reverse the behaviours they resolved.
ExecuteChain(kind) ==
    CASE kind = "command" -> Around(Reverse(<<"UserInjectionCommand">>), kind, SendChain(kind))
      [] kind = "void" -> SendChain(kind)
      [] kind = "query" -> Around(Reverse(Registered), kind, SendChain(kind))

-----------------------------------------------------------------------------
Calls == 1..MaxCalls

VARIABLES
    request,  \* the request of each call; call 1 is the executor's
    sender,   \* the call whose handler sent it, 0 for the executor's
    stack,    \* the calls in progress, innermost last
    at,       \* where each call stands in its chain
    mode,     \* the innermost call goes "in", or comes out with a "result" or an "error"
    claims,   \* the claims by which GetByEmailAsync finds the user's account
    injected, \* the calls whose request was given its user
    unsaved,  \* the calls whose changes the scope's change tracker holds,
    saved,    \* ... whose changes the unit of work has committed,
    inDoubt,  \* ... committed, but the answer was lost and CommitAsync threw,
    selfSaved, \* ... whose changes a handler saved without the unit of work,
    forgotten, \* ... whose changes were dropped with the tracker's
    log,      \* the last thing the log says of each call
    outcome   \* how each call ended

vars == <<request, sender, stack, at, mode, claims, injected, unsaved, saved, inDoubt, selfSaved, forgotten,
          log, outcome>>
scopeVars == <<unsaved, saved, inDoubt, selfSaved, forgotten>>

TypeOK ==
    /\ request \in [Calls -> Request \cup {NoRequest}]
    /\ sender \in [Calls -> 0..MaxCalls]
    /\ stack \in Seq(Calls)
    /\ at \in [Calls -> Nat]
    /\ mode \in {"in", "result", "error"}
    /\ claims \subseteq {"Name", "Email"}
    /\ injected \subseteq Calls
    /\ unsaved \subseteq Calls /\ saved \subseteq Calls /\ inDoubt \subseteq Calls
    /\ selfSaved \subseteq Calls /\ forgotten \subseteq Calls
    /\ log \in [Calls -> {"none", "executing", "succeeded", "failed"}]
    /\ outcome \in [Calls -> {"none", "result", "error"}]

Init ==
    /\ request = [c \in Calls |-> NoRequest]
    /\ sender = [c \in Calls |-> 0]
    /\ stack = <<>>
    /\ at = [c \in Calls |-> 0]
    /\ mode = "in"
    /\ claims \in SUBSET {"Name", "Email"}
    /\ injected = {}
    /\ unsaved = {} /\ saved = {} /\ inDoubt = {} /\ selfSaved = {} /\ forgotten = {}
    /\ log = [c \in Calls |-> "none"]
    /\ outcome = [c \in Calls |-> "none"]

Chain(c) == IF c = 1 THEN ExecuteChain(request[c].kind) ELSE SendChain(request[c].kind)

\* The call that runs, its place in the chain, and how it leaves that place.
Top == Last(stack)
Stands(stages, m) ==
    /\ stack # <<>>
    /\ mode = m
    /\ at[Top] > 0
    /\ Chain(Top)[at[Top]] \in stages

Inward == at' = [at EXCEPT ![Top] = @ + 1] /\ mode' = "in"
Outward(m) == at' = [at EXCEPT ![Top] = @ - 1] /\ mode' = m

Calling(c, q) ==
    /\ request' = [request EXCEPT ![c] = q]
    /\ sender' = [sender EXCEPT ![c] = IF stack = <<>> THEN 0 ELSE Top]
    /\ stack' = Append(stack, c)
    /\ at' = [at EXCEPT ![c] = 1]
    /\ mode' = "in"
    /\ UNCHANGED <<claims, injected, scopeVars, log, outcome>>

Execute ==
    /\ request[1] = NoRequest
    /\ \E q \in RequestsOf(ExecutedKinds) : Calling(1, q)

-----------------------------------------------------------------------------
(***************************************************************************)
(* The behaviours, on the way in ...                                       *)
(***************************************************************************)
Injections == {"UserInjectionCommand", "UserInjectionQuery"}

Validate ==
    /\ Stands({"Validation"}, "in")
    /\ IF request[Top].valid THEN Inward ELSE Outward("error")
    /\ UNCHANGED <<request, sender, stack, claims, injected, scopeVars, log, outcome>>

\* The command behaviour looks for Identity.Name, the other for the e-mail claim.
Claim == IF Chain(Top)[at[Top]] = "UserInjectionCommand" THEN "Name" ELSE "Email"

InjectUser ==
    /\ Stands(Injections, "in")
    /\ request[Top].userAware
    /\ IF Claim \in claims
         THEN Inward /\ injected' = injected \cup {Top}
         ELSE Outward("error") /\ UNCHANGED injected
    /\ UNCHANGED <<request, sender, stack, claims, scopeVars, log, outcome>>

NotUserAware ==
    /\ Stands(Injections, "in")
    /\ ~ request[Top].userAware
    /\ Inward
    /\ UNCHANGED <<request, sender, stack, claims, injected, scopeVars, log, outcome>>

BeginUnitOfWork ==
    /\ Stands({"UnitOfWork"}, "in")
    /\ Inward
    /\ UNCHANGED <<request, sender, stack, claims, injected, scopeVars, log, outcome>>

LogExecuting ==
    /\ Stands({"Logging"}, "in")
    /\ Inward
    /\ log' = [log EXCEPT ![Top] = "executing"]
    /\ UNCHANGED <<request, sender, stack, claims, injected, scopeVars, outcome>>

(***************************************************************************)
(* ... the handler, which may change entities unless it is a query's, save *)
(* them by itself, send further requests, catch what they throw, return    *)
(* and throw.  The handlers of events, which CommitAsync calls before it   *)
(* saves, are code like it, at the unit of work of the command.            *)
(***************************************************************************)
CodeRuns == Stands({"Handler"}, "in") \/ Stands({"UnitOfWork"}, "result")

HandlerChanges ==
    /\ CodeRuns
    /\ request[Top].kind # "query"
    /\ unsaved' = unsaved \cup {Top}
    /\ UNCHANGED <<request, sender, stack, at, mode, claims, injected, saved, inDoubt, selfSaved,
                   forgotten, log, outcome>>

\* Identity's store saves each write through the scope's DbContext, and with
\* it whatever else the scope has changed; the tracker does not know if the
\* answer is lost.
HandlerSaves ==
    /\ CodeRuns
    /\ request[Top].kind # "query"
    /\ selfSaved' = selfSaved \cup unsaved \cup {Top}
    /\ unsaved' \in {{}, unsaved \cup {Top}}
    /\ UNCHANGED <<request, sender, stack, at, mode, claims, injected, saved, inDoubt, forgotten,
                   log, outcome>>

HandlerSends ==
    /\ CodeRuns
    /\ \E c \in Calls :
         /\ request[c] = NoRequest
         /\ \A d \in 1..(c - 1) : request[d] # NoRequest
         /\ \E q \in RequestsOf(SentKinds) : Calling(c, q)

HandlerReturns ==
    /\ Stands({"Handler"}, "in")
    /\ Outward("result")
    /\ UNCHANGED <<request, sender, stack, claims, injected, scopeVars, log, outcome>>

HandlerThrows ==
    /\ Stands({"Handler"}, "in")
    /\ Outward("error")
    /\ UNCHANGED <<request, sender, stack, claims, injected, scopeVars, log, outcome>>

(***************************************************************************)
(* ... and on the way out.                                                 *)
(***************************************************************************)
PassThrough ==
    /\ \E m \in {"result", "error"} :
         Stands(Injections \cup {"Validation"}, m) /\ Outward(m)
    /\ UNCHANGED <<request, sender, stack, claims, injected, scopeVars, log, outcome>>

\* IUnitOfWork is the scope's: it saves whatever the scope has changed.
Commit ==
    /\ Stands({"UnitOfWork"}, "result")
    /\ Outward("result")
    /\ saved' = saved \cup unsaved
    /\ unsaved' = {}
    /\ UNCHANGED <<request, sender, stack, claims, injected, inDoubt, selfSaved, forgotten, log, outcome>>

\* The database committed, but SaveChanges threw: RevertAsync resets the tracker's
\* entries of what is durable.
CommitAnswerLost ==
    /\ Stands({"UnitOfWork"}, "result")
    /\ Outward("error")
    /\ inDoubt' = inDoubt \cup unsaved
    /\ unsaved' = {}
    /\ UNCHANGED <<request, sender, stack, claims, injected, saved, selfSaved, forgotten, log, outcome>>

\* Variant: the behaviour commits in a finally clause.
CommitAnyway ==
    /\ Stands({"UnitOfWork"}, "error")
    /\ Outward("error")
    /\ saved' = saved \cup unsaved
    /\ unsaved' = {}
    /\ UNCHANGED <<request, sender, stack, claims, injected, inDoubt, selfSaved, forgotten, log, outcome>>

\* The handler threw, or in CommitAsync the handler of an event or SaveChanges did,
\* with nothing written: RevertAsync forgets the scope's changes.
Revert ==
    /\ Stands({"UnitOfWork"}, "error") \/ Stands({"UnitOfWork"}, "result")
    /\ Outward("error")
    /\ forgotten' = forgotten \cup unsaved
    /\ unsaved' = {}
    /\ UNCHANGED <<request, sender, stack, claims, injected, saved, inDoubt, selfSaved, log, outcome>>

\* Variant: what came out is written to the log as it is.
LogOutcomeRaw ==
    /\ \E m \in {"result", "error"} :
         Stands({"Logging"}, m) /\ log' = [log EXCEPT ![Top] = m]
    /\ Outward(mode)
    /\ UNCHANGED <<request, sender, stack, claims, injected, scopeVars, outcome>>

LogOutcome ==
    /\ \/ Stands({"Logging"}, "result") /\ log' = [log EXCEPT ![Top] = "succeeded"]
       \/ Stands({"Logging"}, "error") /\ log' = [log EXCEPT ![Top] = "failed"]
    /\ Outward(mode)
    /\ UNCHANGED <<request, sender, stack, claims, injected, scopeVars, outcome>>

-----------------------------------------------------------------------------
(***************************************************************************)
(* A call ends: the executor disposes the scope, the code that sent it     *)
(* goes on with the result or has an exception to catch.                   *)
(***************************************************************************)
Ends == stack # <<>> /\ mode # "in" /\ at[Top] = 0

ExecuteEnds ==
    /\ Ends
    /\ Len(stack) = 1
    /\ outcome' = [outcome EXCEPT ![Top] = mode]
    /\ stack' = <<>>
    /\ forgotten' = forgotten \cup unsaved
    /\ unsaved' = {}
    /\ UNCHANGED <<request, sender, at, mode, claims, injected, saved, inDoubt, selfSaved, log>>

Caller == stack[Len(stack) - 1]
SentByHandler == Chain(Caller)[at[Caller]] = "Handler"

CallEnds ==
    /\ Ends
    /\ Len(stack) > 1
    /\ outcome' = [outcome EXCEPT ![Top] = mode]
    /\ stack' = Front(stack)
    /\ UNCHANGED <<request, sender, claims, injected, scopeVars, log>>

\* A handler of events goes on within the commit, which has a result to return.
HandlerGoesOn ==
    /\ CallEnds
    /\ mode' = IF SentByHandler THEN "in" ELSE "result"
    /\ UNCHANGED at

\* The exception leaves the handler, or CommitAsync.
HandlerFailsToo ==
    /\ CallEnds
    /\ mode = "error"
    /\ IF SentByHandler THEN at' = [at EXCEPT ![Caller] = @ - 1] ELSE UNCHANGED at
    /\ UNCHANGED mode

\* The account is deleted or renamed under the claims of the caller's token.
AccountChanges ==
    /\ outcome[1] = "none"
    /\ claims # {}
    /\ claims' = {}
    /\ UNCHANGED <<request, sender, stack, at, mode, injected, scopeVars, log, outcome>>

Next ==
    \/ Execute
    \/ Validate \/ InjectUser \/ NotUserAware \/ BeginUnitOfWork \/ LogExecuting
    \/ HandlerChanges \/ HandlerSaves \/ HandlerSends \/ HandlerReturns \/ HandlerThrows
    \/ PassThrough \/ Commit \/ CommitAnswerLost \/ Revert \/ LogOutcome
    \/ ExecuteEnds \/ HandlerGoesOn \/ HandlerFailsToo
    \/ AccountChanges

Spec == Init /\ [][Next]_vars
-----------------------------------------------------------------------------
(***************************************************************************)
(* Properties.                                                             *)
(***************************************************************************)
HandlerRuns(c) ==
    /\ c \in ToSet(stack)
    /\ at[c] > 0
    /\ Chain(c)[at[c]] = "Handler"

\* Whatever the kind of a request and wherever it is sent from, its handler runs
\* only when the validators passed it, with its user if it is aware of one, and
\* while the log says that it executes if it is a command with a result.
HandlersAreGuarded ==
    \A c \in Calls : HandlerRuns(c) =>
        /\ request[c].valid
        /\ request[c].userAware => c \in injected
        /\ request[c].kind = "command" => log[c] = "executing"

\* Calls that were made, directly or not, by the handlers of c or of its events.
Within(c) ==
    LET within[d \in 0..MaxCalls] ==
          d # 0 /\ (sender[d] = c \/ within[sender[d]])
    IN {d \in Calls : request[d] # NoRequest /\ within[d]}

\* A command with a result, sent within c, ended so: the unit of work that it
\* committed or reverted is c's, too.
SentCommandEnded(c, how) ==
    \E d \in Within(c) : request[d].kind = "command" /\ outcome[d] = how

\* When a command with a result is over, the scope holds none of its changes.  If it
\* failed, its unit of work has committed none: what the database has of them was
\* saved by a handler itself, written by a commit whose answer was lost, or
\* committed by a command sent within that succeeded.  If it succeeded, none is
\* forgotten or in doubt, unless a command sent within failed and took them along.
CommandsAreAtomic ==
    \A c \in Calls : request[c] # NoRequest /\ request[c].kind = "command" =>
        /\ outcome[c] # "none" => c \notin unsaved
        /\ outcome[c] = "error" /\ c \in saved => SentCommandEnded(c, "result")
        /\ outcome[c] = "result" /\ c \in forgotten \cup inDoubt => SentCommandEnded(c, "error")

\* The log tells how a command with a result ended, its commit included, and
\* says nothing of one that never reached the mediator or is no such command.
\* "Failed" rules out that the command's own commit was answered, "succeeded"
\* that its changes were dropped or are in doubt, but for the commands it sent.
LogTellsTheOutcome ==
    \A c \in Calls :
        /\ log[c] = "succeeded" => outcome[c] # "error"
        /\ log[c] = "succeeded" /\ c \in forgotten \cup inDoubt => SentCommandEnded(c, "error")
        /\ log[c] = "failed" => outcome[c] # "result"
        /\ log[c] = "failed" /\ c \in saved => SentCommandEnded(c, "result")
        /\ log[c] = "executing" => outcome[c] = "none"
        /\ log[c] = "none" /\ outcome[c] = "result" => request[c].kind # "command"

(***************************************************************************)
(* What the repository says and the code does not do.                      *)
(***************************************************************************)

\* UnitOfWorkPipelineBehaviour.cs:8: "ensures Unit of Work is committed if the
\* command succeeds, or reverted if an exception occurs" - of a command without a
\* result.
VoidCommandIsCommitted ==
    \A c \in Calls : request[c] # NoRequest /\ request[c].kind = "void" =>
        (outcome[c] = "result" => c \notin forgotten)
=============================================================================
