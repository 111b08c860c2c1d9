------------------------------ MODULE UnitOfWork ------------------------------
(***************************************************************************)
(* One command in one DI scope: UnitOfWorkPipelineBehavior runs the        *)
(* handler, UnitOfWork.CommitAsync lets DomainEventsDispatcher publish the *)
(* events of the tracked entities and saves, and whatever throws on the    *)
(* way ends in UnitOfWork.RevertAsync.                                     *)
(*                                                                         *)
(* The command handler and the notification handlers are any code: they    *)
(* load, add, change and remove aggregates, raise events, return or throw. *)
(* Aggregates are read without a lock and written without a concurrency    *)
(* token (only Identity's users have one, see Register), while other       *)
(* scopes write and delete the same rows.  What is said here of a command  *)
(* is said of handlers that write through the tracker; those that save by  *)
(* themselves are in Register and Pipeline.                                *)
(***************************************************************************)
EXTENDS Naturals, Sequences, SequencesExt

CONSTANTS
    Aggregates,       \* identifiers of aggregates
    Values,           \* what an aggregate may hold
    Absent,           \* no row, or nothing in memory
    MaxEvents,        \* bound on the events raised
    DatabaseMayFail,  \* SaveChanges may fail without having written
    AnswerMayBeLost   \* ... or after the database committed

ASSUME UnitOfWorkAssumption ==
    /\ Absent \notin Values
    /\ MaxEvents \in Nat
    /\ {DatabaseMayFail, AnswerMayBeLost} \subseteq BOOLEAN

VARIABLES
    stored,     \* the rows in the database
    state,      \* the change tracker: the state of every aggregate's entry ...
    current,    \* ... the value of the object in memory ...
    original,   \* ... and the value it was loaded or saved with
    pending,    \* Entity.DomainEvents of every aggregate
    pc,         \* where the pipeline stands
    queue,      \* the dispatcher's list of collected events
    serving,    \* the event whose handlers run, 0 when none
    raised,     \* history: the aggregate and the stage of every event
    published,  \* history: the events given to Mediator.Publish
    wrote,      \* history: the aggregates this scope wrote to the database
    answerLost  \* history: it did, but SaveChanges failed

trackerVars == <<state, current, original>>
eventVars == <<pending, queue, serving, raised, published>>
vars == <<stored, state, current, original, pending, pc, queue, serving, raised, published, wrote, answerLost>>

\* Events are numbered in the order they are raised.
Events == 1..MaxEvents
Stages == {"handler", "commit", "publish", "ok", "failed"}
EntryStates == {"Detached", "Unchanged", "Added", "Deleted"}

TypeOK ==
    /\ stored \in [Aggregates -> Values \cup {Absent}]
    /\ state \in [Aggregates -> EntryStates]
    /\ {current, original} \subseteq [Aggregates -> Values \cup {Absent}]
    /\ pending \in [Aggregates -> Seq(Events)]
    /\ pc \in Stages
    /\ queue \in Seq(Events)
    /\ serving \in Events \cup {0}
    /\ raised \in Seq([source : Aggregates, stage : {"handler", "publish"}])
    /\ published \in Seq(Events)
    /\ wrote \subseteq Aggregates
    /\ answerLost \in BOOLEAN

Init ==
    /\ stored \in [Aggregates -> Values \cup {Absent}]
    /\ state = [a \in Aggregates |-> "Detached"]
    /\ current = [a \in Aggregates |-> Absent]
    /\ original = [a \in Aggregates |-> Absent]
    /\ pending = [a \in Aggregates |-> <<>>]
    /\ pc = "handler"
    /\ queue = <<>>
    /\ serving = 0
    /\ raised = <<>>
    /\ published = <<>>
    /\ wrote = {}
    /\ answerLost = FALSE

-----------------------------------------------------------------------------
(***************************************************************************)
(* What the code of a handler may do.                                      *)
(***************************************************************************)
Running == pc = "handler" \/ serving # 0

Tracked == {a \in Aggregates : state[a] # "Detached"}

Load(a) ==
    /\ Running
    /\ a \notin Tracked
    /\ stored[a] # Absent
    /\ state' = [state EXCEPT ![a] = "Unchanged"]
    /\ current' = [current EXCEPT ![a] = stored[a]]
    /\ original' = [original EXCEPT ![a] = stored[a]]
    /\ UNCHANGED <<stored, pc, eventVars, wrote, answerLost>>

Create(a) ==
    /\ Running
    /\ a \notin Tracked
    /\ stored[a] = Absent
    /\ state' = [state EXCEPT ![a] = "Added"]
    /\ \E v \in Values : current' = [current EXCEPT ![a] = v]
    /\ UNCHANGED <<stored, original, pc, eventVars, wrote, answerLost>>

Change(a) ==
    /\ Running
    /\ state[a] \in {"Unchanged", "Added"}
    /\ \E v \in Values \ {current[a]} : current' = [current EXCEPT ![a] = v]
    /\ UNCHANGED <<stored, state, original, pc, eventVars, wrote, answerLost>>

Delete(a) ==
    /\ Running
    /\ state[a] = "Unchanged"
    /\ state' = [state EXCEPT ![a] = "Deleted"]
    /\ UNCHANGED <<stored, current, original, pc, eventVars, wrote, answerLost>>

\* Entity.AddDomainEvent.
AddDomainEvent(a) ==
    /\ Running
    /\ a \in Tracked
    /\ Len(raised) < MaxEvents
    /\ pending' = [pending EXCEPT ![a] = Append(@, Len(raised) + 1)]
    /\ raised' = Append(raised, [source |-> a, stage |-> pc])
    /\ UNCHANGED <<stored, trackerVars, pc, queue, serving, published, wrote, answerLost>>

HandlerWorks == \E a \in Aggregates :
    Load(a) \/ Create(a) \/ Change(a) \/ Delete(a) \/ AddDomainEvent(a)

-----------------------------------------------------------------------------
(***************************************************************************)
(* The change tracker.  ChangeTracker.Entries and SaveChanges compare the  *)
(* objects with the original values first: an entry is Modified when they  *)
(* differ.                                                                 *)
(***************************************************************************)
Modified == {a \in Aggregates : state[a] = "Unchanged" /\ current[a] # original[a]}
Dirty == Modified \cup {a \in Aggregates : state[a] \in {"Added", "Deleted"}}

\* Variant: a save that writes whole rows, there or not.
NoConflict == FALSE

\* An UPDATE or a DELETE that finds no row.
Conflict == \E a \in Dirty : state[a] # "Added" /\ stored[a] = Absent

\* SaveChanges is one transaction.
WriteDirty ==
    /\ stored' = [a \in Aggregates |->
                    IF a \notin Dirty THEN stored[a]
                    ELSE IF state[a] = "Deleted" THEN Absent ELSE current[a]]
    /\ wrote' = wrote \cup Dirty

AcceptChanges ==
    /\ state' = [a \in Aggregates |->
                    CASE state[a] = "Added" -> "Unchanged"
                      [] state[a] = "Deleted" -> "Detached"
                      [] OTHER -> state[a]]
    /\ original' = current
    /\ UNCHANGED current

\* Variants: RevertAsync marks the deleted entries Modified ...
RevertToModified ==
    /\ state' = [a \in Aggregates |->
                    CASE state[a] = "Added" -> "Detached"
                      [] state[a] = "Deleted" -> "Modified"
                      [] OTHER -> state[a]]
    /\ UNCHANGED <<current, original>>

\* ... or forgets them.
RevertKeepsDeleted ==
    /\ state' = [a \in Aggregates |-> IF state[a] = "Added" THEN "Detached" ELSE state[a]]
    /\ current' = [a \in Aggregates |-> IF a \in Modified THEN original[a] ELSE current[a]]
    /\ UNCHANGED original

\* UnitOfWork.RevertAsync.  EntityState.Unchanged restores the values of an
\* entry that was Modified, not of one that was Deleted.
RevertAsync ==
    /\ state' = [a \in Aggregates |->
                    CASE state[a] = "Added" -> "Detached"
                      [] state[a] = "Deleted" -> "Unchanged"
                      [] OTHER -> state[a]]
    /\ current' = [a \in Aggregates |-> IF a \in Modified THEN original[a] ELSE current[a]]
    /\ UNCHANGED original

\* Variant: the behaviour runs the handler again after a failure.
ThrowAndRetry ==
    /\ RevertAsync
    /\ pc' = "handler"
    /\ queue' = <<>>
    /\ serving' = 0
    /\ UNCHANGED <<pending, raised, published>>

\* The behaviour's catch clause: revert and rethrow.  What the dispatcher had
\* not published yet goes with its stack frame.
Throw ==
    /\ RevertAsync
    /\ pc' = "failed"
    /\ queue' = <<>>
    /\ serving' = 0
    /\ UNCHANGED <<pending, raised, published>>

-----------------------------------------------------------------------------
(***************************************************************************)
(* The pipeline.                                                           *)
(***************************************************************************)
\* Variant: the changes are saved before the events are dispatched.
HandlerReturnsAndSaves ==
    /\ pc = "handler"
    /\ ~ Conflict
    /\ WriteDirty
    /\ AcceptChanges
    /\ pc' = "commit"
    /\ UNCHANGED <<eventVars, answerLost>>

HandlerReturns ==
    /\ pc = "handler"
    /\ pc' = "commit"
    /\ UNCHANGED <<stored, trackerVars, eventVars, wrote, answerLost>>

\* The command's handler, or one of a notification, throws.
HandlerThrows ==
    /\ Running
    /\ Throw
    /\ UNCHANGED <<stored, wrote, answerLost>>

\* DispatchEventsAsync: collect the events of the tracked entities, in the
\* tracker's order, and clear them.
DispatchEvents ==
    /\ pc = "commit"
    /\ \E order \in SetToSeqs(Tracked) :
         queue' = FlattenSeq([i \in DOMAIN order |-> pending[order[i]]])
    /\ pending' = [a \in Aggregates |-> IF a \in Tracked THEN <<>> ELSE pending[a]]
    /\ pc' = "publish"
    /\ UNCHANGED <<stored, trackerVars, serving, raised, published, wrote, answerLost>>

\* Mediator.Publish of the next event: its handlers run one after the other.
PublishNext ==
    /\ pc = "publish"
    /\ serving = 0
    /\ queue # <<>>
    /\ serving' = Head(queue)
    /\ queue' = Tail(queue)
    /\ published' = Append(published, Head(queue))
    /\ UNCHANGED <<stored, trackerVars, pc, pending, raised, wrote, answerLost>>

\* Variant: an entity's events are cleared once its event was handled.
EventHandlersFinishAndClear ==
    /\ serving # 0
    /\ serving' = 0
    /\ pending' = [pending EXCEPT ![raised[serving].source] = <<>>]
    /\ UNCHANGED <<stored, trackerVars, pc, queue, raised, published, wrote, answerLost>>

EventHandlersFinish ==
    /\ serving # 0
    /\ serving' = 0
    /\ UNCHANGED <<stored, trackerVars, pc, pending, queue, raised, published, wrote, answerLost>>

\* Variant: CommitAsync does not await DispatchEventsAsync.
DispatchStarted == pc = "publish"

Dispatched == pc = "publish" /\ serving = 0 /\ queue = <<>>

SaveChanges ==
    /\ Dispatched
    /\ ~ Conflict
    /\ WriteDirty
    /\ AcceptChanges
    /\ pc' = "ok"
    /\ UNCHANGED <<eventVars, answerLost>>

\* Variant: no transaction; what was written before the failure stays.
SaveChangesFailsHalfway ==
    /\ Dispatched
    /\ Conflict \/ DatabaseMayFail
    /\ \E written \in SUBSET Dirty :
         stored' = [a \in Aggregates |->
                      IF a \notin written THEN stored[a]
                      ELSE IF state[a] = "Deleted" THEN Absent ELSE current[a]]
    /\ Throw
    /\ UNCHANGED <<wrote, answerLost>>

SaveChangesFails ==
    /\ Dispatched
    /\ Conflict \/ DatabaseMayFail
    /\ Throw
    /\ UNCHANGED <<stored, wrote, answerLost>>

SaveChangesAnswerLost ==
    /\ AnswerMayBeLost
    /\ Dispatched
    /\ ~ Conflict
    /\ WriteDirty
    /\ answerLost' = TRUE
    /\ Throw

Pipeline ==
    \/ HandlerReturns \/ HandlerThrows
    \/ DispatchEvents \/ PublishNext \/ EventHandlersFinish
    \/ SaveChanges \/ SaveChangesFails \/ SaveChangesAnswerLost

\* Another scope changes or deletes a row.
OtherScope(a) ==
    /\ pc \notin {"ok", "failed"}
    /\ stored[a] # Absent
    /\ \E v \in (Values \cup {Absent}) \ {stored[a]} : stored' = [stored EXCEPT ![a] = v]
    /\ UNCHANGED <<trackerVars, pc, eventVars, wrote, answerLost>>

Next == HandlerWorks \/ Pipeline \/ \E a \in Aggregates : OtherScope(a)

Spec == Init /\ [][Next]_vars

\* Handlers return or throw in the end, and so does the database.
FairSpec == Spec /\ WF_vars(Pipeline)
-----------------------------------------------------------------------------
(***************************************************************************)
(* Properties.                                                             *)
(***************************************************************************)

\* A command that fails - in its handler, in a handler of one of its events, or
\* in SaveChanges - has written nothing, because everything is dispatched before
\* anything is saved; one that succeeds has nothing left to write, what the
\* handlers of its events changed included.  Only a lost answer makes a command
\* fail that is saved.
AllOrNothing ==
    /\ pc = "failed" /\ ~ answerLost => wrote = {}
    /\ pc = "ok" => Dirty = {}

\* Every event that the command's handler raised is published exactly once if
\* the command succeeds, and never twice nor out of its aggregate's order,
\* whatever the handlers of earlier events add to the same entities meanwhile.
EventsOnceInOrder ==
    /\ \A i, j \in DOMAIN published :
         i < j /\ raised[published[i]].source = raised[published[j]].source
            => published[i] < published[j]
    /\ pc = "ok" => \A n \in DOMAIN raised :
                       raised[n].stage = "handler" => n \in ToSet(published)

\* An event is in one place: with its entity, in the dispatcher's list, or published.
\* It vanishes with the dispatcher's list only, when a handler of another event
\* throws: not by a failing SaveChanges, and not before an event was published.
\* When a command has succeeded, the events that nobody heard are those raised
\* while events were being published, and they wait with their entities.
EventsAreKept ==
    \A n \in DOMAIN raised :
        LET places == {p \in {"pending", "queue", "published"} :
                         n \in ToSet(CASE p = "pending" -> pending[raised[n].source]
                                       [] p = "queue" -> queue
                                       [] p = "published" -> published)}
        IN /\ \A p, q \in places : p = q
           /\ places = {} => /\ pc = "failed" /\ ~ answerLost
                             /\ raised[n].stage = "handler"
                             /\ published # <<>>
           /\ pc = "ok" /\ "pending" \in places => raised[n].stage = "publish"

\* A revert leaves nothing of the failed command in the change tracker that a
\* later SaveChanges of the scope would write - unless an entity was changed and
\* then removed.
RevertLeavesNothing ==
    [][pc' = "failed" =>
        Dirty' \subseteq {a \in Aggregates : state[a] = "Deleted" /\ current[a] # original[a]}
      ]_vars

\* A row that another scope deleted does not come back: a command that loaded it
\* before fails in SaveChanges instead of writing what it remembers.  Only a
\* command that created the aggregate anew brings a row where there was none.
DeletedStaysDeleted ==
    [][\A a \in Aggregates :
         stored[a] = Absent /\ stored'[a] # Absent => state[a] = "Added"]_vars

\* The pipeline comes to an end although the handlers of events may raise events.
Terminates == <>(pc \in {"ok", "failed"})

\* What the caller of a command and the database see of all this.
Ended == pc \in {"ok", "failed"}
Known == [a \in Aggregates |-> IF Ended \/ state[a] = "Detached" THEN "no"
                               ELSE IF state[a] = "Added" THEN "created" ELSE "seen"]

Command == INSTANCE AtomicCommand
    WITH table <- stored, known <- Known, heard <- published,
         outcome <- IF Ended THEN pc ELSE "open"

\* Tracker, dispatcher and save together act as one atomic command: between the first
\* Load and the end of the request nothing of it is in the database, then all of
\* it, and only once every event of its handler was heard.
ImplementsCommand == Command!CommandSpec

(***************************************************************************)
(* What the repository says and the code does not do.                      *)
(***************************************************************************)

\* UnitOfWorkTests.cs:113, RevertAsync_ShouldClearAllPendingChanges.
RevertClearsAllPendingChanges == pc = "failed" => Dirty = {}
=============================================================================
