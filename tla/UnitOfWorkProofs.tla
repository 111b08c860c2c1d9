--------------------------- MODULE UnitOfWorkProofs ---------------------------
(***************************************************************************)
(* Theorems about UnitOfWork, for any aggregates, any values, any handlers *)
(* and every failure of the database: first what is written, then which    *)
(* events are published.                                                   *)
(***************************************************************************)
EXTENDS UnitOfWork, FiniteSetTheorems, SequenceTheorems, WellFoundedInduction, TLAPS

\* What the table and the tracker hold.
TrackerTypes ==
    /\ stored \in [Aggregates -> Values \cup {Absent}]
    /\ state \in [Aggregates -> EntryStates]
    /\ current \in [Aggregates -> Values \cup {Absent}]
    /\ original \in [Aggregates -> Values \cup {Absent}]

\* Handlers of events run while events are published only; nothing is written
\* before the save, which is the last step, and a lost answer is a failure.
StagesInv ==
    /\ pc \in Stages
    /\ serving # 0 => pc = "publish"
    /\ wrote # {} => pc = "ok" \/ (pc = "failed" /\ answerLost)
    /\ answerLost => pc = "failed"
    /\ pc = "ok" => Dirty = {}

IInv == TrackerTypes /\ StagesInv

(***************************************************************************)
(* The change tracker.                                                     *)
(***************************************************************************)
LEMMA TrackerFields ==
    ASSUME TrackerTypes, NEW a \in Aggregates
    PROVE  /\ state[a] \in EntryStates
           /\ stored[a] \in Values \cup {Absent}
           /\ current[a] \in Values \cup {Absent}
           /\ original[a] \in Values \cup {Absent}
  BY DEF TrackerTypes

\* A save leaves nothing to write.
LEMMA AcceptClears ==
    ASSUME TrackerTypes, AcceptChanges
    PROVE  /\ state' \in [Aggregates -> EntryStates]
           /\ current' \in [Aggregates -> Values \cup {Absent}]
           /\ original' \in [Aggregates -> Values \cup {Absent}]
           /\ Dirty' = {}
<1>1. /\ state' = [a \in Aggregates |->
                     CASE state[a] = "Added" -> "Unchanged"
                       [] state[a] = "Deleted" -> "Detached"
                       [] OTHER -> state[a]]
      /\ original' = current /\ current' = current
  BY DEF AcceptChanges
<1>2. \A a \in Aggregates : state'[a] \in {"Unchanged", "Detached"}
  BY <1>1, TrackerFields DEF EntryStates
<1>3. Dirty' = {}
  BY <1>1, <1>2 DEF Dirty, Modified
<1>4. state' \in [Aggregates -> EntryStates]
  BY <1>1, <1>2 DEF EntryStates
<1>5. QED BY <1>1, <1>3, <1>4 DEF TrackerTypes

\* A revert leaves what was changed and then removed.
LEMMA RevertClears ==
    ASSUME TrackerTypes, RevertAsync
    PROVE  /\ state' \in [Aggregates -> EntryStates]
           /\ current' \in [Aggregates -> Values \cup {Absent}]
           /\ original' \in [Aggregates -> Values \cup {Absent}]
           /\ Dirty' \subseteq {a \in Aggregates : state[a] = "Deleted" /\ current[a] # original[a]}
<1>1. /\ state' = [a \in Aggregates |->
                     CASE state[a] = "Added" -> "Detached"
                       [] state[a] = "Deleted" -> "Unchanged"
                       [] OTHER -> state[a]]
      /\ current' = [a \in Aggregates |-> IF a \in Modified THEN original[a] ELSE current[a]]
      /\ original' = original
  BY DEF RevertAsync
<1>2. \A a \in Aggregates :
        /\ state'[a] \in {"Unchanged", "Detached"}
        /\ state'[a] = "Unchanged" => state[a] \in {"Unchanged", "Deleted"}
  BY <1>1, TrackerFields DEF EntryStates
<1>3. ASSUME NEW a \in Dirty' PROVE state[a] = "Deleted" /\ current[a] # original[a]
  <2>1. a \in Aggregates /\ state'[a] = "Unchanged" /\ current'[a] # original'[a]
    BY <1>2, <1>3 DEF Dirty, Modified
  <2>2. a \notin Modified
    BY <1>1, <2>1
  <2>3. current[a] # original[a]
    BY <1>1, <2>1, <2>2
  <2>4. QED BY <1>2, <2>1, <2>2, <2>3 DEF Modified
<1>4. state' \in [Aggregates -> EntryStates]
  BY <1>1, <1>2 DEF EntryStates
<1>5. current' \in [Aggregates -> Values \cup {Absent}]
  BY <1>1, TrackerFields
<1>6. Dirty' \subseteq Aggregates
  BY DEF Dirty, Modified
<1>7. QED BY <1>1, <1>3, <1>4, <1>5, <1>6 DEF TrackerTypes

LEMMA SavedTypes ==
    ASSUME TrackerTypes, WriteDirty
    PROVE  stored' \in [Aggregates -> Values \cup {Absent}]
  BY TrackerFields DEF WriteDirty

(***************************************************************************)
(* The steps.                                                              *)
(***************************************************************************)
\* The rest of a failing step: the pipeline is over.
LEMMA ThrowStep ==
    ASSUME TrackerTypes, Throw
    PROVE  /\ pc' = "failed" /\ serving' = 0
           /\ Dirty' \subseteq {a \in Aggregates : state[a] = "Deleted" /\ current[a] # original[a]}
           /\ state' \in [Aggregates -> EntryStates]
           /\ current' \in [Aggregates -> Values \cup {Absent}]
           /\ original' \in [Aggregates -> Values \cup {Absent}]
  BY RevertClears DEF Throw

LEMMA InvStep == IInv /\ [Next]_vars => IInv'
<1> SUFFICES ASSUME TrackerTypes, StagesInv, [Next]_vars PROVE TrackerTypes' /\ StagesInv'
  BY DEF IInv
<1> USE DEF Stages
<1>1. ASSUME NEW a \in Aggregates, Load(a) \/ Create(a) \/ Change(a) \/ Delete(a)
      PROVE  TrackerTypes' /\ StagesInv'
  <2>1. TrackerTypes'
    BY <1>1, TrackerFields DEF Load, Create, Change, Delete, TrackerTypes, EntryStates
  <2>2. StagesInv'
    BY <1>1 DEF Load, Create, Change, Delete, Running, StagesInv, eventVars
  <2>3. QED BY <2>1, <2>2
<1>2. ASSUME NEW a \in Aggregates, AddDomainEvent(a) PROVE TrackerTypes' /\ StagesInv'
  BY <1>2 DEF AddDomainEvent, Running, TrackerTypes, StagesInv, trackerVars, Dirty, Modified
<1>3. CASE HandlerReturns
  BY <1>3 DEF HandlerReturns, TrackerTypes, StagesInv, trackerVars, eventVars
<1>4. CASE HandlerThrows
  <2>1. TrackerTypes'
    BY <1>4, ThrowStep DEF HandlerThrows, TrackerTypes
  <2>2. StagesInv'
    BY <1>4, ThrowStep DEF HandlerThrows, Running, StagesInv
  <2>3. QED BY <2>1, <2>2
<1>5. CASE DispatchEvents
  BY <1>5 DEF DispatchEvents, TrackerTypes, StagesInv, trackerVars
<1>6. CASE PublishNext
  BY <1>6 DEF PublishNext, TrackerTypes, StagesInv, trackerVars
<1>7. CASE EventHandlersFinish
  BY <1>7 DEF EventHandlersFinish, TrackerTypes, StagesInv, trackerVars
<1>8. CASE SaveChanges
  <2>1. TrackerTypes'
    BY <1>8, AcceptClears, SavedTypes DEF SaveChanges, TrackerTypes
  <2>2. StagesInv'
    BY <1>8, AcceptClears DEF SaveChanges, Dispatched, StagesInv, eventVars
  <2>3. QED BY <2>1, <2>2
<1>9. CASE SaveChangesFails
  <2>1. TrackerTypes'
    BY <1>9, ThrowStep DEF SaveChangesFails, TrackerTypes
  <2>2. StagesInv'
    BY <1>9, ThrowStep DEF SaveChangesFails, Dispatched, StagesInv
  <2>3. QED BY <2>1, <2>2
<1>10. CASE SaveChangesAnswerLost
  <2>1. TrackerTypes'
    BY <1>10, ThrowStep, SavedTypes DEF SaveChangesAnswerLost, TrackerTypes
  <2>2. StagesInv'
    BY <1>10, ThrowStep DEF SaveChangesAnswerLost, StagesInv
  <2>3. QED BY <2>1, <2>2
<1>11. ASSUME NEW a \in Aggregates, OtherScope(a) PROVE TrackerTypes' /\ StagesInv'
  BY <1>11 DEF OtherScope, TrackerTypes, StagesInv, trackerVars, eventVars
<1>12. CASE UNCHANGED vars
  BY <1>12 DEF vars, TrackerTypes, StagesInv, Dirty, Modified
<1> QED
  BY <1>1, <1>2, <1>3, <1>4, <1>5, <1>6, <1>7, <1>8, <1>9, <1>10, <1>11, <1>12
     DEF Next, HandlerWorks, Pipeline

(***************************************************************************)
(* The theorems.                                                           *)
(***************************************************************************)

\* The invariant holds initially and every step keeps it.
THEOREM UnitOfWorkInductive == Spec => []IInv
<1>1. Init => IInv
  BY DEF Init, IInv, TrackerTypes, StagesInv, EntryStates, Stages, Dirty, Modified
<1>2. QED BY <1>1, InvStep, PTL DEF Spec

\* A command that fails wrote nothing, unless the database's answer was lost; one
\* that succeeds left nothing to write.
THEOREM CommandsAreAllOrNothing == Spec => []AllOrNothing
<1>1. IInv => AllOrNothing
  BY DEF IInv, StagesInv, AllOrNothing
<1>2. QED BY <1>1, UnitOfWorkInductive, PTL

\* After a failure, only an entity that was changed and then removed is left in
\* the tracker with something to write.
THEOREM RevertsAreClean == Spec => RevertLeavesNothing
<1>1. IInv /\ [Next]_vars =>
        [pc' = "failed" =>
           Dirty' \subseteq {a \in Aggregates : state[a] = "Deleted" /\ current[a] # original[a]}
        ]_vars
  <2> SUFFICES ASSUME TrackerTypes, StagesInv, Next, pc' = "failed"
               PROVE  Dirty' \subseteq {a \in Aggregates : state[a] = "Deleted" /\ current[a] # original[a]}
    BY DEF IInv
  <2>1. CASE Throw
    BY <2>1, ThrowStep
  <2>2. CASE HandlerWorks
    BY <2>2 DEF HandlerWorks, Load, Create, Change, Delete, AddDomainEvent, Running, StagesInv
  <2>3. CASE \E a \in Aggregates : OtherScope(a)
    BY <2>3 DEF OtherScope
  <2>4. CASE HandlerReturns \/ DispatchEvents \/ PublishNext \/ EventHandlersFinish \/ SaveChanges
    BY <2>4 DEF HandlerReturns, DispatchEvents, PublishNext, EventHandlersFinish, SaveChanges, StagesInv
  <2>5. QED
    BY <2>1, <2>2, <2>3, <2>4
       DEF Next, Pipeline, HandlerThrows, SaveChangesFails, SaveChangesAnswerLost
<1>2. QED BY <1>1, UnitOfWorkInductive, PTL DEF Spec, RevertLeavesNothing

\* No save brings back a row that another scope deleted.
THEOREM DeletedRowsStayDeleted == Spec => DeletedStaysDeleted
<1>1. IInv /\ [Next]_vars =>
        [\A a \in Aggregates :
           stored[a] = Absent /\ stored'[a] # Absent => state[a] = "Added"]_vars
  <2> SUFFICES ASSUME Next, NEW a \in Aggregates, TrackerTypes,
                      stored[a] = Absent, stored'[a] # Absent
               PROVE  state[a] = "Added"
    BY DEF IInv
  <2>1. CASE WriteDirty /\ ~ Conflict
    <3>1. a \in Dirty
      BY <2>1 DEF WriteDirty
    <3>2. QED BY <2>1, <3>1 DEF Conflict
  <2>2. CASE \E b \in Aggregates : OtherScope(b)
    BY <2>2 DEF OtherScope, TrackerTypes
  <2>3. CASE UNCHANGED stored
    BY <2>3
  <2>4. QED
    BY <2>1, <2>2, <2>3
       DEF Next, HandlerWorks, Pipeline, Load, Create, Change, Delete, AddDomainEvent,
           HandlerReturns, HandlerThrows, DispatchEvents, PublishNext, EventHandlersFinish,
           SaveChanges, SaveChangesFails, SaveChangesAnswerLost
<1>2. QED BY <1>1, UnitOfWorkInductive, PTL DEF Spec, DeletedStaysDeleted

-----------------------------------------------------------------------------
(***************************************************************************)
(* The domain events, for any order in which the change tracker hands its  *)
(* entities to the dispatcher.                                             *)
(***************************************************************************)

LEMMA LeastNatural ==
    ASSUME NEW T \in SUBSET Nat, T # {}
    PROVE  \E x \in T : \A y \in T : x <= y
<1> DEFINE R == {ss \in Nat \X Nat : ss[1] < ss[2]}
<1>1. IsWellFoundedOn(R, Nat)
  BY NatLessThanWellFounded DEF OpToRel
<1>2. PICK x \in T : \A y \in T : ~ (<<y, x>> \in R)
  BY <1>1, WFMin
<1>3. ASSUME NEW y \in T PROVE x <= y
  <2>1. <<y, x>> \notin R /\ <<y, x>> \in Nat \X Nat
    BY <1>2
  <2>2. ~ (y < x)
    BY <2>1
  <2>3. QED BY <2>2
<1>4. QED BY <1>3

(***************************************************************************)
(* Lists of events.  sources says which entity an event is of.             *)
(***************************************************************************)
In(x, s) == \E k \in 1..Len(s) : s[k] = x

\* The events of one entity are in the order of their numbers.
Ordered(s, sources) ==
    \A k, l \in 1..Len(s) : k < l /\ sources[s[k]] = sources[s[l]] => s[k] < s[l]

LEMMA InEmpty == \A x : ~ In(x, <<>>)
  BY DEF In

LEMMA OrderedEmpty == \A sources : Ordered(<<>>, sources)
  BY DEF Ordered

LEMMA InConcat ==
    ASSUME NEW s \in Seq(Nat), NEW t \in Seq(Nat), NEW x
    PROVE  In(x, s \o t) <=> In(x, s) \/ In(x, t)
<1> DEFINE c == s \o t
<1>1. /\ Len(s) \in Nat /\ Len(t) \in Nat /\ Len(c) = Len(s) + Len(t)
      /\ \A i \in 1..Len(s) + Len(t) : c[i] = IF i <= Len(s) THEN s[i] ELSE t[i - Len(s)]
  BY ConcatProperties
<1> HIDE DEF c
<1>2. ASSUME In(x, s) PROVE In(x, c)
  <2>1. PICK k \in 1..Len(s) : s[k] = x
    BY <1>2 DEF In
  <2>2. k \in 1..Len(s) + Len(t) /\ k <= Len(s)
    BY <1>1
  <2>3. c[k] = x
    BY <1>1, <2>1, <2>2
  <2>4. QED BY <1>1, <2>2, <2>3 DEF In
<1>3. ASSUME In(x, t) PROVE In(x, c)
  <2>1. PICK k \in 1..Len(t) : t[k] = x
    BY <1>3 DEF In
  <2>2. k + Len(s) \in 1..Len(s) + Len(t) /\ ~ (k + Len(s) <= Len(s)) /\ k + Len(s) - Len(s) = k
    BY <1>1
  <2>3. c[k + Len(s)] = x
    BY <1>1, <2>1, <2>2
  <2>4. QED BY <1>1, <2>2, <2>3 DEF In
<1>4. ASSUME In(x, c) PROVE In(x, s) \/ In(x, t)
  <2>1. PICK k \in 1..Len(s) + Len(t) : c[k] = x
    BY <1>1, <1>4 DEF In
  <2>2. CASE k <= Len(s)
    <3>1. k \in 1..Len(s) /\ s[k] = x
      BY <1>1, <2>1, <2>2
    <3>2. QED BY <3>1 DEF In
  <2>3. CASE ~ (k <= Len(s))
    <3>1. k - Len(s) \in 1..Len(t) /\ t[k - Len(s)] = x
      BY <1>1, <2>1, <2>3
    <3>2. QED BY <3>1 DEF In
  <2>4. QED BY <2>2, <2>3
<1>5. QED BY <1>2, <1>3, <1>4 DEF c

LEMMA OrderedConcat ==
    ASSUME NEW s \in Seq(Nat), NEW t \in Seq(Nat), NEW sources,
           Ordered(s, sources), Ordered(t, sources),
           \A x, y : In(x, s) /\ In(y, t) /\ sources[x] = sources[y] => x < y
    PROVE  Ordered(s \o t, sources)
<1> DEFINE c == s \o t
<1>1. /\ Len(s) \in Nat /\ Len(t) \in Nat /\ Len(c) = Len(s) + Len(t)
      /\ \A i \in 1..Len(s) + Len(t) : c[i] = IF i <= Len(s) THEN s[i] ELSE t[i - Len(s)]
  BY ConcatProperties
<1> HIDE DEF c
<1>2. SUFFICES ASSUME NEW k \in 1..Len(c), NEW l \in 1..Len(c), k < l, sources[c[k]] = sources[c[l]]
               PROVE  c[k] < c[l]
  BY DEF Ordered, c
<1>3. CASE l <= Len(s)
  <2>1. k \in 1..Len(s) /\ l \in 1..Len(s) /\ c[k] = s[k] /\ c[l] = s[l]
    BY <1>1, <1>2, <1>3
  <2>2. QED BY <1>2, <2>1 DEF Ordered
<1>4. CASE ~ (k <= Len(s))
  <2>1. /\ k - Len(s) \in 1..Len(t) /\ l - Len(s) \in 1..Len(t) /\ k - Len(s) < l - Len(s)
        /\ c[k] = t[k - Len(s)] /\ c[l] = t[l - Len(s)]
    BY <1>1, <1>2, <1>4
  <2>2. QED BY <1>2, <2>1 DEF Ordered
<1>5. CASE k <= Len(s) /\ ~ (l <= Len(s))
  <2>1. k \in 1..Len(s) /\ l - Len(s) \in 1..Len(t) /\ c[k] = s[k] /\ c[l] = t[l - Len(s)]
    BY <1>1, <1>2, <1>5
  <2>2. In(c[k], s) /\ In(c[l], t)
    BY <2>1 DEF In
  <2>3. QED BY <1>2, <2>2
<1>6. QED BY <1>1, <1>3, <1>4, <1>5

LEMMA Single ==
    ASSUME NEW e \in Nat
    PROVE  /\ <<e>> \in Seq(Nat)
           /\ \A x : In(x, <<e>>) <=> x = e
           /\ \A sources : Ordered(<<e>>, sources)
<1>1. <<e>> \in Seq(Nat) /\ Len(<<e>>) = 1 /\ <<e>>[1] = e
  OBVIOUS
<1>2. QED BY <1>1 DEF In, Ordered

LEMMA AppendEvent ==
    ASSUME NEW s \in Seq(Nat), NEW e \in Nat
    PROVE  /\ Append(s, e) \in Seq(Nat)
           /\ \A x : In(x, Append(s, e)) <=> In(x, s) \/ x = e
           /\ \A sources :
                /\ Ordered(s, sources)
                /\ \A x : In(x, s) /\ sources[x] = sources[e] => x < e
                => Ordered(Append(s, e), sources)
<1>1. Append(s, e) = s \o <<e>>
  BY AppendIsConcat
<1>2. Append(s, e) \in Seq(Nat)
  BY AppendProperties
<1>3. ASSUME NEW x PROVE In(x, Append(s, e)) <=> In(x, s) \/ x = e
  <2>1. <<e>> \in Seq(Nat) /\ (In(x, <<e>>) <=> x = e)
    BY Single
  <2>2. In(x, s \o <<e>>) <=> In(x, s) \/ In(x, <<e>>)
    BY <2>1, InConcat
  <2>3. QED BY <1>1, <2>1, <2>2
<1>4. ASSUME NEW sources, Ordered(s, sources),
             \A x : In(x, s) /\ sources[x] = sources[e] => x < e
      PROVE  Ordered(Append(s, e), sources)
  <2>1. \A x, y : In(x, s) /\ In(y, <<e>>) /\ sources[x] = sources[y] => x < y
    BY <1>4, Single
  <2>2. <<e>> \in Seq(Nat) /\ Ordered(<<e>>, sources)
    BY Single
  <2>3. QED BY <1>1, <1>4, <2>1, <2>2, OrderedConcat
<1>5. QED BY <1>2, <1>3, <1>4

LEMMA FirstEvent ==
    ASSUME NEW s \in Seq(Nat), s # <<>>
    PROVE  /\ Head(s) \in Nat /\ Tail(s) \in Seq(Nat)
           /\ \A x : In(x, s) <=> x = Head(s) \/ In(x, Tail(s))
           /\ \A sources : Ordered(s, sources) =>
                /\ Ordered(Tail(s), sources)
                /\ \A x : In(x, Tail(s)) /\ sources[x] = sources[Head(s)] => Head(s) < x
<1> DEFINE t == Tail(s)
<1>1. /\ Head(s) \in Nat /\ t \in Seq(Nat) /\ Len(t) = Len(s) - 1 /\ Len(s) \in Nat \ {0}
      /\ \A i \in 1..Len(t) : t[i] = s[i + 1]
      /\ Head(s) = s[1]
  BY HeadTailProperties, EmptySeq
<1> HIDE DEF t
<1>2. ASSUME NEW x PROVE In(x, s) <=> x = Head(s) \/ In(x, t)
  <2>1. ASSUME In(x, s) PROVE x = Head(s) \/ In(x, t)
    <3>1. PICK k \in 1..Len(s) : s[k] = x
      BY <2>1 DEF In
    <3>2. CASE k = 1
      BY <1>1, <3>1, <3>2
    <3>3. CASE k # 1
      <4>1. k - 1 \in 1..Len(t) /\ t[k - 1] = x
        BY <1>1, <3>1, <3>3
      <4>2. QED BY <4>1 DEF In
    <3>4. QED BY <3>2, <3>3
  <2>2. ASSUME In(x, t) PROVE In(x, s)
    <3>1. PICK k \in 1..Len(t) : t[k] = x
      BY <2>2 DEF In
    <3>2. k + 1 \in 1..Len(s) /\ s[k + 1] = x
      BY <1>1, <3>1
    <3>3. QED BY <3>2 DEF In
  <2>3. ASSUME x = Head(s) PROVE In(x, s)
    <3>1. 1 \in 1..Len(s) /\ s[1] = x
      BY <1>1, <2>3
    <3>2. QED BY <3>1 DEF In
  <2>4. QED BY <2>1, <2>2, <2>3
<1>3. ASSUME NEW sources, Ordered(s, sources) PROVE Ordered(t, sources)
  <2> SUFFICES ASSUME NEW k \in 1..Len(t), NEW l \in 1..Len(t), k < l, sources[t[k]] = sources[t[l]]
               PROVE  t[k] < t[l]
    BY DEF Ordered
  <2>1. k + 1 \in 1..Len(s) /\ l + 1 \in 1..Len(s) /\ k + 1 < l + 1
    <3>1. k \in Int /\ l \in Int /\ k < l /\ k <= Len(t) /\ l <= Len(t) /\ k >= 1 /\ l >= 1
      BY <1>1
    <3>2. Len(s) \in Int /\ Len(s) = Len(t) + 1 /\ Len(t) \in Int
      BY <1>1
    <3>3. QED BY <3>1, <3>2
  <2>2. t[k] = s[k + 1] /\ t[l] = s[l + 1]
    BY <1>1
  <2>3. sources[s[k + 1]] = sources[s[l + 1]]
    BY <2>2
  <2>4. s[k + 1] < s[l + 1]
    BY <1>3, <2>1, <2>3 DEF Ordered
  <2>5. QED BY <2>2, <2>4
<1>4. ASSUME NEW sources, Ordered(s, sources), NEW x, In(x, t), sources[x] = sources[Head(s)]
      PROVE  Head(s) < x
  <2>1. PICK k \in 1..Len(t) : t[k] = x
    BY <1>4 DEF In
  <2>2. 1 \in 1..Len(s) /\ k + 1 \in 1..Len(s) /\ 1 < k + 1 /\ s[k + 1] = x /\ s[1] = Head(s)
    BY <1>1, <2>1
  <2>3. QED BY <1>4, <2>2 DEF Ordered
<1>5. QED BY <1>1, <1>2, <1>3, <1>4 DEF t

\* The order depends on the sources of the list's events only.
LEMMA OrderedSame ==
    ASSUME NEW s, NEW f, NEW g, \A x : In(x, s) => f[x] = g[x], Ordered(s, f)
    PROVE  Ordered(s, g)
<1>1. \A k \in 1..Len(s) : f[s[k]] = g[s[k]]
  BY DEF In
<1>2. QED BY <1>1 DEF Ordered

-----------------------------------------------------------------------------
(***************************************************************************)
(* One list after the other: FlattenSeq is a recursive function, and what  *)
(* it computes is shown by the least index at which it would not.          *)
(***************************************************************************)
Flat(f, s, n) == f = [i \in 1..n |-> IF i = 1 THEN s[i] ELSE f[i - 1] \o s[i]]

LEMMA FlatExists ==
    ASSUME NEW s, NEW n \in Nat
    PROVE  \E f : Flat(f, s, n)
<1> DEFINE T == {m \in Nat : ~ \E f : Flat(f, s, m)}
<1> SUFFICES ASSUME T # {} PROVE FALSE
  OBVIOUS
<1>1. PICK m \in T : \A k \in T : m <= k
  BY LeastNatural
<1>2. m \in Nat /\ ~ \E f : Flat(f, s, m)
  OBVIOUS
<1>3. CASE m = 0
  <2> DEFINE f == [i \in 1..0 |-> s]
  <2>1. f = [i \in 1..0 |-> IF i = 1 THEN s[i] ELSE f[i - 1] \o s[i]]
    OBVIOUS
  <2>2. Flat(f, s, m)
    BY <1>3, <2>1 DEF Flat
  <2>3. QED BY <1>2, <2>2
<1>4. CASE m # 0
  <2>1. m - 1 \in Nat /\ m - 1 \notin T
    BY <1>1, <1>2, <1>4
  <2>2. PICK f : Flat(f, s, m - 1)
    BY <2>1
  <2> DEFINE g == [i \in 1..m |-> IF i < m THEN f[i] ELSE IF i = 1 THEN s[i] ELSE f[i - 1] \o s[i]]
  <2>3. \A i \in 1..(m - 1) : f[i] = IF i = 1 THEN s[i] ELSE f[i - 1] \o s[i]
    BY <2>2 DEF Flat
  <2>4. \A i \in 1..m : i < m <=> i \in 1..(m - 1)
    BY <1>2
  <2>5. \A i \in 1..m : i # 1 => i - 1 \in 1..(m - 1) /\ g[i - 1] = f[i - 1]
    BY <1>2, <2>4
  <2>6. \A i \in 1..m : g[i] = IF i = 1 THEN s[i] ELSE g[i - 1] \o s[i]
    BY <2>3, <2>4, <2>5
  <2>7. g = [i \in 1..m |-> IF i = 1 THEN s[i] ELSE g[i - 1] \o s[i]]
    BY <2>6
  <2>8. Flat(g, s, m)
    BY <2>7 DEF Flat
  <2>9. QED BY <1>2, <2>8
<1>5. QED BY <1>3, <1>4

LEMMA FlattenLists ==
    ASSUME NEW n \in Nat, NEW s \in [1..n -> Seq(Nat)], NEW sources,
           \A i \in 1..n : Ordered(s[i], sources),
           \A i, j \in 1..n : \A x, y : i # j /\ In(x, s[i]) /\ In(y, s[j]) => sources[x] # sources[y]
    PROVE  /\ FlattenSeq(s) \in Seq(Nat)
           /\ Ordered(FlattenSeq(s), sources)
           /\ \A x : In(x, FlattenSeq(s)) <=> \E i \in 1..n : In(x, s[i])
<1>1. s \in Seq(Seq(Nat)) /\ Len(s) = n
  OBVIOUS
<1>2. CASE n = 0
  <2>1. s = <<>>
    BY <1>1, <1>2
  <2>2. FlattenSeq(s) = <<>>
    BY <1>1, <1>2, <2>1 DEF FlattenSeq
  <2>3. <<>> \in Seq(Nat)
    OBVIOUS
  <2>4. QED BY <1>2, <2>2, <2>3, InEmpty, OrderedEmpty
<1>3. CASE n # 0
  <2> DEFINE f == CHOOSE g : g = [i \in 1..n |-> IF i = 1 THEN s[i] ELSE g[i - 1] \o s[i]]
  <2>1. FlattenSeq(s) = f[n]
    BY <1>1, <1>3 DEF FlattenSeq
  <2>2. f = [i \in 1..n |-> IF i = 1 THEN s[i] ELSE f[i - 1] \o s[i]]
    BY FlatExists DEF Flat
  <2> HIDE DEF f
  <2>3. \A i \in 1..n : f[i] = IF i = 1 THEN s[i] ELSE f[i - 1] \o s[i]
    BY <2>2
  <2> DEFINE Good(m) == /\ f[m] \in Seq(Nat)
                        /\ Ordered(f[m], sources)
                        /\ \A x : In(x, f[m]) <=> \E i \in 1..m : In(x, s[i])
             T == {m \in Nat : m \in 1..n /\ ~ Good(m)}
  <2>4. T = {}
    <3> SUFFICES ASSUME T # {} PROVE FALSE
      OBVIOUS
    <3>1. PICK m \in T : \A k \in T : m <= k
      BY LeastNatural
    <3>2. m \in 1..n /\ ~ Good(m)
      OBVIOUS
    <3>3. CASE m = 1
      <4>1. f[m] = s[1] /\ 1 \in 1..n
        BY <2>3, <3>2, <3>3
      <4>2. \A i \in 1..m : i = 1
        BY <3>3
      <4>3. 1 \in 1..m
        BY <3>3
      <4>4. \A x : In(x, f[m]) <=> \E i \in 1..m : In(x, s[i])
        BY <4>1, <4>2, <4>3
      <4>5. QED BY <3>2, <4>1, <4>4
    <3>4. CASE m # 1
      <4> DEFINE k == m - 1
      <4>1. k \in 1..n /\ k \in Nat /\ ~ (m <= k)
        BY <3>2, <3>4
      <4>14. k \notin T
        BY <3>1, <4>1
      <4>2. Good(k)
        BY <4>1, <4>14
      <4>3. f[m] = f[k] \o s[m] /\ s[m] \in Seq(Nat) /\ f[k] \in Seq(Nat)
        BY <2>3, <3>2, <3>4, <4>2
      <4>4. \A i \in 1..m : i \in 1..k \/ i = m
        BY <3>2
      <4>5. \A i \in 1..k : i \in 1..m /\ i \in 1..n /\ i # m
        BY <3>2
      <4> HIDE DEF k
      <4>6. \A x : In(x, f[m]) <=> In(x, f[k]) \/ In(x, s[m])
        BY <4>3, InConcat
      <4>7. \A x : In(x, f[k]) <=> \E i \in 1..k : In(x, s[i])
        BY <4>2
      <4>8. m \in 1..m
        BY <3>2
      <4>9. \A x : In(x, f[m]) <=> \E i \in 1..m : In(x, s[i])
        BY <4>4, <4>5, <4>6, <4>7, <4>8
      <4>10. \A x, y : In(x, f[k]) /\ In(y, s[m]) => sources[x] # sources[y]
        BY <3>2, <4>5, <4>7
      <4>11. Ordered(f[m], sources)
        <5>1. Ordered(f[k], sources) /\ Ordered(s[m], sources)
          BY <3>2, <4>2
        <5>2. \A x, y : In(x, f[k]) /\ In(y, s[m]) /\ sources[x] = sources[y] => x < y
          BY <4>10
        <5> DEFINE u == f[k]
                   v == s[m]
        <5>3. u \in Seq(Nat) /\ v \in Seq(Nat) /\ Ordered(u, sources) /\ Ordered(v, sources)
          BY <4>3, <5>1
        <5>4. \A x, y : In(x, u) /\ In(y, v) /\ sources[x] = sources[y] => x < y
          BY <5>2
        <5>5. f[m] = u \o v
          BY <4>3
        <5> HIDE DEF u, v
        <5>6. QED BY <5>3, <5>4, <5>5, OrderedConcat
      <4>12. f[m] \in Seq(Nat)
        BY <4>3, ConcatProperties
      <4>13. QED BY <3>2, <4>9, <4>11, <4>12
    <3>5. QED BY <3>3, <3>4
  <2>5. n \in 1..n
    BY <1>3
  <2>6. Good(n)
    BY <2>4, <2>5
  <2>7. QED BY <2>1, <2>6
<1>4. QED BY <1>2, <1>3

-----------------------------------------------------------------------------
(***************************************************************************)
(* The invariant.                                                          *)
(***************************************************************************)
Sources == [n \in 1..Len(raised) |-> raised[n].source]

EventTypes ==
    /\ raised \in Seq([source : Aggregates, stage : {"handler", "publish"}])
    /\ Len(raised) <= MaxEvents
    /\ pending \in [Aggregates -> Seq(Nat)]
    /\ queue \in Seq(Nat) /\ published \in Seq(Nat)
    /\ serving \in 0..Len(raised)
    /\ wrote \subseteq Aggregates
    /\ answerLost \in BOOLEAN
    /\ IsFiniteSet(Tracked)

\* Lists hold events that were raised, an entity's own list only its own.
Placed ==
    /\ \A a \in Aggregates : \A x : In(x, pending[a]) => x \in 1..Len(raised) /\ Sources[x] = a
    /\ \A x : In(x, queue) \/ In(x, published) => x \in 1..Len(raised)

\* One entity's events are in order in every list, and from list to list.
InOrder ==
    /\ \A a \in Aggregates : Ordered(pending[a], Sources)
    /\ Ordered(queue, Sources) /\ Ordered(published, Sources)
    /\ \A x, y : In(x, published) /\ In(y, queue) /\ Sources[x] = Sources[y] => x < y
    /\ \A a \in Aggregates : \A x, y :
         (In(x, published) \/ In(x, queue)) /\ In(y, pending[a]) /\ Sources[x] = a => x < y

\* No event is lost, and the dispatcher has collected all that the handler raised.
Waiting ==
    /\ pc # "failed" => \A x \in 1..Len(raised) :
         In(x, pending[Sources[x]]) \/ In(x, queue) \/ In(x, published)
    /\ pc \in {"handler", "commit"} =>
         /\ queue = <<>> /\ published = <<>>
         /\ \A x \in 1..Len(raised) : raised[x].stage = "handler"
         /\ \A a \in Aggregates : \A x : In(x, pending[a]) => a \in Tracked
    /\ pc \in {"publish", "ok"} => \A x \in 1..Len(raised) :
         raised[x].stage = "handler" => In(x, queue) \/ In(x, published)
    /\ pc = "ok" => queue = <<>>

EventsInv == EventTypes /\ Placed /\ InOrder /\ Waiting

LEMMA SourceOf ==
    ASSUME EventTypes, NEW x \in 1..Len(raised)
    PROVE  Sources[x] = raised[x].source /\ Sources[x] \in Aggregates /\ raised[x].stage \in {"handler", "publish"}
<1> DEFINE S == [source : Aggregates, stage : {"handler", "publish"}]
<1>1. raised \in Seq(S)
  BY DEF EventTypes
<1>2. raised[x] \in S
  <2> HIDE DEF S
  <2>1. QED BY <1>1, ElementOfSeq
<1>3. QED BY <1>2 DEF Sources

LEMMA StillFinite ==
    ASSUME IsFiniteSet(Tracked), NEW a, Tracked' \subseteq Tracked \cup {a}
    PROVE  IsFiniteSet(Tracked')
<1>1. IsFiniteSet(Tracked \cup {a})
  BY FS_AddElement
<1>2. QED BY <1>1, FS_Subset

(***************************************************************************)
(* The steps.                                                              *)
(***************************************************************************)
LEMMA NoEventStep ==
    ASSUME IInv, EventsInv, UNCHANGED eventVars,
           wrote' \subseteq Aggregates, answerLost' \in BOOLEAN,
           NEW a, Tracked' \subseteq Tracked \cup {a},
           \/ pc' = pc /\ (pc \in {"handler", "commit"} => Tracked \subseteq Tracked')
           \/ pc = "handler" /\ pc' = "commit" /\ Tracked' = Tracked
           \/ pc = "publish" /\ queue = <<>> /\ pc' = "ok"
    PROVE  EventsInv'
<1>1. UNCHANGED <<pending, queue, serving, raised, published>>
  BY DEF eventVars
<1>2. EventTypes'
  BY <1>1, StillFinite DEF EventsInv, EventTypes
<1>3. Sources' = Sources
  BY <1>1 DEF Sources
<1>4. Placed' /\ InOrder'
  BY <1>1, <1>3 DEF EventsInv, Placed, InOrder
<1>5. Waiting'
  BY <1>1, <1>3 DEF EventsInv, Waiting
<1>6. QED BY <1>2, <1>4, <1>5 DEF EventsInv

LEMMA ThrowEvents ==
    ASSUME IInv, EventsInv, Throw, wrote' \subseteq Aggregates, answerLost' \in BOOLEAN
    PROVE  EventsInv'
<1>1. /\ pc' = "failed" /\ queue' = <<>> /\ serving' = 0 /\ UNCHANGED <<pending, raised, published>>
      /\ state' = [a \in Aggregates |->
                     CASE state[a] = "Added" -> "Detached"
                       [] state[a] = "Deleted" -> "Unchanged"
                       [] OTHER -> state[a]]
  BY DEF Throw, RevertAsync
<1>2. Tracked' \subseteq Tracked \cup {0}
  BY <1>1 DEF Tracked
<1>3. EventTypes'
  <2>1. queue' \in Seq(Nat) /\ serving' \in 0..Len(raised')
    BY <1>1 DEF EventsInv, EventTypes
  <2>2. QED BY <1>1, <1>2, <2>1, StillFinite DEF EventsInv, EventTypes
<1>4. Sources' = Sources
  BY <1>1 DEF Sources
<1>5. \A x : ~ In(x, queue')
  BY <1>1, InEmpty
<1>6. Placed'
  BY <1>1, <1>4, <1>5 DEF EventsInv, Placed
<1>7. InOrder'
  BY <1>1, <1>4, <1>5, OrderedEmpty DEF EventsInv, InOrder
<1>8. Waiting'
  BY <1>1 DEF Waiting
<1>9. QED BY <1>3, <1>6, <1>7, <1>8 DEF EventsInv

LEMMA AddEvents ==
    ASSUME IInv, EventsInv, NEW a \in Aggregates, AddDomainEvent(a)
    PROVE  EventsInv'
<1> DEFINE n == Len(raised)
           e == [source |-> a, stage |-> pc]
<1>1. /\ Running /\ a \in Tracked /\ n < MaxEvents
      /\ pending' = [pending EXCEPT ![a] = Append(pending[a], n + 1)]
      /\ raised' = Append(raised, e)
      /\ UNCHANGED <<state, pc, queue, serving, published, wrote, answerLost>>
  BY DEF AddDomainEvent, trackerVars
<1>2. pc \in {"handler", "publish"}
  BY <1>1 DEF Running, IInv, StagesInv
<1>3. /\ n \in Nat /\ n + 1 \in Nat /\ Len(raised') = n + 1
      /\ raised' \in Seq([source : Aggregates, stage : {"handler", "publish"}])
      /\ \A x \in 1..n : raised'[x] = raised[x]
      /\ raised'[n + 1] = e
  <2>1. e \in [source : Aggregates, stage : {"handler", "publish"}]
    BY <1>2
  <2>2. raised \in Seq([source : Aggregates, stage : {"handler", "publish"}]) /\ n \in Nat
    BY DEF EventsInv, EventTypes
  <2> HIDE DEF e
  <2>3. QED BY <1>1, <2>1, <2>2, AppendProperties
<1>4. \A x : x \in 1..(n + 1) <=> x \in 1..n \/ x = n + 1
  BY <1>3
<1>5. /\ \A x \in 1..n : Sources'[x] = Sources[x]
      /\ Sources'[n + 1] = a
  <2>1. \A x \in 1..(n + 1) : Sources'[x] = raised'[x].source
    BY <1>3 DEF Sources
  <2>2. \A x \in 1..n : Sources[x] = raised[x].source
    BY DEF Sources
  <2>3. n + 1 \in 1..(n + 1)
    BY <1>3
  <2>4. QED BY <1>3, <1>4, <2>1, <2>2, <2>3
<1>6. pending[a] \in Seq(Nat)
  BY DEF EventsInv, EventTypes
<1>7. /\ pending' \in [Aggregates -> Seq(Nat)]
      /\ \A b \in Aggregates : b # a => pending'[b] = pending[b]
      /\ pending'[a] = Append(pending[a], n + 1)
      /\ \A x : In(x, pending'[a]) <=> In(x, pending[a]) \/ x = n + 1
  <2>1. Append(pending[a], n + 1) \in Seq(Nat)
    BY <1>3, <1>6, AppendEvent
  <2>2. \A x : In(x, Append(pending[a], n + 1)) <=> In(x, pending[a]) \/ x = n + 1
    BY <1>3, <1>6, AppendEvent
  <2>3. /\ pending' \in [Aggregates -> Seq(Nat)]
        /\ \A b \in Aggregates : b # a => pending'[b] = pending[b]
        /\ pending'[a] = Append(pending[a], n + 1)
    BY <1>1, <2>1 DEF EventsInv, EventTypes
  <2>4. QED BY <2>2, <2>3
<1> HIDE DEF n, e
<1>8. \A b \in Aggregates : \A x : In(x, pending'[b]) <=> In(x, pending[b]) \/ (b = a /\ x = n + 1)
  BY <1>7
<1>9. \A x : x \in 1..n => x < n + 1 /\ x # n + 1
  BY <1>3
<1>10. EventTypes'
  <2>1. Len(raised') <= MaxEvents
    BY <1>1, <1>3, UnitOfWorkAssumption
  <2>2. serving' \in 0..Len(raised')
    BY <1>1, <1>3 DEF EventsInv, EventTypes, n
  <2>3. Tracked' = Tracked
    BY <1>1 DEF Tracked
  <2>4. QED BY <1>1, <1>3, <1>7, <2>1, <2>2, <2>3 DEF EventsInv, EventTypes
<1>11. Placed'
  <2>1. ASSUME NEW b \in Aggregates, NEW x, In(x, pending'[b])
        PROVE  x \in 1..(n + 1) /\ Sources'[x] = b
    BY <1>4, <1>5, <1>8, <2>1 DEF EventsInv, Placed, n
  <2>2. ASSUME NEW x, In(x, queue) \/ In(x, published)
        PROVE  x \in 1..(n + 1)
    BY <1>4, <2>2 DEF EventsInv, Placed, n
  <2>3. QED BY <1>1, <1>3, <2>1, <2>2 DEF Placed
<1>12. InOrder'
  <2>1. \A b \in Aggregates : \A x : In(x, pending[b]) => x \in 1..n /\ Sources'[x] = Sources[x] /\ Sources[x] = b
    BY <1>5 DEF EventsInv, Placed, n
  <2>2. \A x : In(x, queue) \/ In(x, published) => x \in 1..n /\ Sources'[x] = Sources[x]
    BY <1>5 DEF EventsInv, Placed, n
  <2>3. \A b \in Aggregates : Ordered(pending[b], Sources')
    BY <2>1, OrderedSame DEF EventsInv, InOrder
  <2>4. Ordered(queue, Sources') /\ Ordered(published, Sources')
    BY <2>2, OrderedSame DEF EventsInv, InOrder
  <2>5. Ordered(pending'[a], Sources')
    <3>1. \A x : In(x, pending[a]) /\ Sources'[x] = Sources'[n + 1] => x < n + 1
      BY <1>9, <2>1
    <3>2. QED BY <1>3, <1>6, <1>7, <2>3, <3>1, AppendEvent
  <2>6. \A b \in Aggregates : Ordered(pending'[b], Sources')
    BY <1>7, <2>3, <2>5
  <2>7. \A x, y : In(x, published) /\ In(y, queue) /\ Sources'[x] = Sources'[y] => x < y
    BY <2>2 DEF EventsInv, InOrder
  <2>8. ASSUME NEW b \in Aggregates, NEW x, NEW y,
               In(x, published) \/ In(x, queue), In(y, pending'[b]), Sources'[x] = b
        PROVE  x < y
    <3>1. CASE In(y, pending[b])
      BY <2>2, <2>8, <3>1 DEF EventsInv, InOrder
    <3>2. CASE y = n + 1
      BY <1>9, <2>2, <2>8, <3>2
    <3>3. QED BY <1>8, <2>8, <3>1, <3>2
  <2>9. QED BY <1>1, <2>4, <2>6, <2>7, <2>8 DEF InOrder
<1>13. Waiting'
  <2>1. ASSUME NEW x \in 1..(n + 1)
        PROVE  In(x, pending'[Sources'[x]]) \/ In(x, queue) \/ In(x, published)
    <3>1. CASE x \in 1..n
      <4>1. Sources[x] \in Aggregates /\ Sources'[x] = Sources[x]
        BY <1>5, <3>1, SourceOf DEF EventsInv, n
      <4>2. In(x, pending[Sources[x]]) \/ In(x, queue) \/ In(x, published)
        BY <1>2, <3>1 DEF EventsInv, Waiting, n
      <4>3. QED BY <1>8, <4>1, <4>2
    <3>2. CASE x = n + 1
      BY <1>5, <1>7, <3>2
    <3>3. QED BY <1>4, <3>1, <3>2
  <2>2. raised'[n + 1].stage = pc
    BY <1>3 DEF e
  <2>3. Tracked' = Tracked
    BY <1>1 DEF Tracked
  <2>4. CASE pc = "handler"
    <3>1. \A x \in 1..(n + 1) : raised'[x].stage = "handler"
      BY <1>3, <1>4, <2>2, <2>4 DEF EventsInv, Waiting, n
    <3>2. \A b \in Aggregates : \A x : In(x, pending'[b]) => b \in Tracked
      BY <1>1, <1>8, <2>4 DEF EventsInv, Waiting
    <3>3. QED BY <1>1, <1>3, <2>1, <2>3, <2>4, <3>1, <3>2 DEF EventsInv, Waiting
  <2>5. CASE pc = "publish"
    <3>1. \A x \in 1..(n + 1) : raised'[x].stage = "handler" => In(x, queue) \/ In(x, published)
      BY <1>3, <1>4, <2>2, <2>5 DEF EventsInv, Waiting, n
    <3>2. QED BY <1>1, <1>3, <2>1, <2>5, <3>1 DEF Waiting
  <2>6. QED BY <1>2, <2>4, <2>5
<1>14. QED BY <1>10, <1>11, <1>12, <1>13 DEF EventsInv

LEMMA CollectEvents ==
    ASSUME IInv, EventsInv, DispatchEvents
    PROVE  EventsInv'
<1>1. /\ pc = "commit" /\ pc' = "publish"
      /\ pending' = [a \in Aggregates |-> IF a \in Tracked THEN <<>> ELSE pending[a]]
      /\ UNCHANGED <<state, serving, raised, published, wrote, answerLost>>
  BY DEF DispatchEvents, trackerVars
<1>2. PICK order \in SetToSeqs(Tracked) :
        queue' = FlattenSeq([i \in DOMAIN order |-> pending[order[i]]])
  BY DEF DispatchEvents
<1> DEFINE n == Cardinality(Tracked)
           lists == [i \in 1..n |-> pending[order[i]]]
<1>3. n \in Nat /\ order \in [1..n -> Tracked] /\ \A i, j \in 1..n : i # j => order[i] # order[j]
  BY FS_CardinalityType DEF SetToSeqs, EventsInv, EventTypes
<1>4. queue' = FlattenSeq(lists)
  BY <1>2, <1>3
<1>5. \A a \in Tracked : \E i \in 1..n : order[i] = a
  <2>1. order \in Injection(1..n, Tracked)
    BY <1>3 DEF Injection, IsInjective
  <2>2. IsFiniteSet(Tracked) /\ Cardinality(1..n) = n
    BY <1>3, FS_Interval DEF EventsInv, EventTypes
  <2>3. order \in Surjection(1..n, Tracked)
    BY <1>3, <2>1, <2>2, FS_Injection
  <2>4. QED BY <2>3 DEF Surjection
<1>6. \A i \in 1..n : order[i] \in Aggregates /\ order[i] \in Tracked
  BY <1>3 DEF Tracked
<1> HIDE DEF n
<1>7. lists \in [1..n -> Seq(Nat)] /\ \A i \in 1..n : lists[i] = pending[order[i]]
  BY <1>6 DEF EventsInv, EventTypes
<1> HIDE DEF lists
<1>8. /\ queue' \in Seq(Nat)
      /\ Ordered(queue', Sources)
      /\ \A x : In(x, queue') <=> \E i \in 1..n : In(x, lists[i])
  <2>1. \A i \in 1..n : Ordered(lists[i], Sources)
    BY <1>6, <1>7 DEF EventsInv, InOrder
  <2>2. \A i, j \in 1..n : \A x, y : i # j /\ In(x, lists[i]) /\ In(y, lists[j]) => Sources[x] # Sources[y]
    <3>1. ASSUME NEW i \in 1..n, NEW x, In(x, lists[i]) PROVE Sources[x] = order[i]
      BY <1>6, <1>7, <3>1 DEF EventsInv, Placed
    <3>2. QED BY <1>3, <3>1
  <2>3. QED BY <1>3, <1>4, <1>7, <2>1, <2>2, FlattenLists
<1>9. \A x : In(x, queue') <=> \E a \in Aggregates : In(x, pending[a])
  <2>1. ASSUME NEW x, In(x, queue') PROVE \E a \in Aggregates : In(x, pending[a])
    BY <1>6, <1>7, <1>8, <2>1
  <2>2. ASSUME NEW x, NEW a \in Aggregates, In(x, pending[a]) PROVE In(x, queue')
    <3>1. a \in Tracked
      BY <1>1, <2>2 DEF EventsInv, Waiting
    <3>2. PICK i \in 1..n : order[i] = a
      BY <1>5, <3>1
    <3>3. In(x, lists[i])
      BY <1>7, <2>2, <3>2
    <3>4. QED BY <1>8, <3>3
  <2>3. QED BY <2>1, <2>2
<1>10. \A a \in Aggregates : pending'[a] = <<>>
  <2>1. ASSUME NEW a \in Aggregates, a \notin Tracked PROVE pending[a] = <<>>
    <3>1. \A x : ~ In(x, pending[a])
      BY <1>1, <2>1 DEF EventsInv, Waiting
    <3>2. pending[a] \in Seq(Nat)
      BY DEF EventsInv, EventTypes
    <3>3. SUFFICES ASSUME pending[a] # <<>> PROVE FALSE
      OBVIOUS
    <3>4. QED BY <3>1, <3>2, <3>3, FirstEvent
  <2>2. QED BY <1>1, <2>1
<1>11. published = <<>>
  BY <1>1 DEF EventsInv, Waiting
<1>12. Sources' = Sources /\ Tracked' = Tracked
  BY <1>1 DEF Sources, Tracked
<1>13. \A x : ~ In(x, published) /\ \A a \in Aggregates : ~ In(x, pending'[a])
  BY <1>10, <1>11, InEmpty
<1>14. EventTypes'
  <2>1. pending' \in [Aggregates -> Seq(Nat)]
    BY <1>1 DEF EventsInv, EventTypes
  <2>2. QED BY <1>1, <1>8, <1>12, <2>1 DEF EventsInv, EventTypes
<1>15. Placed'
  BY <1>1, <1>9, <1>12, <1>13 DEF EventsInv, Placed
<1>16. InOrder'
  BY <1>1, <1>8, <1>10, <1>11, <1>12, <1>13, OrderedEmpty DEF InOrder
<1>17. Waiting'
  <2>1. \A x \in 1..Len(raised) : In(x, queue')
    <3> SUFFICES ASSUME NEW x \in 1..Len(raised) PROVE In(x, queue')
      OBVIOUS
    <3>1. Sources[x] \in Aggregates
      BY SourceOf DEF EventsInv
    <3>2. In(x, pending[Sources[x]])
      BY <1>1, <1>11, InEmpty DEF EventsInv, Waiting
    <3>3. QED BY <1>9, <3>1, <3>2
  <2>2. QED BY <1>1, <2>1 DEF Waiting
<1>18. QED BY <1>14, <1>15, <1>16, <1>17 DEF EventsInv

LEMMA PublishEvents ==
    ASSUME IInv, EventsInv, PublishNext
    PROVE  EventsInv'
<1> DEFINE e == Head(queue)
<1>1. /\ pc = "publish" /\ queue # <<>> /\ serving' = e /\ queue' = Tail(queue)
      /\ published' = Append(published, e)
      /\ UNCHANGED <<state, pc, pending, raised, wrote, answerLost>>
  BY DEF PublishNext, trackerVars
<1>2. queue \in Seq(Nat) /\ published \in Seq(Nat)
  BY DEF EventsInv, EventTypes
<1>3. /\ e \in Nat /\ queue' \in Seq(Nat)
      /\ \A x : In(x, queue) <=> x = e \/ In(x, queue')
      /\ Ordered(queue', Sources)
      /\ \A x : In(x, queue') /\ Sources[x] = Sources[e] => e < x
  <2>1. Ordered(queue, Sources)
    BY DEF EventsInv, InOrder
  <2>2. QED BY <1>1, <1>2, <2>1, FirstEvent
<1> HIDE DEF e
<1>4. /\ published' \in Seq(Nat)
      /\ \A x : In(x, published') <=> In(x, published) \/ x = e
      /\ Ordered(published', Sources)
  <2>1. Ordered(published, Sources) /\ \A x : In(x, published) /\ Sources[x] = Sources[e] => x < e
    BY <1>3 DEF EventsInv, InOrder
  <2>2. QED BY <1>1, <1>2, <1>3, <2>1, AppendEvent
<1>5. Sources' = Sources /\ Tracked' = Tracked
  BY <1>1 DEF Sources, Tracked
<1>6. e \in 1..Len(raised)
  BY <1>3 DEF EventsInv, Placed
<1>7. EventTypes'
  <2>1. serving' \in 0..Len(raised')
    BY <1>1, <1>6
  <2>2. QED BY <1>1, <1>3, <1>4, <1>5, <2>1 DEF EventsInv, EventTypes
<1>8. Placed'
  BY <1>1, <1>3, <1>4, <1>5 DEF EventsInv, Placed
<1>9. InOrder'
  <2>1. \A x, y : In(x, published') /\ In(y, queue') /\ Sources[x] = Sources[y] => x < y
    BY <1>3, <1>4 DEF EventsInv, InOrder
  <2>2. \A a \in Aggregates : \A x, y :
          (In(x, published') \/ In(x, queue')) /\ In(y, pending[a]) /\ Sources[x] = a => x < y
    BY <1>3, <1>4 DEF EventsInv, InOrder
  <2>3. QED BY <1>1, <1>3, <1>4, <1>5, <2>1, <2>2 DEF EventsInv, InOrder
<1>10. Waiting'
  BY <1>1, <1>3, <1>4, <1>5 DEF EventsInv, Waiting
<1>11. QED BY <1>7, <1>8, <1>9, <1>10 DEF EventsInv

LEMMA EventsStep == IInv /\ EventsInv /\ [Next]_vars => EventsInv'
<1> SUFFICES ASSUME IInv, EventsInv, [Next]_vars PROVE EventsInv'
  OBVIOUS
<1>1. wrote \subseteq Aggregates /\ answerLost \in BOOLEAN /\ Dirty \subseteq Aggregates
  BY DEF EventsInv, EventTypes, Dirty, Modified
<1>2. ASSUME NEW a \in Aggregates, Load(a) \/ Create(a) \/ Change(a) \/ Delete(a)
      PROVE  EventsInv'
  <2>1. UNCHANGED <<pc, eventVars, wrote, answerLost>>
    BY <1>2 DEF Load, Create, Change, Delete
  <2>2. Tracked \subseteq Tracked' /\ Tracked' \subseteq Tracked \cup {a}
    BY <1>2 DEF Load, Create, Change, Delete, Tracked, IInv, TrackerTypes
  <2>3. QED BY <1>1, <2>1, <2>2, NoEventStep
<1>3. ASSUME NEW a \in Aggregates, AddDomainEvent(a) PROVE EventsInv'
  BY <1>3, AddEvents
<1>4. CASE HandlerReturns
  <2>1. Tracked' = Tracked /\ UNCHANGED <<eventVars, wrote, answerLost>> /\ pc = "handler" /\ pc' = "commit"
    BY <1>4 DEF HandlerReturns, Tracked, trackerVars
  <2>2. QED BY <1>1, <2>1, NoEventStep
<1>5. CASE HandlerThrows
  BY <1>1, <1>5, ThrowEvents DEF HandlerThrows
<1>6. CASE DispatchEvents
  BY <1>6, CollectEvents
<1>7. CASE PublishNext
  BY <1>7, PublishEvents
<1>8. CASE EventHandlersFinish
  <2>1. serving' = 0 /\ UNCHANGED <<state, pc, pending, queue, raised, published, wrote, answerLost>>
    BY <1>8 DEF EventHandlersFinish, trackerVars
  <2>2. Sources' = Sources /\ Tracked' = Tracked
    BY <2>1 DEF Sources, Tracked
  <2>3. EventTypes'
    BY <2>1, <2>2 DEF EventsInv, EventTypes
  <2>4. Placed' /\ InOrder' /\ Waiting'
    BY <2>1, <2>2 DEF EventsInv, Placed, InOrder, Waiting
  <2>5. QED BY <2>3, <2>4 DEF EventsInv
<1>9. CASE SaveChanges
  <2>1. /\ pc = "publish" /\ queue = <<>> /\ pc' = "ok" /\ UNCHANGED <<eventVars, answerLost>>
        /\ wrote' = wrote \cup Dirty
    BY <1>9 DEF SaveChanges, Dispatched, WriteDirty
  <2>2. Tracked' \subseteq Tracked \cup {0}
    BY <1>9 DEF SaveChanges, AcceptChanges, Tracked
  <2>3. QED BY <1>1, <2>1, <2>2, NoEventStep
<1>10. CASE SaveChangesFails
  BY <1>1, <1>10, ThrowEvents DEF SaveChangesFails
<1>11. CASE SaveChangesAnswerLost
  BY <1>1, <1>11, ThrowEvents DEF SaveChangesAnswerLost, WriteDirty
<1>12. CASE (\E a \in Aggregates : OtherScope(a)) \/ UNCHANGED vars
  <2>1. UNCHANGED <<state, pc, eventVars, wrote, answerLost>>
    BY <1>12 DEF OtherScope, vars, trackerVars, eventVars
  <2>2. Tracked' = Tracked
    BY <2>1 DEF Tracked
  <2>3. QED BY <1>1, <2>1, <2>2, NoEventStep
<1> QED
  BY <1>2, <1>3, <1>4, <1>5, <1>6, <1>7, <1>8, <1>9, <1>10, <1>11, <1>12
     DEF Next, HandlerWorks, Pipeline

(***************************************************************************)
(* The theorems.                                                           *)
(***************************************************************************)

\* Both invariants hold in every reachable state.
THEOREM EventsInductive == Spec => [](IInv /\ EventsInv)
<1>1. Init => EventsInv
  <2> SUFFICES ASSUME Init PROVE EventsInv
    OBVIOUS
  <2>1. /\ raised = <<>> /\ queue = <<>> /\ published = <<>> /\ serving = 0 /\ pc = "handler"
        /\ pending = [a \in Aggregates |-> <<>>] /\ wrote = {} /\ answerLost = FALSE
        /\ Len(raised) = 0 /\ 1..Len(raised) = {}
    BY DEF Init
  <2>2. Tracked = {}
    BY DEF Init, Tracked
  <2>3. EventTypes
    <3>1. /\ raised \in Seq([source : Aggregates, stage : {"handler", "publish"}])
          /\ queue \in Seq(Nat) /\ published \in Seq(Nat) /\ <<>> \in Seq(Nat)
      BY <2>1, EmptySeq
    <3>2. pending \in [Aggregates -> Seq(Nat)]
      BY <2>1, <3>1
    <3>3. Len(raised) <= MaxEvents /\ serving \in 0..Len(raised)
      BY <2>1, UnitOfWorkAssumption
    <3>4. IsFiniteSet(Tracked)
      BY <2>2, FS_EmptySet
    <3>5. wrote \subseteq Aggregates /\ answerLost \in BOOLEAN
      BY <2>1
    <3>6. QED BY <3>1, <3>2, <3>3, <3>4, <3>5 DEF EventTypes
  <2>4. \A x : /\ ~ In(x, queue) /\ ~ In(x, published)
               /\ \A a \in Aggregates : ~ In(x, pending[a])
    BY <2>1, InEmpty
  <2>5. Placed /\ Waiting
    BY <2>1, <2>4 DEF Placed, Waiting
  <2>6. InOrder
    BY <2>1, <2>4, OrderedEmpty DEF InOrder
  <2>7. QED BY <2>3, <2>5, <2>6 DEF EventsInv
<1>2. Spec => []EventsInv
  BY <1>1, EventsStep, UnitOfWorkInductive, PTL DEF Spec
<1>3. QED BY <1>2, UnitOfWorkInductive, PTL
\* TypeOK: among the rest, nothing but raised events is in any list.
THEOREM UnitOfWorkTypeCorrect == Spec => []TypeOK
<1>1. IInv /\ EventsInv => TypeOK
  <2> SUFFICES ASSUME IInv, EventsInv PROVE TypeOK
    OBVIOUS
  <2>1. \A x \in 1..Len(raised) : x \in Events
    BY UnitOfWorkAssumption DEF Events, EventsInv, EventTypes
  <2>2. ASSUME NEW s \in Seq(Nat), \A x : In(x, s) => x \in 1..Len(raised)
        PROVE  s \in Seq(Events)
    <3>1. \A k \in 1..Len(s) : s[k] \in Events
      BY <2>1, <2>2 DEF In
    <3>2. QED BY <3>1
  <2>3. queue \in Seq(Events) /\ published \in Seq(Events)
    BY <2>2 DEF EventsInv, EventTypes, Placed
  <2>4. pending \in [Aggregates -> Seq(Events)]
    <3>1. pending \in [Aggregates -> Seq(Nat)]
      BY DEF EventsInv, EventTypes
    <3>2. \A a \in Aggregates : pending[a] \in Seq(Events)
      BY <2>2, <3>1 DEF EventsInv, Placed
    <3>3. QED BY <3>1, <3>2
  <2>5. serving \in Events \cup {0}
    BY <2>1 DEF EventsInv, EventTypes
  <2>6. /\ stored \in [Aggregates -> Values \cup {Absent}] /\ state \in [Aggregates -> EntryStates]
        /\ {current, original} \subseteq [Aggregates -> Values \cup {Absent}] /\ pc \in Stages
    BY DEF IInv, TrackerTypes, StagesInv
  <2>7. QED BY <2>3, <2>4, <2>5, <2>6 DEF TypeOK, EventsInv, EventTypes
<1>2. QED BY <1>1, EventsInductive, PTL

LEMMA InIsToSet ==
    ASSUME NEW s \in Seq(Nat), NEW x
    PROVE  In(x, s) <=> x \in ToSet(s)
<1>1. DOMAIN s = 1..Len(s)
  OBVIOUS
<1>2. QED BY <1>1 DEF In, ToSet

\* A command that succeeds has published each event of its handler once, and
\* every entity's events in the order in which they were raised, in whatever
\* order the tracker lists the entities.
THEOREM EventsAreHeardOnceInOrder == Spec => []EventsOnceInOrder
<1>1. IInv /\ EventsInv => EventsOnceInOrder
  <2> SUFFICES ASSUME IInv, EventsInv PROVE EventsOnceInOrder
    OBVIOUS
  <2>1. DOMAIN published = 1..Len(published) /\ DOMAIN raised = 1..Len(raised) /\ published \in Seq(Nat)
    BY DEF EventsInv, EventTypes
  <2>2. ASSUME NEW i \in 1..Len(published), NEW j \in 1..Len(published),
               i < j, raised[published[i]].source = raised[published[j]].source
        PROVE  published[i] < published[j]
    <3>1. In(published[i], published) /\ In(published[j], published)
      BY DEF In
    <3>2. published[i] \in 1..Len(raised) /\ published[j] \in 1..Len(raised)
      BY <3>1 DEF EventsInv, Placed
    <3>3. Sources[published[i]] = Sources[published[j]]
      BY <2>2, <3>2 DEF Sources
    <3>4. QED BY <2>2, <3>3 DEF EventsInv, InOrder, Ordered
  <2>3. ASSUME pc = "ok", NEW n \in 1..Len(raised), raised[n].stage = "handler"
        PROVE  n \in ToSet(published)
    <3>1. In(n, published)
      BY <2>3, InEmpty DEF EventsInv, Waiting
    <3>2. QED BY <2>1, <3>1, InIsToSet
  <2>4. QED BY <2>1, <2>2, <2>3 DEF EventsOnceInOrder
<1>2. QED BY <1>1, EventsInductive, PTL
-----------------------------------------------------------------------------
(***************************************************************************)
(* The refinement: seen from its caller and from the database, the unit of *)
(* work is one atomic command.                                             *)
(***************************************************************************)

\* What the mapping needs beyond the invariants above: while the command runs, what
\* it tracks has a value; only events of its handler are dispatched; and handlers
\* of events run only once one has been published.
MappingInv ==
    /\ ~ Ended => \A a \in Tracked : current[a] \in Values
    /\ \A x : In(x, queue) \/ In(x, published) => raised[x].stage = "handler"
    /\ serving # 0 => published # <<>>

CommandInv == IInv /\ EventsInv /\ MappingInv

\* A failing step ends the command and empties the dispatcher.
LEMMA ThrowMapping ==
    ASSUME MappingInv, Throw
    PROVE  MappingInv'
<1>1. Ended' /\ queue' = <<>> /\ serving' = 0 /\ UNCHANGED <<raised, published>>
  BY DEF Throw, Ended
<1>2. \A x : ~ In(x, queue')
  BY <1>1, InEmpty
<1>3. QED BY <1>1, <1>2 DEF MappingInv

LEMMA MappingStep == CommandInv /\ [Next]_vars => MappingInv'
<1> SUFFICES ASSUME CommandInv, [Next]_vars PROVE MappingInv'
  OBVIOUS
<1> USE DEF CommandInv
<1>1. ASSUME NEW a \in Aggregates, Load(a) \/ Create(a) \/ Change(a) \/ Delete(a)
      PROVE  MappingInv'
  <2>1. UNCHANGED <<pc, queue, serving, raised, published>>
    BY <1>1 DEF Load, Create, Change, Delete, eventVars
  <2>2. ASSUME ~ Ended PROVE \A b \in Tracked' : current'[b] \in Values
    BY <1>1, <2>2, TrackerFields
       DEF MappingInv, Load, Create, Change, Delete, Tracked, IInv, TrackerTypes
  <2>3. QED BY <2>1, <2>2 DEF MappingInv, Ended
<1>2. ASSUME NEW a \in Aggregates, AddDomainEvent(a) PROVE MappingInv'
  <2> DEFINE e == [source |-> a, stage |-> pc]
             S == [source : Aggregates, stage : {"handler", "publish"}]
  <2>1. /\ UNCHANGED <<state, current, pc, queue, serving, published>>
        /\ raised' = Append(raised, e)
    BY <1>2 DEF AddDomainEvent, trackerVars
  <2>2. e \in S /\ raised \in Seq(S)
    BY <1>2 DEF AddDomainEvent, Running, IInv, StagesInv, EventsInv, EventTypes
  <2>3. \A x \in 1..Len(raised) : raised'[x] = raised[x]
    <3> HIDE DEF e, S
    <3>1. QED BY <2>1, <2>2, AppendProperties
  <2>4. \A x : In(x, queue) \/ In(x, published) => x \in 1..Len(raised)
    BY DEF EventsInv, Placed
  <2>5. QED BY <2>1, <2>3, <2>4 DEF MappingInv, Ended, Tracked
<1>3. CASE Throw
  BY <1>3, ThrowMapping
<1>4. CASE DispatchEvents
  <2>1. /\ UNCHANGED <<state, current, serving, raised, published>>
        /\ pc = "commit" /\ pc' = "publish"
    BY <1>4 DEF DispatchEvents, trackerVars
  <2>2. EventsInv'
    BY <1>4, EventsStep
  <2>3. \A x : In(x, queue') \/ In(x, published') => x \in 1..Len(raised)
    BY <2>1, <2>2 DEF EventsInv, Placed
  <2>4. \A x \in 1..Len(raised) : raised[x].stage = "handler"
    BY <2>1 DEF EventsInv, Waiting
  <2>5. QED BY <2>1, <2>3, <2>4 DEF MappingInv, Ended, Tracked
<1>5. CASE PublishNext
  <2>1. /\ UNCHANGED <<state, current, pc, raised>>
        /\ queue # <<>> /\ queue' = Tail(queue) /\ published' = Append(published, Head(queue))
        /\ queue \in Seq(Nat) /\ published \in Seq(Nat)
    BY <1>5 DEF PublishNext, trackerVars, EventsInv, EventTypes
  <2>2. /\ Head(queue) \in Nat
        /\ \A x : In(x, queue) <=> x = Head(queue) \/ In(x, queue')
    BY <2>1, FirstEvent
  <2>3. \A x : In(x, published') <=> In(x, published) \/ x = Head(queue)
    BY <2>1, <2>2, AppendEvent
  <2>4. published' # <<>>
    BY <2>3, InEmpty
  <2>5. QED BY <2>1, <2>2, <2>3, <2>4 DEF MappingInv, Ended, Tracked
<1>6. CASE HandlerReturns \/ EventHandlersFinish \/ UNCHANGED vars
  <2>1. /\ UNCHANGED <<state, current, queue, raised, published>>
        /\ serving' = serving \/ serving' = 0
        /\ ~ Ended' => ~ Ended
    BY <1>6 DEF HandlerReturns, EventHandlersFinish, vars, trackerVars, eventVars, Ended
  <2>2. QED BY <2>1 DEF MappingInv, Tracked
<1>7. CASE SaveChanges
  <2>1. Ended' /\ UNCHANGED <<queue, serving, raised, published>>
    BY <1>7 DEF SaveChanges, eventVars, Ended
  <2>2. QED BY <2>1 DEF MappingInv
<1>8. CASE \E a \in Aggregates : OtherScope(a)
  <2>1. UNCHANGED <<state, current, pc, queue, serving, raised, published>>
    BY <1>8 DEF OtherScope, trackerVars, eventVars
  <2>2. QED BY <2>1 DEF MappingInv, Ended, Tracked
<1> QED
  BY <1>1, <1>2, <1>3, <1>4, <1>5, <1>6, <1>7, <1>8
     DEF Next, HandlerWorks, Pipeline, HandlerThrows, SaveChangesFails, SaveChangesAnswerLost

\* The three invariants hold in every reachable state.
THEOREM CommandInductive == Spec => []CommandInv
<1>1. Init => MappingInv
  <2> SUFFICES ASSUME Init PROVE MappingInv
    OBVIOUS
  <2>1. Tracked = {} /\ queue = <<>> /\ published = <<>> /\ serving = 0
    BY DEF Init, Tracked
  <2>2. \A x : ~ In(x, queue) /\ ~ In(x, published)
    BY <2>1, InEmpty
  <2>3. QED BY <2>1, <2>2 DEF MappingInv
<1>2. Spec => []MappingInv
  <2>1. IInv /\ EventsInv /\ MappingInv /\ [Next]_vars => MappingInv'
    BY MappingStep DEF CommandInv
  <2>2. QED BY <1>1, <2>1, EventsInductive, PTL DEF Spec
<1>3. QED BY <1>2, EventsInductive, PTL DEF CommandInv

\* After a failure an event is still with its entity, or published, or it was in
\* the list whose first events had been published.
LossInv ==
    pc = "failed" => \A x \in 1..Len(raised) :
        \/ In(x, pending[Sources[x]]) \/ In(x, published)
        \/ ~ answerLost /\ raised[x].stage = "handler" /\ published # <<>>

\* Only the handlers of events can throw while the list is not empty.
LEMMA LossStep == CommandInv /\ LossInv /\ [Next]_vars => LossInv'
<1> SUFFICES ASSUME CommandInv, LossInv, [Next]_vars, pc' = "failed" PROVE LossInv'
  BY DEF LossInv
<1> USE DEF CommandInv
<1>1. CASE pc = "failed"
  <2>1. serving = 0
    BY <1>1 DEF IInv, StagesInv
  <2>2. ASSUME NEW a \in Aggregates, OtherScope(a) PROVE FALSE
    BY <1>1, <2>2 DEF OtherScope
  <2>3. UNCHANGED vars
    BY <1>1, <2>1, <2>2
       DEF Next, HandlerWorks, Load, Create, Change, Delete, AddDomainEvent, Running, Pipeline,
           HandlerReturns, HandlerThrows, DispatchEvents, PublishNext, EventHandlersFinish,
           SaveChanges, SaveChangesFails, SaveChangesAnswerLost, Dispatched
  <2>4. UNCHANGED <<pc, raised, pending, published, answerLost>> /\ Sources' = Sources
    BY <2>3 DEF vars, Sources
  <2>5. QED BY <2>4 DEF LossInv
<1>2. CASE pc # "failed"
  <2>1. HandlerThrows \/ SaveChangesFails \/ SaveChangesAnswerLost
    BY <1>2
       DEF Next, vars, HandlerWorks, Load, Create, Change, Delete, AddDomainEvent, Pipeline,
           HandlerReturns, DispatchEvents, PublishNext, EventHandlersFinish, SaveChanges, OtherScope
  <2>2. /\ UNCHANGED <<raised, pending, published>> /\ Sources' = Sources
        /\ ~ answerLost
    BY <1>2, <2>1
       DEF HandlerThrows, SaveChangesFails, SaveChangesAnswerLost, Throw, Sources, IInv, StagesInv
  <2>3. ASSUME NEW x, In(x, queue)
        PROVE  ~ answerLost' /\ raised[x].stage = "handler" /\ published # <<>>
    <3>1. queue # <<>>
      BY <2>3, InEmpty
    <3>2. HandlerThrows
      BY <2>1, <3>1 DEF SaveChangesFails, SaveChangesAnswerLost, Dispatched
    <3>3. serving # 0
      BY <3>1, <3>2 DEF HandlerThrows, Running, EventsInv, Waiting
    <3>4. ~ answerLost'
      BY <2>2, <3>2 DEF HandlerThrows
    <3>5. QED BY <2>3, <3>3, <3>4 DEF MappingInv
  <2>4. \A x \in 1..Len(raised) : In(x, pending[Sources[x]]) \/ In(x, queue) \/ In(x, published)
    BY <1>2 DEF EventsInv, Waiting
  <2>5. QED BY <2>2, <2>3, <2>4 DEF LossInv
<1>3. QED BY <1>1, <1>2

\* No event is lost but by a handler of another event that throws, none is in two
\* places, and those that a successful command leaves unheard were raised while it
\* published others.
THEOREM EventsStayInOnePlace == Spec => []EventsAreKept
<1>1. CommandInv /\ LossInv => EventsAreKept
  <2> SUFFICES ASSUME CommandInv, LossInv, NEW n \in DOMAIN raised
               PROVE  LET places == {p \in {"pending", "queue", "published"} :
                                       n \in ToSet(CASE p = "pending" -> pending[raised[n].source]
                                                     [] p = "queue" -> queue
                                                     [] p = "published" -> published)}
                      IN /\ \A p, q \in places : p = q
                         /\ places = {} => /\ pc = "failed" /\ ~ answerLost
                                           /\ raised[n].stage = "handler"
                                           /\ published # <<>>
                         /\ pc = "ok" /\ "pending" \in places => raised[n].stage = "publish"
    BY DEF EventsAreKept
  <2> USE DEF CommandInv
  <2> DEFINE a == raised[n].source
             places == {p \in {"pending", "queue", "published"} :
                          n \in ToSet(CASE p = "pending" -> pending[raised[n].source]
                                        [] p = "queue" -> queue
                                        [] p = "published" -> published)}
  <2>1. n \in 1..Len(raised) /\ n \in Nat
    BY DEF EventsInv, EventTypes
  <2>2. a \in Aggregates /\ Sources[n] = a /\ raised[n].stage \in {"handler", "publish"}
    BY <2>1, SourceOf DEF EventsInv
  <2>3. pending[a] \in Seq(Nat) /\ queue \in Seq(Nat) /\ published \in Seq(Nat)
    BY <2>2 DEF EventsInv, EventTypes
  <2>4. /\ "pending" \in places <=> In(n, pending[a])
        /\ "queue" \in places <=> In(n, queue)
        /\ "published" \in places <=> In(n, published)
        /\ places \subseteq {"pending", "queue", "published"}
    <3>1. /\ "pending" \in places <=> n \in ToSet(pending[a])
          /\ "queue" \in places <=> n \in ToSet(queue)
          /\ "published" \in places <=> n \in ToSet(published)
          /\ places \subseteq {"pending", "queue", "published"}
      OBVIOUS
    <3>2. QED BY <2>3, <3>1, InIsToSet
  <2> HIDE DEF places, a
  <2>5. /\ ~ (In(n, pending[a]) /\ In(n, queue))
        /\ ~ (In(n, pending[a]) /\ In(n, published))
        /\ ~ (In(n, queue) /\ In(n, published))
    <3>1. (In(n, published) \/ In(n, queue)) /\ In(n, pending[a]) => n < n
      BY <2>2 DEF EventsInv, InOrder
    <3>2. In(n, published) /\ In(n, queue) => n < n
      BY DEF EventsInv, InOrder
    <3>3. ~ (n < n)
      BY <2>1
    <3>4. QED BY <3>1, <3>2, <3>3
  <2>6. pc # "failed" => In(n, pending[a]) \/ In(n, queue) \/ In(n, published)
    BY <2>1, <2>2 DEF EventsInv, Waiting
  <2>7. pc = "ok" /\ raised[n].stage = "handler" => In(n, queue) \/ In(n, published)
    BY <2>1 DEF EventsInv, Waiting
  <2>8. \A p, q \in places : p = q
    BY <2>4, <2>5
  <2>9. places = {} => /\ pc = "failed" /\ ~ answerLost
                       /\ raised[n].stage = "handler"
                       /\ published # <<>>
    BY <2>1, <2>2, <2>4, <2>6 DEF LossInv
  <2>10. pc = "ok" /\ "pending" \in places => raised[n].stage = "publish"
    BY <2>2, <2>4, <2>5, <2>7
  <2>11. QED BY <2>8, <2>9, <2>10 DEF places
<1>2. Init => LossInv
  BY DEF Init, LossInv
<1>3. Spec => []LossInv
  BY <1>2, LossStep, CommandInductive, PTL DEF Spec
<1>4. QED BY <1>1, <1>3, CommandInductive, PTL

\* Published events are those the command counts as heard, and due are those of
\* the handler that were not published.
LEMMA HeardMapping ==
    ASSUME EventsInv, NEW x
    PROVE  Command!Heard(x) <=> In(x, published)
<1>1. DOMAIN published = 1..Len(published)
  BY DEF EventsInv, EventTypes
<1>2. QED BY <1>1 DEF Command!Heard, In

LEMMA DueMapping ==
    ASSUME EventsInv, NEW x
    PROVE  Command!Due(x) <=> raised[x].stage = "handler" /\ ~ In(x, published)
  BY HeardMapping DEF Command!Due

LEMMA KnownSame ==
    ASSUME UNCHANGED <<state, pc>>
    PROVE  UNCHANGED Known /\ UNCHANGED (IF Ended THEN pc ELSE "open")
  BY DEF Known, Ended

\* An entity that enters the change tracker.
LEMMA KnowMapping ==
    ASSUME IInv, ~ Ended, NEW a \in Aggregates, NEW how \in {"Unchanged", "Added"},
           a \notin Tracked, state' = [state EXCEPT ![a] = how],
           UNCHANGED <<stored, pc, raised, published>>
    PROVE  Command!Know(a, IF how = "Added" THEN "created" ELSE "seen")
<1> DEFINE what == IF how = "Added" THEN "created" ELSE "seen"
<1>1. state \in [Aggregates -> EntryStates] /\ ~ Ended' /\ state[a] = "Detached"
  BY DEF IInv, TrackerTypes, Ended, Tracked
<1>2. Known[a] = "no"
  BY <1>1 DEF Known
<1>3. Known' = [b \in Aggregates |-> IF b = a THEN what ELSE Known[b]]
  BY <1>1 DEF Known
<1>4. Known' = [Known EXCEPT ![a] = what]
  BY <1>3 DEF Known
<1>5. QED BY <1>1, <1>2, <1>4 DEF Command!Know, Command!Open, Ended

\* The last step of a command.
LEMMA EndMapping ==
    ASSUME ~ Ended, pc' \in {"ok", "failed"}, UNCHANGED <<raised, published>>
    PROVE  Command!End(pc')
<1>1. Known' = [a \in Aggregates |-> "no"]
  BY DEF Known, Ended
<1>2. QED BY <1>1 DEF Command!End, Command!Open, Command!Nothing, Ended

\* A save is the effect of the whole command: nothing is due any more, only rows
\* that were tracked change, and a row that is gone is not written.
LEMMA SaveMapping ==
    ASSUME CommandInv, Dispatched, ~ Conflict, WriteDirty
    PROVE  Command!TakeEffect
<1> USE DEF CommandInv
<1>1. pc = "publish" /\ queue = <<>> /\ ~ Ended
  BY DEF Dispatched, Ended
<1>2. ASSUME NEW n \in DOMAIN raised PROVE ~ Command!Due(n)
  <2>1. n \in 1..Len(raised)
    BY <1>2 DEF EventsInv, EventTypes
  <2>2. raised[n].stage = "handler" => In(n, published)
    BY <1>1, <2>1, InEmpty DEF EventsInv, Waiting
  <2>3. QED BY <2>2, DueMapping
<1>3. stored' \in Command!Rows
  BY SavedTypes DEF IInv, Command!Rows
<1>4. ASSUME NEW a \in Aggregates
      PROVE  /\ Known[a] = "no" => stored'[a] = stored[a]
             /\ Known[a] = "created" => stored'[a] # Absent
             /\ Known[a] = "seen" /\ stored[a] = Absent => stored'[a] = Absent
  <2>1. Known[a] = IF state[a] = "Detached" THEN "no"
                   ELSE IF state[a] = "Added" THEN "created" ELSE "seen"
    BY <1>1 DEF Known
  <2>2. stored'[a] = IF a \notin Dirty THEN stored[a]
                     ELSE IF state[a] = "Deleted" THEN Absent ELSE current[a]
    BY DEF WriteDirty
  <2>3. CASE state[a] = "Detached"
    <3>1. a \notin Dirty
      BY <2>3 DEF Dirty, Modified
    <3>2. QED BY <2>1, <2>2, <2>3, <3>1
  <2>4. CASE state[a] = "Added"
    <3>1. a \in Dirty /\ current[a] \in Values
      BY <1>1, <2>4 DEF Dirty, MappingInv, Tracked
    <3>2. QED BY <2>1, <2>2, <2>4, <3>1, UnitOfWorkAssumption
  <2>5. CASE state[a] \notin {"Detached", "Added"}
    <3>1. stored[a] = Absent => a \notin Dirty
      BY <2>5 DEF Conflict
    <3>2. QED BY <2>1, <2>2, <2>5, <3>1
  <2>6. QED BY <2>3, <2>4, <2>5
<1>5. QED BY <1>2, <1>3, <1>4 DEF Command!TakeEffect

\* The dispatcher hands out an event that is due, after the earlier ones of its
\* entity.
LEMMA PublishMapping ==
    ASSUME CommandInv, PublishNext
    PROVE  \E n \in DOMAIN raised : Command!Hear(n)
<1> USE DEF CommandInv
<1> DEFINE n == Head(queue)
<1>1. /\ pc = "publish" /\ queue # <<>> /\ published' = Append(published, n)
      /\ UNCHANGED <<stored, state, pc, raised>>
      /\ queue \in Seq(Nat)
  BY DEF PublishNext, trackerVars, EventsInv, EventTypes
<1>2. n \in Nat /\ \A x : In(x, queue) <=> x = n \/ In(x, Tail(queue))
  BY <1>1, FirstEvent
<1>3. \A x : In(x, Tail(queue)) /\ Sources[x] = Sources[n] => n < x
  <2>1. Ordered(queue, Sources)
    BY DEF EventsInv, InOrder
  <2>2. QED BY <1>1, <2>1, FirstEvent
<1> HIDE DEF n
<1>4. /\ n \in 1..Len(raised) /\ n \in DOMAIN raised /\ raised[n].stage = "handler"
      /\ DOMAIN raised = 1..Len(raised) /\ Len(raised) \in Nat
  <2>1. n \in 1..Len(raised) /\ raised[n].stage = "handler"
    BY <1>2 DEF EventsInv, Placed, MappingInv
  <2>2. DOMAIN raised = 1..Len(raised) /\ Len(raised) \in Nat
    BY DEF EventsInv, EventTypes
  <2>3. QED BY <2>1, <2>2
<1>5. ~ In(n, published)
  <2>1. In(n, published) => n < n
    BY <1>2 DEF EventsInv, InOrder
  <2>2. QED BY <1>2, <2>1
<1>6. Command!Due(n)
  BY <1>4, <1>5, DueMapping
<1>7. ASSUME NEW m \in DOMAIN raised, m < n, Command!Due(m), raised[m].source = raised[n].source
      PROVE  FALSE
  <2>1. raised[m].stage = "handler" /\ ~ In(m, published)
    BY <1>7, DueMapping
  <2>2. In(m, queue)
    BY <1>1, <1>4, <2>1 DEF EventsInv, Waiting
  <2>3. Sources[m] = Sources[n]
    BY <1>4, <1>7 DEF Sources
  <2>4. m = n \/ n < m
    BY <1>2, <1>3, <2>2, <2>3
  <2>5. m \in Nat
    BY <1>4
  <2>6. QED BY <1>2, <1>7, <2>4, <2>5
<1>8. UNCHANGED Known /\ UNCHANGED (IF Ended THEN pc ELSE "open") /\ ~ Ended
  BY <1>1, KnownSame DEF Ended
<1>9. Command!Hear(n)
  BY <1>1, <1>6, <1>7, <1>8 DEF Command!Hear, Command!Open
<1>10. QED BY <1>4, <1>9

\* AddDomainEvent raises an event of a tracked entity, in the stage that the
\* command gives it.
LEMMA RaiseMapping ==
    ASSUME CommandInv, NEW a \in Aggregates, AddDomainEvent(a)
    PROVE  Command!Raise(a)
<1> USE DEF CommandInv
<1>1. /\ Running /\ a \in Tracked
      /\ raised' = Append(raised, [source |-> a, stage |-> pc])
      /\ UNCHANGED <<stored, state, pc, published>>
  BY DEF AddDomainEvent, trackerVars
<1>2. pc = (IF published = <<>> THEN "handler" ELSE "publish") /\ ~ Ended
  BY <1>1 DEF Running, IInv, StagesInv, EventsInv, Waiting, MappingInv, Ended
<1>3. Known[a] # "no"
  BY <1>1, <1>2 DEF Known, Tracked
<1>4. UNCHANGED Known /\ UNCHANGED (IF Ended THEN pc ELSE "open")
  BY <1>1, KnownSame
<1>5. QED BY <1>1, <1>2, <1>3, <1>4 DEF Command!Raise, Command!Open

LEMMA FailMapping ==
    ASSUME CommandInv, Throw, ~ Ended,
           \/ UNCHANGED stored
           \/ AnswerMayBeLost /\ Dispatched /\ ~ Conflict /\ WriteDirty
    PROVE  Command!Fail
<1>1. pc' = "failed" /\ UNCHANGED <<raised, published>>
  BY DEF Throw
<1>2. Command!End("failed")
  BY <1>1, EndMapping
<1>3. UNCHANGED stored \/ (AnswerMayBeLost /\ Command!TakeEffect)
  BY SaveMapping
<1>4. QED BY <1>2, <1>3 DEF Command!Fail

LEMMA CommandStep ==
    CommandInv /\ [Next]_vars => [Command!CommandNext]_Command!commandVars
<1> SUFFICES ASSUME CommandInv, [Next]_vars
             PROVE  Command!CommandNext \/ UNCHANGED Command!commandVars
  OBVIOUS
<1> USE DEF CommandInv
<1>1. Running => ~ Ended
  BY DEF Running, Ended, IInv, StagesInv
<1>2. ASSUME UNCHANGED <<stored, raised, published>>, Known' = Known,
             UNCHANGED (IF Ended THEN pc ELSE "open")
      PROVE  UNCHANGED Command!commandVars
  BY <1>2 DEF Command!commandVars
<1>3. ASSUME NEW a \in Aggregates, Load(a) PROVE Command!CommandNext
  <2>1. /\ Running /\ a \notin Tracked /\ stored[a] # Absent
        /\ state' = [state EXCEPT ![a] = "Unchanged"]
        /\ UNCHANGED <<stored, pc, raised, published>>
    BY <1>3 DEF Load, eventVars
  <2>2. Command!Know(a, "seen")
    BY <1>1, <2>1, KnowMapping
  <2>3. QED BY <2>1, <2>2 DEF Command!CommandNext, Command!Look
<1>4. ASSUME NEW a \in Aggregates, Create(a) PROVE Command!CommandNext
  <2>1. /\ Running /\ a \notin Tracked /\ stored[a] = Absent
        /\ state' = [state EXCEPT ![a] = "Added"]
        /\ UNCHANGED <<stored, pc, raised, published>>
    BY <1>4 DEF Create, eventVars
  <2>2. Command!Know(a, "created")
    BY <1>1, <2>1, KnowMapping
  <2>3. QED BY <2>1, <2>2 DEF Command!CommandNext, Command!Make
<1>5. ASSUME NEW a \in Aggregates, Change(a) PROVE UNCHANGED Command!commandVars
  <2>1. UNCHANGED <<stored, state, pc, raised, published>>
    BY <1>5 DEF Change, eventVars
  <2>2. QED BY <1>2, <2>1, KnownSame
<1>6. ASSUME NEW a \in Aggregates, Delete(a) PROVE UNCHANGED Command!commandVars
  <2>1. /\ state[a] = "Unchanged" /\ state' = [state EXCEPT ![a] = "Deleted"]
        /\ UNCHANGED <<stored, pc, raised, published>>
        /\ state \in [Aggregates -> EntryStates]
    BY <1>6 DEF Delete, eventVars, IInv, TrackerTypes
  <2>2. Known' = Known
    BY <2>1 DEF Known, Ended
  <2>3. QED BY <1>2, <2>1, <2>2 DEF Ended
<1>7. ASSUME NEW a \in Aggregates, AddDomainEvent(a) PROVE Command!CommandNext
  BY <1>7, RaiseMapping DEF Command!CommandNext
<1>8. CASE HandlerThrows
  <2>1. Command!Fail
    BY <1>1, <1>8, FailMapping DEF HandlerThrows
  <2>2. QED BY <2>1 DEF Command!CommandNext
<1>9. CASE HandlerReturns \/ DispatchEvents
  <2>1. /\ UNCHANGED <<stored, state, raised, published>>
        /\ ~ Ended /\ ~ Ended'
    BY <1>9 DEF HandlerReturns, DispatchEvents, trackerVars, eventVars, Ended
  <2>2. Known' = Known
    BY <2>1 DEF Known
  <2>3. QED BY <1>2, <2>1, <2>2
<1>10. CASE PublishNext
  BY <1>10, PublishMapping DEF Command!CommandNext
<1>11. CASE EventHandlersFinish \/ UNCHANGED vars
  <2>1. UNCHANGED <<stored, state, pc, raised, published>>
    BY <1>11 DEF EventHandlersFinish, vars, trackerVars
  <2>2. QED BY <1>2, <2>1, KnownSame
<1>12. CASE SaveChanges
  <2>1. /\ Dispatched /\ ~ Conflict /\ WriteDirty /\ pc' = "ok"
        /\ UNCHANGED <<raised, published>>
    BY <1>12 DEF SaveChanges, eventVars
  <2>2. Command!End("ok")
    BY <2>1, EndMapping DEF Dispatched, Ended
  <2>3. QED BY <2>1, <2>2, SaveMapping DEF Command!CommandNext, Command!Succeed
<1>13. CASE SaveChangesFails \/ SaveChangesAnswerLost
  <2>1. /\ Throw /\ ~ Ended
        /\ \/ UNCHANGED stored
           \/ AnswerMayBeLost /\ Dispatched /\ ~ Conflict /\ WriteDirty
    BY <1>13 DEF SaveChangesFails, SaveChangesAnswerLost, Dispatched, Ended
  <2>2. Command!Fail
    BY <2>1, FailMapping
  <2>3. QED BY <2>2 DEF Command!CommandNext
<1>14. ASSUME NEW a \in Aggregates, OtherScope(a) PROVE Command!CommandNext
  <2>1. /\ ~ Ended /\ stored[a] # Absent
        /\ \E v \in Values \cup {Absent} : stored' = [stored EXCEPT ![a] = v]
        /\ UNCHANGED <<state, pc, raised, published>>
    BY <1>14 DEF OtherScope, trackerVars, eventVars, Ended
  <2>2. UNCHANGED Known /\ UNCHANGED (IF Ended THEN pc ELSE "open")
    BY <2>1, KnownSame
  <2>3. Command!Others(a)
    BY <2>1, <2>2 DEF Command!Others, Command!Open
  <2>4. QED BY <2>3 DEF Command!CommandNext
<1> QED
  BY <1>3, <1>4, <1>5, <1>6, <1>7, <1>8, <1>9, <1>10, <1>11, <1>12, <1>13, <1>14
     DEF Next, HandlerWorks, Pipeline

\* ImplementsCommand: every step of tracker, dispatcher and database is a step of
\* the atomic command or none, with any handlers, any order of the entities in
\* the tracker and every failure.
THEOREM UnitOfWorkImplementsCommand == Spec => ImplementsCommand
<1>1. Init => Command!CommandInit
  BY DEF Init, Command!CommandInit, Command!Rows, Command!Nothing, Known, Ended
<1>2. QED
  BY <1>1, CommandStep, CommandInductive, PTL DEF Spec, ImplementsCommand, Command!CommandSpec

-----------------------------------------------------------------------------
(***************************************************************************)
(* Why the pipeline comes to an end: what Terminates rests on besides the  *)
(* fairness.                                                               *)
(***************************************************************************)
StagesLeft == IF pc = "handler" THEN 3 ELSE IF pc = "commit" THEN 2
              ELSE IF pc = "publish" THEN 1 ELSE 0
EventsLeft == 2 * Len(queue) + (IF serving # 0 THEN 1 ELSE 0)

\* A stage is over, or within a stage there is less to publish.
Closer ==
    \/ StagesLeft' < StagesLeft
    \/ StagesLeft' = StagesLeft /\ EventsLeft' < EventsLeft

\* Whatever handlers do - load, change, raise any number of events - the pipeline
\* does not move, and whenever it moves it comes closer to its end: the events
\* raised during the dispatch are in no list that DispatchEventsAsync goes through.
THEOREM PipelineComesCloser == Spec => [][Closer]_<<pc, queue, serving>>
<1>1. IInv /\ EventsInv /\ [Next]_vars => [Closer]_<<pc, queue, serving>>
  <2> SUFFICES ASSUME IInv, EventsInv, [Next]_vars, ~ UNCHANGED <<pc, queue, serving>>
               PROVE  Closer
    OBVIOUS
  <2>1. queue \in Seq(Nat) /\ pc \in Stages
    BY DEF EventsInv, EventTypes, IInv, StagesInv
  <2>2. CASE HandlerReturns \/ DispatchEvents \/ SaveChanges
    BY <2>2 DEF HandlerReturns, DispatchEvents, SaveChanges, Dispatched, Closer, StagesLeft
  <2>3. CASE HandlerThrows \/ SaveChangesFails \/ SaveChangesAnswerLost
    <3>1. pc \in {"handler", "publish"} /\ pc' = "failed"
      BY <2>3 DEF HandlerThrows, SaveChangesFails, SaveChangesAnswerLost, Throw, Running,
                  Dispatched, IInv, StagesInv
    <3>2. QED BY <3>1 DEF Closer, StagesLeft
  <2>4. CASE PublishNext
    <3>1. /\ pc' = pc /\ serving = 0 /\ queue # <<>> /\ queue' = Tail(queue)
      BY <2>4 DEF PublishNext
    <3>2. Len(queue') = Len(queue) - 1 /\ Len(queue) \in Nat /\ Len(queue) >= 1
      BY <2>1, <3>1, HeadTailProperties, EmptySeq
    <3>3. EventsLeft = 2 * Len(queue) + 0
      BY <3>1 DEF EventsLeft
    <3>4. EventsLeft' = 2 * Len(queue') + 0 \/ EventsLeft' = 2 * Len(queue') + 1
      BY DEF EventsLeft
    <3>5. EventsLeft' < EventsLeft
      BY <3>2, <3>3, <3>4
    <3>6. QED BY <3>1, <3>5 DEF Closer, StagesLeft
  <2>5. CASE EventHandlersFinish
    <3>1. pc' = pc /\ queue' = queue /\ serving # 0 /\ serving' = 0 /\ Len(queue) \in Nat
      BY <2>1, <2>5 DEF EventHandlersFinish
    <3>2. EventsLeft' < EventsLeft
      BY <3>1 DEF EventsLeft
    <3>3. QED BY <3>1, <3>2 DEF Closer, StagesLeft
  <2>6. CASE HandlerWorks \/ (\E a \in Aggregates : OtherScope(a)) \/ UNCHANGED vars
    BY <2>6 DEF HandlerWorks, Load, Create, Change, Delete, AddDomainEvent, OtherScope, vars,
                eventVars
  <2>7. QED BY <2>2, <2>3, <2>4, <2>5, <2>6 DEF Next, Pipeline
<1>2. QED BY <1>1, EventsInductive, PTL DEF Spec
=============================================================================
