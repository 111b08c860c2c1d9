------------------------------- MODULE UserNames -------------------------------
(***************************************************************************)
(* The names of one user: User.Rename, Name.SetValue, and what Entity      *)
(* Framework sees of them.  NameConverter maps a Name to a column; no      *)
(* ValueComparer is configured, so the change tracker compares with        *)
(* Name.Equals, which ignores case, and its snapshot of a property is the  *)
(* very object that the user refers to.                                    *)
(*                                                                         *)
(* A handler loads the user, changes names, and saves through the unit of  *)
(* work, or through UserRepository.UpdateAsync, whose store marks every    *)
(* property as modified.                                                   *)
(***************************************************************************)
EXTENDS Names

CONSTANTS
    Inputs,  \* texts that handlers pass to Name
    NoText

Parts == {"first", "last"}
Stored == {Trim(t) : t \in {u \in Inputs : IsName(u)}}

ASSUME UserNamesAssumption ==
    /\ Inputs \subseteq Texts
    /\ Stored # {}
    /\ NoText \notin Texts

VARIABLES
    row,       \* the columns FirstName and LastName
    name,      \* the values of the user's names in memory
    original,  \* ... of those in the change tracker's snapshot
    shared,    \* the parts whose snapshot is the object the user refers to
    scope,     \* "none", "loaded", or how the handler ended: "saved", "failed"
    inPlace    \* (history) the parts that SetValue changed while they were shared

vars == <<row, name, original, shared, scope, inPlace>>

TypeOK ==
    /\ row \in [Parts -> Texts]
    /\ name \in [Parts -> Texts \cup {NoText}]
    /\ original \in [Parts -> Texts \cup {NoText}]
    /\ shared \subseteq Parts
    /\ scope \in {"none", "loaded", "saved", "failed"}
    /\ inPlace \subseteq Parts

Init ==
    /\ row \in [Parts -> Stored]
    /\ name = [p \in Parts |-> NoText]
    /\ original = [p \in Parts |-> NoText]
    /\ shared = {}
    /\ scope = "none"
    /\ inPlace = {}

\* NameConverter reads the columns into new objects.
Load ==
    /\ scope # "loaded"
    /\ \A p \in Parts : IsName(row[p])
    /\ name' = [p \in Parts |-> Trim(row[p])]
    /\ original' = name'
    /\ shared' = Parts
    /\ scope' = "loaded"
    /\ inPlace' = {}
    /\ UNCHANGED row

\* Rename takes new Name objects; a part may be left out.
Rename ==
    /\ scope = "loaded"
    /\ \E parts \in SUBSET Parts \ {{}} :
         /\ \E given \in [parts -> {t \in Inputs : IsName(t)}] :
              name' = [p \in Parts |-> IF p \in parts THEN Trim(given[p]) ELSE name[p]]
         /\ shared' = shared \ parts
    /\ UNCHANGED <<row, original, scope, inPlace>>

\* Variant: SetValue keeps the text as it came.
SetValueUntrimmed(p) ==
    /\ scope = "loaded"
    /\ \E t \in Inputs :
         /\ IsName(t)
         /\ name' = [name EXCEPT ![p] = t]
         /\ original' = [original EXCEPT ![p] = IF p \in shared THEN t ELSE @]
    /\ inPlace' = IF p \in shared THEN inPlace \cup {p} ELSE inPlace
    /\ UNCHANGED <<row, shared, scope>>

SetValue(p) ==
    /\ scope = "loaded"
    /\ \E t \in Inputs :
         /\ IsName(t)
         /\ name' = [name EXCEPT ![p] = Trim(t)]
         /\ original' = [original EXCEPT ![p] = IF p \in shared THEN Trim(t) ELSE @]
    /\ inPlace' = IF p \in shared THEN inPlace \cup {p} ELSE inPlace
    /\ UNCHANGED <<row, shared, scope>>

\* The change tracker compares a property with its snapshot by Name.Equals.
Modified == {p \in Parts : ~ SameName(name[p], original[p])}

\* Variant: the revert resets the entry's state, not its values.
RevertKeepsNames == UNCHANGED <<name, shared>>

\* UnitOfWork.RevertAsync: what is modified gets the snapshot's value back.
RevertAsync ==
    /\ name' = [p \in Parts |-> IF p \in Modified THEN original[p] ELSE name[p]]
    /\ shared' = shared \cup Modified

\* A text that breaks the rule: BusinessRuleValidationException, and the unit of
\* work's revert.
BreakRule ==
    /\ scope = "loaded"
    /\ \E t \in Inputs : ~ IsName(t)
    /\ RevertAsync
    /\ scope' = "failed"
    /\ UNCHANGED <<row, original, inPlace>>

AcceptChanges ==
    /\ original' = name
    /\ shared' = Parts
    /\ scope' = "saved"
    /\ UNCHANGED <<name, inPlace>>

\* Variant: an UPDATE that leaves out the last name.
CommitFirstOnly ==
    /\ scope = "loaded"
    /\ row' = [p \in Parts |-> IF p \in Modified \cap {"first"} THEN name[p] ELSE row[p]]
    /\ AcceptChanges

\* UnitOfWork.CommitAsync writes the properties found to be modified; an entity
\* without one is left as it is.
Commit ==
    /\ scope = "loaded"
    /\ row' = [p \in Parts |-> IF p \in Modified THEN name[p] ELSE row[p]]
    /\ IF Modified # {} THEN AcceptChanges
       ELSE scope' = "saved" /\ UNCHANGED <<name, original, shared, inPlace>>

\* UserRepository.UpdateAsync.
Update ==
    /\ scope = "loaded"
    /\ row' = name
    /\ AcceptChanges

\* Variant: a failed save leaves the scope in a state of its own.
SaveFailsReverted ==
    /\ scope = "loaded"
    /\ RevertAsync
    /\ scope' = "reverted"
    /\ UNCHANGED <<row, original, inPlace>>

\* The database fails: the scope reverts.
SaveFails ==
    /\ scope = "loaded"
    /\ RevertAsync
    /\ scope' = "failed"
    /\ UNCHANGED <<row, original, inPlace>>

Next ==
    \/ Load \/ Rename \/ (\E p \in Parts : SetValue(p)) \/ BreakRule
    \/ Commit \/ Update \/ SaveFails

Spec == Init /\ [][Next]_vars
-----------------------------------------------------------------------------
\* The columns always hold values that NameConverter reads back, so a user can
\* always be loaded, whatever sequence of changes was saved before.
UserCanBeLoaded ==
    \A p \in Parts : IsName(row[p]) /\ Trim(row[p]) = row[p]

\* After a save the row says what the user is called, if perhaps in another case:
\* the change tracker overlooks nothing else - except a part that SetValue changed
\* in the very object the snapshot refers to.
SavedUpToCase ==
    scope = "saved" =>
        \A p \in Parts : SameName(row[p], name[p]) \/ p \in inPlace

\* A failed handler leaves the user as it is in the row, with the same exceptions.
RevertedUpToCase ==
    scope = "failed" =>
        \A p \in Parts : SameName(row[p], name[p]) \/ p \in inPlace
=============================================================================
