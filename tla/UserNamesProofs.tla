---------------------------- MODULE UserNamesProofs ----------------------------
(***************************************************************************)
(* Theorems about UserNames, for any alphabet, any letters and any texts   *)
(* that handlers pass.  They rest on what Trim does to a text and on the   *)
(* equality of names; which texts the rule accepts plays no part.          *)
(***************************************************************************)
EXTENDS UserNames, NamesProofs
-----------------------------------------------------------------------------
(***************************************************************************)
(* The invariant.                                                          *)
(***************************************************************************)
\* A text that a Name may hold: accepted, and trimmed.
Kept == {t \in Texts : IsName(t) /\ Trim(t) = t}

\* A loaded user has names in memory and in the snapshot, and the snapshot is the
\* row but where SetValue changed the object that both refer to.
LoadedInv ==
    scope = "loaded" =>
        /\ name \in [Parts -> Kept]
        /\ original \in [Parts -> Kept]
        /\ \A p \in Parts : original[p] = row[p] \/ p \in inPlace

RowInv == row \in [Parts -> Kept]

IInv == TypeOK /\ RowInv /\ LoadedInv /\ SavedUpToCase /\ RevertedUpToCase

LEMMA Keeps ==
    ASSUME NEW t \in Texts, IsName(t)
    PROVE  Trim(t) \in Kept
<1>1. Trim(t) \in Texts /\ Trim(Trim(t)) = Trim(t)
  BY Trimmed, TrimIdempotent
<1>2. QED BY <1>1 DEF Kept, IsName

\* An unmodified name is the one in the snapshot, if perhaps in another case.
LEMMA UnmodifiedIsSame ==
    ASSUME NEW p \in Parts, p \notin Modified, name[p] \in Kept, original[p] \in Kept
    PROVE  SameName(original[p], name[p])
  BY SameNameIsSymmetric DEF Modified, Kept

LEMMA RevertRestores ==
    ASSUME IInv, scope = "loaded", RevertAsync, UNCHANGED <<row, original, inPlace>>
    PROVE  /\ name' \in [Parts -> Kept]
           /\ shared' \subseteq Parts
           /\ \A p \in Parts : SameName(row[p], name'[p]) \/ p \in inPlace
<1>1. \A p \in Parts : name[p] \in Kept /\ original[p] \in Kept /\ original[p] \in Texts
  BY DEF IInv, LoadedInv, Kept
<1>2. name' \in [Parts -> Kept]
  BY <1>1 DEF RevertAsync
<1>3. \A p \in Parts : SameName(original[p], name'[p])
  BY <1>1, UnmodifiedIsSame, SameNameIsReflexive DEF RevertAsync
<1>4. shared' \subseteq Parts
  BY DEF RevertAsync, Modified, IInv, TypeOK
<1>5. QED BY <1>2, <1>3, <1>4 DEF IInv, LoadedInv

LEMMA KeptTexts == Kept \subseteq Texts
  BY DEF Kept

LEMMA InvStep == IInv /\ [Next]_vars => IInv'
<1> SUFFICES ASSUME IInv, [Next]_vars PROVE IInv'
  OBVIOUS
<1>t. \A t \in Inputs : t \in Texts
  BY UserNamesAssumption
<1>l. ASSUME scope = "loaded"
      PROVE  /\ name \in [Parts -> Kept] /\ original \in [Parts -> Kept]
             /\ \A p \in Parts : name[p] \in Kept /\ original[p] \in Kept /\ name[p] \in Texts
  BY <1>l DEF IInv, LoadedInv, Kept
<1>1. CASE Load
  <2>1. \A p \in Parts : row[p] \in Kept /\ Trim(row[p]) = row[p]
    BY DEF IInv, RowInv, Kept
  <2>2. name' = row
    BY <1>1, <2>1 DEF Load, IInv, RowInv
  <2>3. QED BY <1>1, <2>2, KeptTexts DEF Load, IInv, TypeOK, RowInv, LoadedInv, SavedUpToCase, RevertedUpToCase
<1>2. CASE Rename
  <2>0. PICK parts \in SUBSET Parts :
           \E given \in [parts -> {t \in Inputs : IsName(t)}] :
             name' = [p \in Parts |-> IF p \in parts THEN Trim(given[p]) ELSE name[p]]
    BY <1>2 DEF Rename
  <2>1. PICK given \in [parts -> {t \in Inputs : IsName(t)}] :
           name' = [p \in Parts |-> IF p \in parts THEN Trim(given[p]) ELSE name[p]]
    BY <2>0
  <2>2. \A p \in parts : Trim(given[p]) \in Kept
    BY <1>t, Keeps
  <2>3. name' \in [Parts -> Kept]
    BY <1>2, <1>l, <2>1, <2>2 DEF Rename
  <2>4. shared' \subseteq Parts /\ UNCHANGED <<row, original, scope, inPlace>> /\ scope = "loaded"
    BY <1>2 DEF Rename, IInv, TypeOK
  <2>5. QED BY <2>3, <2>4, KeptTexts DEF IInv, TypeOK, RowInv, LoadedInv, SavedUpToCase, RevertedUpToCase
<1>3. ASSUME NEW p \in Parts, SetValue(p) PROVE IInv'
  <2>1. PICK t \in Inputs : /\ IsName(t)
                            /\ name' = [name EXCEPT ![p] = Trim(t)]
                            /\ original' = [original EXCEPT ![p] = IF p \in shared THEN Trim(t) ELSE @]
    BY <1>3 DEF SetValue
  <2>2. Trim(t) \in Kept
    BY <1>t, <2>1, Keeps
  <2>3. /\ scope = "loaded" /\ UNCHANGED <<row, shared, scope>>
        /\ inPlace' = IF p \in shared THEN inPlace \cup {p} ELSE inPlace
    BY <1>3 DEF SetValue
  <2>4. name' \in [Parts -> Kept] /\ original' \in [Parts -> Kept]
    BY <1>l, <2>1, <2>2, <2>3
  <2>5. \A q \in Parts : original'[q] = row[q] \/ q \in inPlace'
    BY <1>l, <2>1, <2>3 DEF IInv, LoadedInv
  <2>6. QED BY <2>3, <2>4, <2>5, KeptTexts DEF IInv, TypeOK, RowInv, LoadedInv, SavedUpToCase, RevertedUpToCase
<1>4. CASE BreakRule
  <2>1. scope = "loaded" /\ RevertAsync /\ scope' = "failed" /\ UNCHANGED <<row, original, inPlace>>
    BY <1>4 DEF BreakRule
  <2>2. QED BY <2>1, RevertRestores, KeptTexts DEF IInv, TypeOK, RowInv, LoadedInv, SavedUpToCase, RevertedUpToCase
<1>5. CASE Commit
  <2>1. /\ scope = "loaded" /\ scope' = "saved"
        /\ row' = [p \in Parts |-> IF p \in Modified THEN name[p] ELSE row[p]]
        /\ name' = name
    BY <1>5 DEF Commit, AcceptChanges
  <2>2. row' \in [Parts -> Kept]
    BY <1>l, <2>1 DEF IInv, RowInv
  <2>3. (original' = name \/ original' = original) /\ shared' \subseteq Parts /\ inPlace' = inPlace
    BY <1>5 DEF Commit, AcceptChanges, IInv, TypeOK
  <2>4. \A p \in Parts : SameName(row'[p], name[p]) \/ p \in inPlace
    BY <1>l, <2>1, UnmodifiedIsSame, SameNameIsReflexive DEF IInv, LoadedInv
  <2>5. QED BY <1>l, <2>1, <2>2, <2>3, <2>4, KeptTexts DEF IInv, TypeOK, RowInv, LoadedInv, SavedUpToCase, RevertedUpToCase
<1>6. CASE Update
  <2>1. scope = "loaded" /\ row' = name /\ original' = name /\ shared' = Parts /\ scope' = "saved"
        /\ UNCHANGED <<name, inPlace>>
    BY <1>6 DEF Update, AcceptChanges
  <2>2. \A p \in Parts : SameName(row'[p], name'[p])
    BY <1>l, <2>1, SameNameIsReflexive
  <2>3. QED BY <1>l, <2>1, <2>2, KeptTexts DEF IInv, TypeOK, RowInv, LoadedInv, SavedUpToCase, RevertedUpToCase
<1>7. CASE SaveFails
  <2>1. scope = "loaded" /\ RevertAsync /\ scope' = "failed" /\ UNCHANGED <<row, original, inPlace>>
    BY <1>7 DEF SaveFails
  <2>2. QED BY <2>1, RevertRestores, KeptTexts DEF IInv, TypeOK, RowInv, LoadedInv, SavedUpToCase, RevertedUpToCase
<1>8. CASE UNCHANGED vars
  BY <1>8 DEF vars, IInv, TypeOK, RowInv, LoadedInv, SavedUpToCase, RevertedUpToCase
<1>9. QED BY <1>1, <1>2, <1>3, <1>4, <1>5, <1>6, <1>7, <1>8 DEF Next

(***************************************************************************)
(* The theorems.                                                           *)
(***************************************************************************)

\* The inductive invariant holds in every reachable state.
THEOREM UserNamesInductive == Spec => []IInv
<1>1. Init => IInv
  <2> SUFFICES ASSUME Init PROVE IInv
    OBVIOUS
  <2>1. \A t \in Stored : t \in Kept
    BY Keeps, UserNamesAssumption DEF Stored
  <2>2. row \in [Parts -> Kept]
    BY <2>1 DEF Init
  <2>3. QED BY <2>2, KeptTexts DEF Init, IInv, TypeOK, RowInv, LoadedInv, SavedUpToCase, RevertedUpToCase
<1>2. QED BY <1>1, InvStep, PTL DEF Spec

\* Every variable keeps its type.
THEOREM UserNamesTypeCorrect == Spec => []TypeOK
<1>1. IInv => TypeOK
  BY DEF IInv
<1>2. QED BY <1>1, UserNamesInductive, PTL

\* Whatever was saved before, NameConverter reads the columns back.
THEOREM RowsReadBack == Spec => []UserCanBeLoaded
<1>1. IInv => UserCanBeLoaded
  BY DEF IInv, RowInv, Kept, UserCanBeLoaded
<1>2. QED BY <1>1, UserNamesInductive, PTL

\* A save loses nothing but the case of a name, and what SetValue changed in place.
THEOREM SavesAreTrueUpToCase == Spec => []SavedUpToCase
<1>1. IInv => SavedUpToCase
  BY DEF IInv
<1>2. QED BY <1>1, UserNamesInductive, PTL

\* A revert restores the names of the row, with the same exceptions.
THEOREM RevertsAreTrueUpToCase == Spec => []RevertedUpToCase
<1>1. IInv => RevertedUpToCase
  BY DEF IInv
<1>2. QED BY <1>1, UserNamesInductive, PTL
=============================================================================
