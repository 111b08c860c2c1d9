--------------------------------- MODULE Names ---------------------------------
(***************************************************************************)
(* The value object Name and its rule.  Email and UserName have the same   *)
(* constructor (trim, check, keep) and equality over rules of their own.   *)
(* A text is a sequence of characters; what matters of them is which are   *)
(* letters, which are white, and which are the same in upper case.         *)
(***************************************************************************)
EXTENDS Naturals, Sequences, FiniteSetsExt

CONSTANTS
    Chars,    \* the alphabet of the texts
    Letters,  \* \p{L}
    Space,
    Newline,
    Upper     \* Char.ToUpperInvariant: Chars -> Chars

White == {Space, Newline}

ASSUME NamesAssumption ==
    /\ Letters \cup White \subseteq Chars
    /\ Letters \cap White = {}
    /\ Upper \in [Chars -> Chars]

Texts == Seq(Chars)

\* String.IsNullOrWhiteSpace and String.Trim.
Blank(t) == \A i \in DOMAIN t : t[i] \in White

Trim(t) ==
    LET ink == {i \in DOMAIN t : t[i] \notin White}
    IN IF ink = {} THEN <<>> ELSE SubSeq(t, Min(ink), Max(ink))

\* Variant: ^([\p{L}]+ )*$, every word is followed by a space.
MatchesWithSpaces(t) ==
    LET rest[i \in 1..(Len(t) + 1)] ==
          \/ i = Len(t) + 1
          \/ i = Len(t) /\ t[i] = Newline
          \/ \E j \in (i + 1)..Len(t) :
               /\ \A k \in i..(j - 1) : t[k] \in Letters
               /\ t[j] = Space
               /\ rest[j + 1]
    IN rest[1]

\* ^([\p{L}]+ ?)*$ - where $ also matches before a final newline.
Matches(t) ==
    LET rest[i \in 1..(Len(t) + 1)] ==
          \/ i = Len(t) + 1
          \/ i = Len(t) /\ t[i] = Newline
          \/ \E j \in (i + 1)..(Len(t) + 1) :
               /\ \A k \in i..(j - 1) : t[k] \in Letters
               /\ rest[j] \/ (j <= Len(t) /\ t[j] = Space /\ rest[j + 1])
    IN rest[1]

NameIsBroken(t) == Blank(t) \/ Len(t) < 3 \/ ~ Matches(t)

\* SetValue, hence the constructor, accepts t; it keeps Trim(t).
IsName(t) == ~ NameIsBroken(Trim(t))

\* Equals: the values are the same when both are put in upper case.
SameName(t, u) ==
    /\ Len(t) = Len(u)
    /\ \A i \in DOMAIN t : Upper[t[i]] = Upper[u[i]]
=============================================================================
