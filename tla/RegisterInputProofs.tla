-------------------------- MODULE RegisterInputProofs --------------------------
(***************************************************************************)
(* Theorems about RegisterInput, for any alphabet, any letters and digits, *)
(* and texts of any length: what the gates of a registration make of what  *)
(* a client types.                                                         *)
(***************************************************************************)
EXTENDS RegisterInput, NamesProofs

\* What is typed is a text.
TextInv == field \in Fields /\ text \in Texts

LEMMA TextsAreTyped == Spec => []TextInv
<1>1. Init => TextInv
  BY DEF Init, TextInv, Texts
<1>2. TextInv /\ [Next]_<<field, text>> => TextInv'
  <2> SUFFICES ASSUME TextInv, [Next]_<<field, text>> PROVE TextInv'
    OBVIOUS
  <2>1. CASE Next
    <3>1. PICK c \in Chars : text' = Append(text, c)
      BY <2>1 DEF Next
    <3>2. text' \in Texts
      BY <3>1 DEF TextInv, Texts
    <3>3. QED BY <2>1, <3>2 DEF Next, TextInv
  <2>2. CASE UNCHANGED <<field, text>>
    BY <2>2 DEF TextInv
  <2>3. QED BY <2>1, <2>2
<1>3. QED BY <1>1, <1>2, PTL DEF Spec

-----------------------------------------------------------------------------
(***************************************************************************)
(* Names.                                                                  *)
(***************************************************************************)
LEMMA WordsHold == TextInv => MatchesWords
<1> SUFFICES ASSUME TextInv PROVE MatchesWords
  OBVIOUS
<1> DEFINE ends == text # <<>> /\ text[Len(text)] = Newline
           body == IF ends THEN SubSeq(text, 1, Len(text) - 1) ELSE text
           m == LastOf(text)
<1>1. text \in Texts
  BY DEF TextInv
<1>2. Len(text) \in Nat /\ DOMAIN text = 1..Len(text) /\ m \in Nat /\ m <= Len(text)
  BY <1>1, LastOfText
<1>3. DOMAIN body = 1..m /\ \A i \in 1..m : body[i] = text[i]
  <2>1. CASE ends
    <3>1. m = Len(text) - 1
      BY <2>1 DEF LastOf
    <3>2. Len(text) >= 1
      BY <1>2, <3>1
    <3>3. \A i \in 1..m : text[i] \in Chars
      BY <1>1, <1>2 DEF Texts
    <3>4. /\ SubSeq(text, 1, m) \in Seq(Chars) /\ Len(SubSeq(text, 1, m)) = m
          /\ \A i \in 1..m : SubSeq(text, 1, m)[i] = text[i]
      BY <1>2, <3>3, SubSeqProperties
    <3>5. body = SubSeq(text, 1, m)
      BY <2>1, <3>1
    <3>6. QED BY <3>4, <3>5
  <2>2. CASE ~ ends
    <3>1. m = Len(text)
      BY <2>2 DEF LastOf
    <3>2. QED BY <1>2, <2>2, <3>1
  <2>3. QED BY <2>1, <2>2
<1> DEFINE Words == /\ \A i \in DOMAIN body : body[i] \in Letters \cup {Space}
                    /\ \A i \in DOMAIN body : body[i] = Space => i > 1 /\ body[i - 1] # Space
<1>4. MatchesWords <=> (Matches(text) <=> Words)
  BY DEF MatchesWords
<1> HIDE DEF body
<1>5. \A i \in 1..m : i > 1 => i - 1 \in 1..m
  BY <1>2
<1>6. Words <=> WordsFrom(text, 1)
  BY <1>3, <1>5 DEF WordsFrom
<1>7. QED BY <1>1, <1>4, <1>6, MatchesAreWords

\* Whatever Name accepts, NameConverter reads back from the database as the same
\* value: the rule holds of the trimmed value, not only of the text.
THEOREM NamesReadBack ==
    ASSUME NEW t \in Texts, IsName(t)
    PROVE  ReadsBack(Trim(t))
<1>1. Trim(Trim(t)) = Trim(t)
  BY TrimIdempotent
<1>2. QED BY <1>1 DEF ReadsBack, IsName

LEMMA OnlyLengthBreaks == TextInv => ValidatorGap
<1> SUFFICES ASSUME TextInv, field = "name", Flaw = "rule"
             PROVE  Len(text) >= 3 /\ Len(Trim(text)) < 3
  BY DEF ValidatorGap
<1>1. BeAValidName(text) /\ ~ IsName(text)
  BY DEF Flaw, PassesValidator, PassesRules
<1>2. text \in Texts /\ Len(text) \in Nat
  BY DEF TextInv, Texts
<1>3. ~ Blank(text) /\ ~ (Len(text) < 3) /\ Matches(text)
  BY <1>1 DEF BeAValidName, NameIsBroken
<1>4. ~ Blank(Trim(text)) /\ Matches(Trim(text))
  BY <1>2, <1>3, TrimKeepsWords
<1>5. QED BY <1>1, <1>2, <1>3, <1>4 DEF IsName, NameIsBroken
-----------------------------------------------------------------------------
(***************************************************************************)
(* The expression of UserNameMustBeValidRule.                              *)
(***************************************************************************)
PartOf(t, i, j) == i < j /\ \A k \in i..(j - 1) : t[k] \in Word \cup {Hyphen}

\* What the expression demands from position i on, when f says it of what comes later.
LabelsFrom(f, t, i) ==
    \E j \in Positions(t, Dot) :
        /\ PartOf(t, i, j)
        /\ \/ f[j + 1]
           \/ Len(t) - j \in 2..4 /\ PartOf(t, j + 1, Len(t) + 1)

\* From position i on, t is a domain: parts that are not empty between single dots,
\* the last of them of two to four characters, and at least one dot.
DomainFrom(t, i) ==
    /\ i <= Len(t) /\ t[i] # Dot
    /\ \A k \in i..Len(t) : /\ t[k] \in Word \cup {Hyphen, Dot}
                            /\ k > i /\ t[k] = Dot => t[k - 1] # Dot
    /\ \E d \in (i + 1)..Len(t) : /\ t[d] = Dot /\ Len(t) - d \in 2..4
                                  /\ \A k \in (d + 1)..Len(t) : t[k] # Dot

LEMMA PunctuationIsNoWord ==
    /\ At \notin Word /\ Dot \notin Word /\ Hyphen \notin Word
    /\ At # Dot /\ At # Hyphen /\ Dot # Hyphen
    /\ At \notin White /\ Dot \notin White
    /\ \A c \in Word \cup {Hyphen} : c # Dot /\ c # At /\ c \notin White
  BY AddressesAssumption DEF Punctuation

\* A part, a dot, and a domain are a domain.
LEMMA PartBeforeDomain ==
    ASSUME NEW t \in Texts, NEW i \in 1..(Len(t) + 1), NEW j \in Positions(t, Dot),
           PartOf(t, i, j), DomainFrom(t, j + 1)
    PROVE  DomainFrom(t, i)
<1> DEFINE n == Len(t)
<1>1. /\ n \in Nat /\ i \in Nat /\ j \in Nat /\ 1 <= i /\ i < j /\ j < n
      /\ t[j] = Dot
  BY DEF Texts, Positions, PartOf, DomainFrom
<1> HIDE DEF n
<1>2. \A k \in i..(j - 1) : t[k] \in Word \cup {Hyphen} /\ t[k] # Dot
  BY PunctuationIsNoWord DEF PartOf
<1>3. t[i] # Dot
  BY <1>1, <1>2
<1>4. ASSUME NEW k \in i..n
      PROVE  /\ t[k] \in Word \cup {Hyphen, Dot}
             /\ k > i /\ t[k] = Dot => t[k - 1] # Dot
  <2>1. CASE k < j
    <3>1. k \in i..(j - 1)
      BY <1>1, <2>1
    <3>2. QED BY <1>2, <3>1
  <2>2. CASE k = j
    <3>1. k - 1 \in i..(j - 1)
      BY <1>1, <2>2
    <3>2. QED BY <1>1, <1>2, <2>2, <3>1
  <2>3. CASE k = j + 1
    <3>1. k \in (j + 1)..n
      BY <1>1, <2>3
    <3>2. QED BY <2>3, <3>1 DEF DomainFrom, n
  <2>4. CASE k > j + 1
    <3>1. k \in (j + 1)..n
      BY <1>1, <2>4
    <3>2. QED BY <2>4, <3>1 DEF DomainFrom, n
  <2>5. QED BY <1>1, <2>1, <2>2, <2>3, <2>4
<1>5. PICK d \in (j + 2)..n : /\ t[d] = Dot /\ n - d \in 2..4
                              /\ \A k \in (d + 1)..n : t[k] # Dot
  <2>1. (j + 1) + 1 = j + 2
    BY <1>1
  <2>2. QED BY <2>1 DEF DomainFrom, n
<1>6. d \in (i + 1)..n
  BY <1>1
<1>7. QED BY <1>1, <1>3, <1>4, <1>5, <1>6 DEF DomainFrom, n

\* Two parts with a dot between them, the second of two to four characters, are a domain.
LEMMA LastParts ==
    ASSUME NEW t \in Texts, NEW i \in 1..(Len(t) + 1), NEW j \in Positions(t, Dot),
           PartOf(t, i, j), Len(t) - j \in 2..4, PartOf(t, j + 1, Len(t) + 1)
    PROVE  DomainFrom(t, i)
<1> DEFINE n == Len(t)
<1>1. /\ n \in Nat /\ i \in Nat /\ j \in Nat /\ 1 <= i /\ i < j /\ j < n
      /\ t[j] = Dot
  BY DEF Texts, Positions, PartOf
<1> HIDE DEF n
<1>2. \A k \in i..(j - 1) : t[k] \in Word \cup {Hyphen} /\ t[k] # Dot
  BY PunctuationIsNoWord DEF PartOf
<1>3. \A k \in (j + 1)..n : t[k] \in Word \cup {Hyphen} /\ t[k] # Dot
  <2>1. (n + 1) - 1 = n
    BY <1>1
  <2>2. QED BY <2>1, PunctuationIsNoWord DEF PartOf, n
<1>4. t[i] # Dot
  BY <1>1, <1>2
<1>5. ASSUME NEW k \in i..n
      PROVE  /\ t[k] \in Word \cup {Hyphen, Dot}
             /\ k > i /\ t[k] = Dot => t[k - 1] # Dot
  <2>1. CASE k < j
    <3>1. k \in i..(j - 1)
      BY <1>1, <2>1
    <3>2. QED BY <1>2, <3>1
  <2>2. CASE k = j
    <3>1. k - 1 \in i..(j - 1)
      BY <1>1, <2>2
    <3>2. QED BY <1>1, <1>2, <2>2, <3>1
  <2>3. CASE k > j
    <3>1. k \in (j + 1)..n
      BY <1>1, <2>3
    <3>2. QED BY <1>3, <3>1
  <2>4. QED BY <1>1, <2>1, <2>2, <2>3
<1>6. j \in (i + 1)..n /\ n - j \in 2..4
  BY <1>1 DEF n
<1>7. QED BY <1>1, <1>3, <1>4, <1>5, <1>6 DEF DomainFrom, n

\* A domain is a part, a dot, and a domain or a last part.
LEMMA FirstPart ==
    ASSUME NEW t \in Texts, NEW i \in 1..(Len(t) + 1), DomainFrom(t, i)
    PROVE  \E j \in Positions(t, Dot) :
             /\ PartOf(t, i, j)
             /\ \/ DomainFrom(t, j + 1)
                \/ Len(t) - j \in 2..4 /\ PartOf(t, j + 1, Len(t) + 1)
<1> DEFINE n == Len(t)
           later == {k \in Nat : k \in i..n /\ t[k] = Dot}
<1>1. n \in Nat /\ DOMAIN t = 1..n /\ i \in Nat /\ 1 <= i /\ i <= n
  BY DEF Texts, DomainFrom
<1>2. PICK d \in (i + 1)..n : /\ t[d] = Dot /\ n - d \in 2..4
                              /\ \A k \in (d + 1)..n : t[k] # Dot
  BY DEF DomainFrom
<1>3. \A k \in i..n : /\ t[k] \in Word \cup {Hyphen, Dot}
                      /\ k > i /\ t[k] = Dot => t[k - 1] # Dot
  BY DEF DomainFrom
<1>4. t[i] # Dot
  BY DEF DomainFrom
<1> HIDE DEF n
<1>5. d \in later
  BY <1>1, <1>2
<1>6. PICK j \in later : \A k \in later : j <= k
  BY <1>5, LeastNatural
<1>7. j \in Nat /\ i < j /\ j <= d /\ j <= n /\ t[j] = Dot
  BY <1>1, <1>4, <1>5, <1>6
<1>8. j \in Positions(t, Dot)
  BY <1>1, <1>7 DEF Positions
<1>9. PartOf(t, i, j)
  <2>1. ASSUME NEW k \in i..(j - 1) PROVE t[k] \in Word \cup {Hyphen}
    <3>1. k \in Nat /\ k \in i..n /\ ~ (j <= k)
      BY <1>1, <1>7
    <3>2. t[k] # Dot
      BY <1>6, <3>1
    <3>3. QED BY <1>3, <3>1, <3>2
  <2>2. QED BY <1>7, <2>1 DEF PartOf
<1>10. CASE j = d
  <2>1. \A k \in (j + 1)..((n + 1) - 1) : t[k] \in Word \cup {Hyphen}
    <3>1. \A k \in (j + 1)..((n + 1) - 1) : k \in i..n /\ k \in (d + 1)..n
      BY <1>1, <1>7, <1>10
    <3>2. QED BY <1>2, <1>3, <3>1
  <2>2. j + 1 < n + 1
    BY <1>1, <1>2, <1>7, <1>10
  <2>3. QED BY <1>2, <1>8, <1>9, <1>10, <2>1, <2>2 DEF PartOf, n
<1>11. CASE j # d
  <2>1. j + 1 \in i..n /\ j + 1 > i /\ (j + 1) - 1 = j /\ j + 1 <= n
    BY <1>1, <1>2, <1>7, <1>11
  <2>2. t[j + 1] # Dot
    BY <1>3, <1>7, <2>1
  <2>3. \A k \in (j + 1)..n : k \in i..n /\ k > i
    BY <1>1, <1>7
  <2>4. d \in ((j + 1) + 1)..n
    BY <1>1, <1>2, <1>7, <1>11, <2>2
  <2>5. DomainFrom(t, j + 1)
    BY <1>2, <1>3, <2>1, <2>2, <2>3, <2>4 DEF DomainFrom, n
  <2>6. QED BY <1>8, <1>9, <2>5
<1>12. QED BY <1>10, <1>11
LEMMA LabelsUnfold ==
    ASSUME NEW t \in Texts, NEW f, NEW i \in 1..(Len(t) + 1),
           \A j \in 1..(Len(t) + 1) : j > i => (f[j] <=> DomainFrom(t, j))
    PROVE  LabelsFrom(f, t, i) <=> DomainFrom(t, i)
<1>1. Len(t) \in Nat /\ \A j \in Positions(t, Dot) : j \in 1..Len(t)
  BY DEF Texts, Positions
<1>2. \A j \in Positions(t, Dot) : PartOf(t, i, j) => (f[j + 1] <=> DomainFrom(t, j + 1))
  <2>1. ASSUME NEW j \in Positions(t, Dot), PartOf(t, i, j)
        PROVE  j + 1 \in 1..(Len(t) + 1) /\ j + 1 > i
    BY <1>1, <2>1 DEF PartOf
  <2>2. QED BY <2>1
<1>3. ASSUME LabelsFrom(f, t, i) PROVE DomainFrom(t, i)
  <2>1. PICK j \in Positions(t, Dot) :
             /\ PartOf(t, i, j)
             /\ f[j + 1] \/ (Len(t) - j \in 2..4 /\ PartOf(t, j + 1, Len(t) + 1))
    BY <1>3 DEF LabelsFrom
  <2>2. CASE f[j + 1]
    BY <1>2, <2>1, <2>2, PartBeforeDomain
  <2>3. CASE Len(t) - j \in 2..4 /\ PartOf(t, j + 1, Len(t) + 1)
    BY <2>1, <2>3, LastParts
  <2>4. QED BY <2>1, <2>2, <2>3
<1>4. ASSUME DomainFrom(t, i) PROVE LabelsFrom(f, t, i)
  <2>1. PICK j \in Positions(t, Dot) :
             /\ PartOf(t, i, j)
             /\ \/ DomainFrom(t, j + 1)
                \/ Len(t) - j \in 2..4 /\ PartOf(t, j + 1, Len(t) + 1)
    BY <1>4, FirstPart
  <2>2. QED BY <1>2, <2>1 DEF LabelsFrom
<1>5. QED BY <1>3, <1>4

\* The expression accepts an address: a local part that is not empty, and a domain.
THEOREM UserNamesAreAddresses ==
    ASSUME NEW t \in Texts
    PROVE  MatchesUserName(t) <=>
             \E at \in Positions(t, At) \ {1} :
               /\ \A k \in 1..(at - 1) : t[k] \in Word \cup {Hyphen, Dot}
               /\ DomainFrom(t, at + 1)
<1> DEFINE D == 1..(Len(t) + 1)
           IsRest(f) == f = [i \in D |->
                \E j \in Positions(t, Dot) :
                  /\ i < j /\ \A k \in i..(j - 1) : t[k] \in Word \cup {Hyphen}
                  /\ \/ f[j + 1]
                     \/ /\ Len(t) - j \in 2..4
                        /\ j + 1 < Len(t) + 1
                        /\ \A k \in (j + 1)..((Len(t) + 1) - 1) : t[k] \in Word \cup {Hyphen}]
           rest == CHOOSE f : IsRest(f)
           domains == [i \in D |-> DomainFrom(t, i)]
<1>1. Len(t) \in Nat
  BY DEF Texts
<1>2. MatchesUserName(t) <=>
        \E at \in Positions(t, At) \ {1} :
          /\ \A k \in 1..(at - 1) : t[k] \in Word \cup {Hyphen, Dot}
          /\ rest[at + 1]
  BY DEF MatchesUserName
<1>3. ASSUME NEW f, NEW i \in D, \A j \in D : j > i => f[j] = domains[j]
      PROVE  LabelsFrom(f, t, i) = domains[i]
  <2>1. \A j \in D : j > i => (f[j] <=> DomainFrom(t, j))
    BY <1>3
  <2>2. LabelsFrom(f, t, i) <=> DomainFrom(t, i)
    BY <2>1, LabelsUnfold
  <2>3. LabelsFrom(f, t, i) \in BOOLEAN /\ DomainFrom(t, i) \in BOOLEAN
    BY DEF LabelsFrom, DomainFrom
  <2>4. QED BY <2>2, <2>3
<1>4. IsRest(domains)
  <2>1. \A i \in D : domains[i] = LabelsFrom(domains, t, i)
    BY <1>3
  <2>2. QED BY <2>1 DEF LabelsFrom, PartOf
<1>5. IsRest(rest)
  <2> HIDE DEF IsRest
  <2>1. QED BY <1>4
<1>6. ASSUME NEW i \in D PROVE rest[i] = LabelsFrom(rest, t, i)
  <2> HIDE DEF rest
  <2>1. QED BY <1>5, <1>6 DEF LabelsFrom, PartOf
<1>7. \A i \in D : rest[i] = domains[i]
  <2> HIDE DEF rest, domains
  <2>1. \A i \in D : (\A j \in D : j > i => rest[j] = domains[j]) => rest[i] = domains[i]
    BY <1>3, <1>6
  <2> DEFINE n == Len(t) + 1
  <2>2. n \in Nat
    BY <1>1
  <2>3. \A i \in 1..n : (\A j \in 1..n : j > i => rest[j] = domains[j]) => rest[i] = domains[i]
    BY <2>1
  <2> HIDE DEF n
  <2>4. \A i \in 1..n : rest[i] = domains[i]
    BY <2>2, <2>3, BackwardsUnique
  <2>5. QED BY <2>4 DEF n
<1>8. \A at \in Positions(t, At) : at + 1 \in D
  BY <1>1 DEF Positions, Texts
<1> HIDE DEF rest
<1>9. QED BY <1>2, <1>7, <1>8
-----------------------------------------------------------------------------
(***************************************************************************)
(* Addresses.                                                              *)
(***************************************************************************)
\* One @, and not at either end.
OneAt(t, at) == at \in 2..(Len(t) - 1) /\ Positions(t, At) = {at}

\* What the two rules demand of a text that is trimmed.
UserNameShape(t, at) ==
    /\ OneAt(t, at)
    /\ \A k \in 1..(at - 1) : t[k] \in Word \cup {Hyphen, Dot}
    /\ DomainFrom(t, at + 1)

EmailShape(t, at, d) ==
    /\ OneAt(t, at)
    /\ \A k \in 1..Len(t) : t[k] \notin White
    /\ t[1] # Dot /\ t[at + 1] # Dot
    /\ d \in (at + 2)..(Len(t) - 2) /\ t[d] = Dot
    /\ \A k \in (d + 1)..Len(t) : t[k] # Dot

LEMMA UserNameHasShape ==
    ASSUME NEW t \in Texts
    PROVE  ~ UserNameIsBroken(t) <=> \E at \in 1..Len(t) : UserNameShape(t, at)
<1> DEFINE n == Len(t)
<1>1. n \in Nat /\ DOMAIN t = 1..n
  BY DEF Texts
<1>2. ASSUME NEW at \in Positions(t, At) \ {1},
             \A k \in 1..(at - 1) : t[k] \in Word \cup {Hyphen, Dot}, DomainFrom(t, at + 1)
      PROVE  /\ UserNameShape(t, at) /\ ~ Blank(t) /\ ~ (n < 3)
  <2>1. at \in 1..n /\ at # 1 /\ t[at] = At /\ at + 1 <= n
    BY <1>1, <1>2 DEF Positions, DomainFrom
  <2>2. \A k \in (at + 1)..n : t[k] \in Word \cup {Hyphen, Dot}
    BY <1>2 DEF DomainFrom
  <2>3. \A c \in Word \cup {Hyphen, Dot} : c # At
    BY PunctuationIsNoWord
  <2>4. \A k \in 1..n : k # at => k \in 1..(at - 1) \/ k \in (at + 1)..n
    BY <1>1, <2>1
  <2>5. Positions(t, At) = {at}
    BY <1>1, <1>2, <2>1, <2>2, <2>3, <2>4 DEF Positions
  <2>6. at \in 2..(n - 1) /\ ~ (n < 3)
    BY <1>1, <2>1
  <2>7. ~ Blank(t)
    BY <1>1, <2>1, PunctuationIsNoWord DEF Blank
  <2>8. QED BY <1>2, <2>5, <2>6, <2>7 DEF UserNameShape, OneAt
<1>3. ASSUME NEW at \in 1..n, UserNameShape(t, at)
      PROVE  /\ at \in Positions(t, At) \ {1}
             /\ \A k \in 1..(at - 1) : t[k] \in Word \cup {Hyphen, Dot}
             /\ DomainFrom(t, at + 1)
  BY <1>1, <1>3 DEF UserNameShape, OneAt
<1>4. \A at \in Positions(t, At) : at \in 1..n
  BY <1>1 DEF Positions
<1>5. MatchesUserName(t) <=> \E at \in 1..n : UserNameShape(t, at)
  BY <1>2, <1>3, <1>4, UserNamesAreAddresses
<1>6. MatchesUserName(t) => ~ Blank(t) /\ ~ (n < 3)
  BY <1>2, UserNamesAreAddresses
<1>7. QED BY <1>5, <1>6 DEF UserNameIsBroken

LEMMA MaxOfOne == \A x : Max({x}) = x
  BY DEF Max

LEMMA LastDot ==
    ASSUME NEW t \in Texts, NEW at \in 1..Len(t)
    PROVE  LET dots == {d \in Positions(t, Dot) : d > at}
           IN dots # {} => /\ Max(dots) \in (at + 1)..Len(t) /\ t[Max(dots)] = Dot
                           /\ \A k \in (Max(dots) + 1)..Len(t) : t[k] # Dot
<1> DEFINE n == Len(t)
           dots == {d \in Positions(t, Dot) : d > at}
           m == Max(dots)
<1> SUFFICES ASSUME dots # {}
             PROVE  /\ m \in (at + 1)..n /\ t[m] = Dot
                    /\ \A k \in (m + 1)..n : t[k] # Dot
  OBVIOUS
<1>1. n \in Nat /\ DOMAIN t = 1..n
  BY DEF Texts
<1>2. dots \in SUBSET (1..n)
  BY <1>1 DEF Positions
<1>3. m \in dots /\ \A y \in dots : m >= y
  <2> HIDE DEF dots, n
  <2>1. QED BY <1>1, <1>2, GreatestOf
<1>4. m \in (at + 1)..n /\ t[m] = Dot
  BY <1>1, <1>2, <1>3 DEF Positions
<1>5. ASSUME NEW k \in (m + 1)..n, t[k] = Dot PROVE FALSE
  <2>1. k \in 1..n /\ k > at /\ ~ (m >= k)
    BY <1>1, <1>4
  <2>2. k \in dots
    BY <1>1, <1>5, <2>1 DEF Positions
  <2>3. QED BY <1>3, <2>1, <2>2
<1>6. QED BY <1>4, <1>5

LEMMA EmailHasShape ==
    ASSUME NEW t \in Texts
    PROVE  ~ EmailIsBroken(t) <=> \E at, d \in 1..Len(t) : EmailShape(t, at, d)
<1> DEFINE n == Len(t)
           dotsAfter(at) == {d \in Positions(t, Dot) : d > at}
<1>1. n \in Nat /\ DOMAIN t = 1..n
  BY DEF Texts
<1>2. ASSUME ~ EmailIsBroken(t)
      PROVE  \E at, d \in 1..n : EmailShape(t, at, d)
  <2>1. PICK at \in 2..(n - 1) : /\ Positions(t, At) = {at}
                                 /\ Dot \notin {t[1], t[at + 1]}
    BY <1>2 DEF EmailIsBroken, IsMailAddress
  <2>2. Max(Positions(t, At)) = at
    BY <2>1, MaxOfOne
  <2>3. dotsAfter(at) # {} /\ ~ (n - Max(dotsAfter(at)) < 2)
    BY <1>2, <2>2 DEF EmailIsBroken
  <2>4. at \in 1..n
    BY <1>1
  <2> DEFINE d == Max(dotsAfter(at))
  <2>5. d \in (at + 1)..n /\ t[d] = Dot /\ \A k \in (d + 1)..n : t[k] # Dot
    BY <2>3, <2>4, LastDot
  <2>6. ~ (n - d < 2)
    BY <2>3
  <2> HIDE DEF d
  <2>7. d # at + 1
    BY <2>1, <2>5
  <2>8. d \in (at + 2)..(n - 2) /\ d \in 1..n
    BY <1>1, <2>1, <2>5, <2>6, <2>7
  <2>9. \A k \in 1..n : t[k] \notin White
    BY <1>1, <1>2 DEF EmailIsBroken, IsMailAddress
  <2>10. EmailShape(t, at, d)
    BY <2>1, <2>5, <2>8, <2>9 DEF EmailShape, OneAt
  <2>11. QED BY <2>4, <2>8, <2>10
<1>3. ASSUME NEW at \in 1..n, NEW d \in 1..n, EmailShape(t, at, d)
      PROVE  ~ EmailIsBroken(t)
  <2>1. at \in 2..(n - 1) /\ Positions(t, At) = {at}
    BY <1>3 DEF EmailShape, OneAt
  <2>2. IsMailAddress(t)
    BY <1>1, <1>3, <2>1 DEF IsMailAddress, EmailShape
  <2>3. Max(Positions(t, At)) = at
    BY <2>1, MaxOfOne
  <2>4. d \in dotsAfter(at) /\ d <= n - 2
    BY <1>1, <1>3, <2>1 DEF EmailShape, Positions
  <2> DEFINE m == Max(dotsAfter(at))
  <2>5. m \in (at + 1)..n /\ t[m] = Dot
    BY <2>4, LastDot
  <2> HIDE DEF m
  <2>6. m <= n - 2
    <3>1. SUFFICES ASSUME m > n - 2 PROVE FALSE
      BY <1>1, <2>5
    <3>2. m \in (d + 1)..n
      BY <1>1, <2>4, <2>5, <3>1
    <3>3. QED BY <1>3, <2>5, <3>2 DEF EmailShape
  <2>7. ~ (n - m < 2)
    BY <1>1, <2>5, <2>6
  <2>8. QED BY <2>2, <2>3, <2>4, <2>7 DEF EmailIsBroken, m
<1>4. QED BY <1>2, <1>3
\* An address that is one once it is trimmed passes the validator.
LEMMA ValidatorTakesAddresses ==
    ASSUME NEW t \in Texts, NEW at, OneAt(Trim(t), at)
    PROVE  EmailAddress(t)
<1> DEFINE u == Trim(t)
<1>1. Len(t) \in Nat /\ DOMAIN t = 1..Len(t)
  BY DEF Texts
<1>2. u \in Texts /\ Len(u) \in Nat /\ DOMAIN u = 1..Len(u)
  BY Trimmed DEF Texts
<1>3. at \in 2..(Len(u) - 1) /\ u[at] = At /\ \A i \in 1..Len(u) : u[i] = At => i = at
  BY <1>2 DEF OneAt, Positions
<1>4. Ink(t) # {}
  <2>1. u # <<>>
    BY <1>2, <1>3
  <2>2. QED BY <2>1, TrimCuts
<1>5. PICK m \in 1..Len(t), n \in 1..Len(t) : CutFrom(t, m, n)
  BY <1>4, TrimCuts
<1>6. /\ m <= n /\ \A i \in Ink(t) : m <= i /\ i <= n
      /\ Len(u) = n - m + 1 /\ \A i \in 1..(n - m + 1) : u[i] = t[m + i - 1]
  BY <1>5 DEF CutFrom
<1> HIDE DEF u
<1>7. m + at - 1 \in 2..(Len(t) - 1) /\ t[m + at - 1] = At
  BY <1>1, <1>3, <1>6
<1>8. ASSUME NEW i \in 1..Len(t), t[i] = At PROVE i = m + at - 1
  <2>1. i \in Ink(t)
    BY <1>1, <1>8, PunctuationIsNoWord DEF Ink
  <2>2. i - m + 1 \in 1..Len(u) /\ m + (i - m + 1) - 1 = i
    BY <1>1, <1>6, <2>1
  <2>3. u[i - m + 1] = At
    BY <1>6, <1>8, <2>2
  <2>4. i - m + 1 = at
    BY <1>3, <2>2, <2>3
  <2>5. QED BY <1>1, <1>3, <2>4
<1>9. m + at - 1 \in 1..Len(t)
  BY <1>1, <1>7
<1>10. Positions(t, At) = {m + at - 1}
  BY <1>1, <1>7, <1>8, <1>9 DEF Positions
<1>11. ~ Blank(t)
  BY <1>1, <1>7, <1>9, PunctuationIsNoWord DEF Blank
<1>12. QED BY <1>7, <1>10, <1>11 DEF EmailAddress

\* A user name that is no e-mail starts with a dot.
LEMMA UserNameNoEmail ==
    ASSUME NEW t \in Texts, NEW at \in 1..Len(t), UserNameShape(t, at),
           \A d \in 1..Len(t) : ~ EmailShape(t, at, d)
    PROVE  t[1] = Dot
<1> DEFINE n == Len(t)
<1>1. n \in Nat /\ DOMAIN t = 1..n /\ at \in 2..(n - 1) /\ t[at] = At
  BY DEF Texts, UserNameShape, OneAt, Positions
<1>2. PICK d \in (at + 2)..n : /\ t[d] = Dot /\ n - d \in 2..4
                               /\ \A k \in (d + 1)..n : t[k] # Dot
  <2>1. (at + 1) + 1 = at + 2
    BY <1>1
  <2>2. QED BY <2>1 DEF UserNameShape, DomainFrom
<1>3. ASSUME NEW k \in 1..n PROVE t[k] \notin White
  <2>1. k \in 1..(at - 1) \/ k = at \/ k \in (at + 1)..n
    BY <1>1
  <2>2. t[k] \in Word \cup {Hyphen, Dot, At}
    BY <1>1, <2>1 DEF UserNameShape, DomainFrom
  <2>3. QED BY <2>2, PunctuationIsNoWord
<1>4. t[at + 1] # Dot
  BY DEF UserNameShape, DomainFrom
<1>5. d \in (at + 2)..(n - 2) /\ d \in 1..n
  <2> HIDE DEF n
  <2>1. d \in Nat /\ at + 2 <= d /\ d <= n /\ 2 <= n - d
    BY <1>1, <1>2
  <2>2. d <= n - 2 /\ n - 2 \in Int
    BY <1>1, <2>1
  <2>3. QED BY <1>1, <2>1, <2>2
<1>6. QED BY <1>2, <1>3, <1>4, <1>5 DEF EmailShape, UserNameShape

\* An e-mail that is no user name has a symbol, an empty part or a long last part.
LEMMA EmailNoUserName ==
    ASSUME NEW t \in Texts, NEW at \in 1..Len(t), NEW d \in 1..Len(t), EmailShape(t, at, d),
           ~ UserNameShape(t, at)
    PROVE  \/ Has(t, Symbols)
           \/ \E k \in (at + 1)..Len(t) : t[k] = Dot /\ k + 1 \in 1..Len(t) /\ t[k + 1] = Dot
           \/ Len(t) - d > 4
<1> DEFINE n == Len(t)
<1> SUFFICES ASSUME ~ Has(t, Symbols), ~ (n - d > 4),
                    \A k \in (at + 1)..n : t[k] = Dot /\ k + 1 \in 1..n => t[k + 1] # Dot
             PROVE  UserNameShape(t, at)
  OBVIOUS
<1>1. n \in Nat /\ DOMAIN t = 1..n /\ at \in 2..(n - 1) /\ Positions(t, At) = {at}
  BY DEF Texts, EmailShape, OneAt
<1>2. /\ d \in (at + 2)..(n - 2) /\ t[d] = Dot /\ t[at + 1] # Dot
      /\ \A k \in (d + 1)..n : t[k] # Dot
  BY DEF EmailShape
<1>3. ASSUME NEW k \in 1..n, k # at PROVE t[k] \in Word \cup {Hyphen, Dot}
  <2>1. t[k] \in Chars /\ t[k] \notin White /\ t[k] \notin Symbols
    BY <1>1 DEF Texts, EmailShape, Has
  <2>2. t[k] # At
    BY <1>1, <1>3 DEF Positions
  <2>3. QED BY <2>1, <2>2, AddressesAssumption DEF Punctuation
<1>4. ASSUME NEW k \in (at + 1)..n, k > at + 1, t[k] = Dot PROVE t[k - 1] # Dot
  <2>1. k - 1 \in (at + 1)..n /\ (k - 1) + 1 = k /\ k \in 1..n
    BY <1>1, <1>4
  <2>2. QED BY <1>4, <2>1
<1>5. \A k \in (at + 1)..n : k \in 1..n /\ k # at
  BY <1>1
<1>6. at + 1 <= n /\ d \in ((at + 1) + 1)..n /\ n - d \in 2..4
  <2> HIDE DEF n
  <2>1. d \in Nat /\ at + 2 <= d /\ d <= n - 2
    BY <1>1, <1>2
  <2>2. n - d \in Int /\ 2 <= n - d /\ n - d <= 4
    <3>1. ~ (n - d > 4)
      OBVIOUS
    <3>2. QED BY <1>1, <2>1, <3>1
  <2>3. QED BY <1>1, <2>1, <2>2
<1>7. DomainFrom(t, at + 1)
  BY <1>2, <1>3, <1>4, <1>5, <1>6 DEF DomainFrom
<1>8. \A k \in 1..(at - 1) : k \in 1..n /\ k # at
  BY <1>1
<1>9. QED BY <1>3, <1>7, <1>8 DEF UserNameShape, EmailShape
LEMMA DisagreementIsKnown == TextInv => RulesDisagree
<1> DEFINE t == Trim(text)
           n == Len(t)
           at == Max(Positions(t, At))
           dots == {d \in Positions(t, Dot) : d > at}
<1> SUFFICES ASSUME TextInv, field = "email", IsEmail(text) # IsUserName(text)
             PROVE  /\ Flaw = "rule"
                    /\ IsUserName(text) => t[1] = Dot
                    /\ IsEmail(text) =>
                         \/ Has(t, Symbols)
                         \/ \E d \in dots : d + 1 \in dots
                         \/ n - Max(dots) > 4
  BY DEF RulesDisagree
<1>1. text \in Texts /\ t \in Texts /\ n \in Nat /\ DOMAIN t = 1..n
  BY Trimmed DEF TextInv, Texts
<1>2. IsEmail(text) <=> \E a, d \in 1..n : EmailShape(t, a, d)
  BY <1>1, EmailHasShape DEF IsEmail
<1>3. IsUserName(text) <=> \E a \in 1..n : UserNameShape(t, a)
  BY <1>1, UserNameHasShape DEF IsUserName
<1>4. ~ (IsEmail(text) <=> IsUserName(text))
  BY DEF IsEmail, IsUserName
<1> HIDE DEF t, n, at, dots
<1>5. \E a \in 1..n : OneAt(t, a)
  BY <1>2, <1>3, <1>4 DEF EmailShape, UserNameShape
<1>6. EmailAddress(text)
  BY <1>1, <1>5, ValidatorTakesAddresses DEF t
<1>7. Flaw = "rule"
  <2>1. PassesValidator
    BY <1>6 DEF PassesValidator
  <2>2. ~ PassesRules
    BY <1>4 DEF PassesRules
  <2>3. QED BY <2>1, <2>2 DEF Flaw
<1>8. ASSUME IsUserName(text) PROVE t[1] = Dot
  <2>1. PICK a \in 1..n : UserNameShape(t, a)
    BY <1>3, <1>8
  <2>2. \A d \in 1..n : ~ EmailShape(t, a, d)
    BY <1>2, <1>4, <1>8
  <2>3. QED BY <1>1, <2>1, <2>2, UserNameNoEmail DEF n
<1>9. ASSUME IsEmail(text)
      PROVE  \/ Has(t, Symbols)
             \/ \E d \in dots : d + 1 \in dots
             \/ n - Max(dots) > 4
  <2>1. PICK a \in 1..n, d \in 1..n : EmailShape(t, a, d)
    BY <1>2, <1>9
  <2>2. ~ UserNameShape(t, a)
    BY <1>3, <1>4, <1>9
  <2>3. at = a
    BY <2>1, MaxOfOne DEF EmailShape, OneAt, at
  <2>4. /\ a \in 2..(n - 1) /\ d \in (a + 2)..(n - 2) /\ t[d] = Dot
        /\ \A k \in (d + 1)..n : t[k] # Dot
    BY <2>1 DEF EmailShape, OneAt, n
  <2>5. d \in dots
    BY <1>1, <2>3, <2>4 DEF dots, Positions
  <2>6. /\ Max(dots) \in (a + 1)..n /\ t[Max(dots)] = Dot
        /\ \A k \in (Max(dots) + 1)..n : t[k] # Dot
    BY <1>1, <2>3, <2>5, LastDot DEF dots, n
  <2>7. Max(dots) = d
    <3> DEFINE m == Max(dots)
    <3>1. m \in (a + 1)..n /\ t[m] = Dot /\ \A k \in (m + 1)..n : t[k] # Dot
      BY <2>6
    <3> HIDE DEF m
    <3>2. ~ (m \in (d + 1)..n) /\ ~ (d \in (m + 1)..n)
      BY <2>4, <3>1
    <3>3. m = d
      BY <1>1, <2>4, <3>1, <3>2
    <3>4. QED BY <3>3 DEF m
  <2>8. ASSUME NEW k \in (a + 1)..n, t[k] = Dot, k + 1 \in 1..n, t[k + 1] = Dot
        PROVE  k \in dots /\ k + 1 \in dots
    BY <1>1, <2>3, <2>4, <2>8 DEF dots, Positions
  <2>9. \/ Has(t, Symbols)
        \/ \E k \in (a + 1)..n : t[k] = Dot /\ k + 1 \in 1..n /\ t[k + 1] = Dot
        \/ n - d > 4
    BY <1>1, <2>1, <2>2, EmailNoUserName DEF n
  <2>10. QED BY <2>7, <2>8, <2>9
<1>10. QED BY <1>7, <1>8, <1>9

\* What is typed and is no white space stays when the text is trimmed, and nothing
\* else is in it.
LEMMA TrimKeepsInk ==
    ASSUME NEW t \in Texts, NEW S \in SUBSET (Chars \ White)
    PROVE  Has(Trim(t), S) <=> Has(t, S)
<1>1. Len(t) \in Nat /\ DOMAIN t = 1..Len(t)
  BY DEF Texts
<1>2. CASE Ink(t) = {}
  <2>1. Trim(t) = <<>>
    BY <1>2, TrimCuts
  <2>2. ~ Has(Trim(t), S)
    BY <2>1 DEF Has
  <2>3. ~ Has(t, S)
    BY <1>2 DEF Has, Ink
  <2>4. QED BY <2>2, <2>3
<1>3. CASE Ink(t) # {}
  <2> DEFINE u == Trim(t)
  <2>1. PICK m \in 1..Len(t), n \in 1..Len(t) : CutFrom(t, m, n)
    BY <1>3, TrimCuts
  <2>2. /\ m <= n /\ \A i \in Ink(t) : m <= i /\ i <= n
        /\ Len(u) = n - m + 1 /\ \A i \in 1..(n - m + 1) : u[i] = t[m + i - 1]
        /\ u \in Texts
    BY <2>1 DEF CutFrom
  <2>3. DOMAIN u = 1..(n - m + 1)
    BY <2>2 DEF Texts
  <2> HIDE DEF u
  <2>4. ASSUME NEW i \in 1..(n - m + 1), u[i] \in S PROVE Has(t, S)
    <3>1. m + i - 1 \in 1..Len(t)
      BY <1>1
    <3>2. QED BY <1>1, <2>2, <2>4, <3>1 DEF Has
  <2>5. ASSUME NEW i \in 1..Len(t), t[i] \in S PROVE Has(u, S)
    <3>1. i \in Ink(t)
      BY <1>1, <2>5 DEF Ink
    <3>2. i - m + 1 \in 1..(n - m + 1) /\ m + (i - m + 1) - 1 = i
      BY <1>1, <2>2, <3>1
    <3>3. u[i - m + 1] = t[i]
      BY <2>2, <3>2
    <3>4. QED BY <2>3, <2>5, <3>2, <3>3 DEF Has
  <2>6. Has(u, S) <=> Has(t, S)
    BY <1>1, <2>3, <2>4, <2>5 DEF Has
  <2>7. QED BY <2>6 DEF u
<1>4. QED BY <1>2, <1>3

LEMMA IdentityKnowsAscii == TextInv => IdentityGap
<1> SUFFICES ASSUME TextInv, PassesValidator, PassesRules
             PROVE  ~ PassesIdentity <=>
                      \/ field = "email" /\ Has(text, Word \ Ascii)
                      \/ field = "password" /\ Has(text, Digits) /\ ~ Has(text, AsciiDigits)
  BY DEF IdentityGap, Flaw
<1>1. text \in Texts /\ Len(text) \in Nat /\ DOMAIN text = 1..Len(text)
  BY DEF TextInv, Texts
<1>2. CASE field = "name"
  BY <1>2 DEF PassesIdentity
<1>3. CASE field = "email"
  <2> DEFINE t == Trim(text)
  <2>1. t \in Texts /\ DOMAIN t = 1..Len(t) /\ Len(t) \in Nat
    BY <1>1, Trimmed DEF Texts
  <2>2. IsUserName(text)
    BY <1>3 DEF PassesRules
  <2>3. PICK at \in 1..Len(t) : UserNameShape(t, at)
    BY <2>1, <2>2, UserNameHasShape DEF IsUserName
  <2>4. Word \ Ascii \in SUBSET (Chars \ White)
    BY AddressesAssumption
  <2>5. Has(t, Word \ Ascii) <=> Has(text, Word \ Ascii)
    BY <1>1, <2>4, TrimKeepsInk
  <2>6. PassesIdentity <=> \A i \in DOMAIN t : t[i] \in Ascii \cup {Plus} \cup Punctuation
    BY <1>3 DEF PassesIdentity
  <2> HIDE DEF t
  <2>7. \A i \in DOMAIN t : t[i] \in Word \cup Punctuation
    <3>1. at \in 2..(Len(t) - 1) /\ t[at] = At
      BY <2>1, <2>3 DEF UserNameShape, OneAt, Positions
    <3>2. \A i \in 1..Len(t) : i \in 1..(at - 1) \/ i = at \/ i \in (at + 1)..Len(t)
      BY <2>1, <3>1
    <3>3. \A i \in 1..Len(t) : t[i] \in Word \cup {Hyphen, Dot} \/ t[i] = At
      BY <2>3, <3>1, <3>2 DEF UserNameShape, DomainFrom
    <3>4. QED BY <2>1, <3>3 DEF Punctuation
  <2>8. \A c \in Word : c # Plus /\ c \notin Punctuation
    BY AddressesAssumption, RegisterInputAssumption
  <2>9. PassesIdentity <=> ~ Has(t, Word \ Ascii)
    BY <2>6, <2>7, <2>8 DEF Has
  <2>10. QED BY <1>3, <2>5, <2>9
<1>4. CASE field = "password"
  <2>1. /\ ~ (Len(text) < 6) /\ Has(text, Upper26) /\ Has(text, Lower26) /\ Has(text, Digits)
        /\ Has(text, Chars \ (Upper26 \cup Lower26 \cup Digits))
    BY <1>1, <1>4 DEF PassesValidator, PasswordMatches
  <2>2. Len(text) >= 6
    BY <1>1, <2>1
  <2>3. Has(text, Chars \ (Upper26 \cup Lower26 \cup AsciiDigits))
    BY <2>1, RegisterInputAssumption DEF Has
  <2>4. PassesIdentity <=> Has(text, AsciiDigits)
    BY <1>4, <2>1, <2>2, <2>3 DEF PassesIdentity
  <2>5. QED BY <1>4, <2>1, <2>4
<1>5. QED BY <1>2, <1>3, <1>4 DEF TextInv, Fields

-----------------------------------------------------------------------------
(***************************************************************************)
(* The theorems.                                                           *)
(***************************************************************************)
\* The expression of names accepts words with single spaces, and nothing else but a
\* final newline (NameMustBeValidRule), however long the text.
THEOREM NamesAreWords == Spec => []MatchesWords
  BY TextsAreTyped, WordsHold, PTL

\* The only names that get past RegisterUserCommandValidator and break the rule of Name
\* are those that lose their third character when they are trimmed.
THEOREM NamesAreOnlyTooShort == Spec => []ValidatorGap
  BY TextsAreTyped, OnlyLengthBreaks, PTL

\* Email and UserName disagree in the known cases only, and all of them get past the
\* validator and end in 500.
THEOREM DisagreementsAreKnown == Spec => []RulesDisagree
  BY TextsAreTyped, DisagreementIsKnown, PTL

\* What passes the repository's own gates and not Identity's is exactly what has a letter,
\* or its only digits, outside ASCII.
THEOREM IdentityRefusesNonAscii == Spec => []IdentityGap
  BY TextsAreTyped, IdentityKnowsAscii, PTL
=============================================================================
