------------------------------ MODULE NamesProofs ------------------------------
(***************************************************************************)
(* Theorems about Names, for any alphabet: what Trim does to a text, the   *)
(* equality of names, and which texts the rule of names accepts.           *)
(***************************************************************************)
EXTENDS Names, WellFoundedInduction, SequenceTheorems, TLAPS

(***************************************************************************)
(* Least and greatest elements.                                            *)
(***************************************************************************)
LEMMA LeastNatural ==
    ASSUME NEW T \in SUBSET Nat, T # {}
    PROVE  \E x \in T : \A y \in T : x <= y
<1> DEFINE R == {ss \in Nat \X Nat : ss[1] < ss[2]}
<1>1. IsWellFoundedOn(R, Nat)
  BY NatLessThanWellFounded DEF OpToRel
<1>2. PICK x \in T : \A y \in T : ~ (<<y, x>> \in R)
  BY <1>1, WFMin
<1>3. ASSUME NEW y \in T PROVE x <= y
  <2>1. <<y, x>> \notin R /\ <<y, x>> \in Nat \X Nat
    BY <1>2
  <2>2. ~ (y < x)
    BY <2>1
  <2>3. QED BY <2>2
<1>4. QED BY <1>3

LEMMA LeastOf ==
    ASSUME NEW T \in SUBSET Nat, T # {}
    PROVE  Min(T) \in T /\ \A y \in T : Min(T) <= y
  BY LeastNatural DEF Min

LEMMA GreatestOf ==
    ASSUME NEW n \in Nat, NEW T \in SUBSET (1..n), T # {}
    PROVE  Max(T) \in T /\ \A y \in T : Max(T) >= y
<1>0. \A y \in T : y \in 1..n /\ n - y \in Nat
  OBVIOUS
<1> DEFINE D == {n - y : y \in T}
<1>1. D \in SUBSET Nat /\ D # {}
  BY <1>0
<1>2. PICK d \in D : \A e \in D : d <= e
  BY <1>1, LeastNatural
<1>3. PICK x \in T : d = n - x
  OBVIOUS
<1>4. ASSUME NEW y \in T PROVE x >= y
  <2>1. n - y \in D
    OBVIOUS
  <2>2. n - x <= n - y
    BY <1>2, <1>3, <2>1
  <2>3. x \in Nat /\ y \in Nat
    BY <1>0
  <2>4. QED BY <2>2, <2>3
<1>5. QED BY <1>4 DEF Max

(***************************************************************************)
(* Trim.                                                                   *)
(***************************************************************************)
Ink(t) == {i \in DOMAIN t : t[i] \notin White}

\* Trim cuts out the part from the first to the last position with ink.
CutFrom(t, m, n) ==
    /\ m \in Ink(t) /\ n \in Ink(t) /\ m <= n
    /\ \A i \in Ink(t) : m <= i /\ i <= n
    /\ Trim(t) \in Texts
    /\ Len(Trim(t)) = n - m + 1
    /\ \A i \in 1..(n - m + 1) : Trim(t)[i] = t[m + i - 1]

LEMMA TrimCuts ==
    ASSUME NEW t \in Texts
    PROVE  IF Ink(t) = {} THEN Trim(t) = <<>>
           ELSE \E m, n \in 1..Len(t) : CutFrom(t, m, n)
<1>1. Len(t) \in Nat /\ DOMAIN t = 1..Len(t) /\ \A i \in 1..Len(t) : t[i] \in Chars
  BY DEF Texts
<1>2. CASE Ink(t) = {}
  BY <1>2 DEF Trim, Ink
<1>3. CASE Ink(t) # {}
  <2> DEFINE m == Min(Ink(t))
             n == Max(Ink(t))
  <2>1. Ink(t) \in SUBSET (1..Len(t)) /\ Ink(t) \in SUBSET Nat
    BY <1>1 DEF Ink
  <2>2. m \in Ink(t) /\ n \in Ink(t) /\ m <= n
    BY <1>1, <1>3, <2>1, LeastOf, GreatestOf
  <2>3. \A i \in Ink(t) : m <= i /\ i <= n
    BY <1>1, <1>3, <2>1, LeastOf, GreatestOf
  <2>4. m \in 1..Len(t) /\ n \in 1..Len(t)
    BY <2>1, <2>2
  <2>5. Trim(t) = SubSeq(t, m, n)
    BY <1>3 DEF Trim, Ink
  <2> HIDE DEF m, n
  <2>6. \A i \in m..n : t[i] \in Chars
    BY <1>1, <2>4
  <2>7. /\ Trim(t) \in Seq(Chars) /\ Len(Trim(t)) = n - m + 1
        /\ \A i \in 1..(n - m + 1) : Trim(t)[i] = t[m + i - 1]
    BY <2>2, <2>4, <2>5, <2>6, SubSeqProperties
  <2>8. CutFrom(t, m, n)
    BY <2>2, <2>3, <2>7 DEF CutFrom, Texts
  <2>9. QED BY <1>3, <2>4, <2>8
<1>4. QED BY <1>2, <1>3

\* Trim gives the empty text, or one with ink at both ends.
LEMMA Trimmed ==
    ASSUME NEW t \in Texts
    PROVE  /\ Trim(t) \in Texts
           /\ Trim(t) # <<>> =>
                /\ Len(Trim(t)) \in Nat \ {0}
                /\ Trim(t)[1] \notin White
                /\ Trim(t)[Len(Trim(t))] \notin White
<1>1. CASE Ink(t) = {}
  <2>1. Trim(t) = <<>>
    BY <1>1, TrimCuts
  <2>2. QED BY <2>1 DEF Texts
<1>2. CASE Ink(t) # {}
  <2>1. PICK m \in 1..Len(t), n \in 1..Len(t) : CutFrom(t, m, n)
    BY <1>2, TrimCuts
  <2>2. Len(t) \in Nat
    BY DEF Texts
  <2>3. t[m] \notin White /\ t[n] \notin White
    BY <2>1 DEF CutFrom, Ink
  <2>4. Trim(t)[1] = t[m] /\ Trim(t)[Len(Trim(t))] = t[n]
    BY <2>1, <2>2 DEF CutFrom
  <2>5. QED BY <2>1, <2>2, <2>3, <2>4 DEF CutFrom
<1>3. QED BY <1>1, <1>2

\* A text with ink at both ends stays as it is.
LEMMA TrimKeeps ==
    ASSUME NEW t \in Texts,
           t # <<>> => /\ Len(t) \in Nat \ {0}
                       /\ t[1] \notin White
                       /\ t[Len(t)] \notin White
    PROVE  Trim(t) = t
<1>1. Len(t) \in Nat /\ DOMAIN t = 1..Len(t)
  BY DEF Texts
<1>2. CASE t = <<>>
  <2>1. Ink(t) = {}
    BY <1>2 DEF Ink
  <2>2. QED BY <1>2, <2>1 DEF Trim, Ink
<1>3. CASE t # <<>>
  <2> DEFINE m == Min(Ink(t))
             n == Max(Ink(t))
  <2>1. 1 \in Ink(t) /\ Len(t) \in Ink(t)
    BY <1>1, <1>3 DEF Ink
  <2>2. Ink(t) \in SUBSET (1..Len(t)) /\ Ink(t) \in SUBSET Nat
    BY <1>1 DEF Ink
  <2>3. m \in Ink(t) /\ n \in Ink(t) /\ m <= 1 /\ n >= Len(t)
    BY <1>1, <2>1, <2>2, LeastOf, GreatestOf
  <2>4. m = 1 /\ n = Len(t)
    BY <1>1, <2>2, <2>3
  <2>5. Trim(t) = SubSeq(t, 1, Len(t))
    BY <2>1, <2>4 DEF Trim, Ink
  <2>6. QED BY <2>5, SubSeqFull DEF Texts
<1>4. QED BY <1>2, <1>3

\* What is trimmed once is trimmed.
THEOREM TrimIdempotent ==
    ASSUME NEW t \in Texts
    PROVE  Trim(Trim(t)) = Trim(t)
  BY Trimmed, TrimKeeps

(***************************************************************************)
(* The equality of names.                                                  *)
(***************************************************************************)
LEMMA SameNameIsReflexive ==
    ASSUME NEW t \in Texts
    PROVE  SameName(t, t)
  BY DEF SameName

LEMMA SameNameIsSymmetric ==
    ASSUME NEW t \in Texts, NEW u \in Texts, SameName(t, u)
    PROVE  SameName(u, t)
<1>1. Len(t) = Len(u) /\ DOMAIN t = 1..Len(t) /\ DOMAIN u = 1..Len(u)
  BY DEF SameName, Texts
<1>2. QED BY <1>1 DEF SameName
-----------------------------------------------------------------------------
(***************************************************************************)
(* The expression of NameMustBeValidRule.                                  *)
(***************************************************************************)
\* The last position that a final newline leaves to the words.
LastOf(t) == IF t # <<>> /\ t[Len(t)] = Newline THEN Len(t) - 1 ELSE Len(t)

\* From position i on, t consists of words with one space behind each at most.
WordsFrom(t, i) ==
    \A k \in i..LastOf(t) :
        /\ t[k] \in Letters \cup {Space}
        /\ t[k] = Space => k > i /\ t[k - 1] # Space

\* What the expression says of the text from position i on, when f says it of what
\* comes later.
MatchesFrom(f, t, i) ==
    \/ i = Len(t) + 1
    \/ i = Len(t) /\ t[i] = Newline
    \/ \E j \in (i + 1)..(Len(t) + 1) :
         /\ \A k \in i..(j - 1) : t[k] \in Letters
         /\ f[j] \/ (j <= Len(t) /\ t[j] = Space /\ f[j + 1])

\* Two functions that are built alike from the last position to the first are one.
LEMMA BackwardsUnique ==
    ASSUME NEW n \in Nat, NEW f, NEW g,
           \A i \in 1..n : (\A j \in 1..n : j > i => f[j] = g[j]) => f[i] = g[i]
    PROVE  \A i \in 1..n : f[i] = g[i]
<1> DEFINE T == {m \in Nat : \E i \in 1..n : m = n - i /\ f[i] # g[i]}
<1> SUFFICES ASSUME NEW h \in 1..n, f[h] # g[h] PROVE FALSE
  OBVIOUS
<1>0. n - h \in T
  OBVIOUS
<1>1. PICK m \in T : \A k \in T : m <= k
  BY <1>0, LeastNatural
<1>2. PICK i \in 1..n : m = n - i /\ f[i] # g[i]
  OBVIOUS
<1>3. ASSUME NEW j \in 1..n, j > i PROVE f[j] = g[j]
  <2>1. n - j \in Nat /\ ~ (m <= n - j)
    BY <1>2, <1>3
  <2>2. QED BY <1>1, <2>1
<1>4. QED BY <1>2, <1>3

LEMMA LastOfText ==
    ASSUME NEW t \in Texts
    PROVE  /\ Len(t) \in Nat /\ DOMAIN t = 1..Len(t)
           /\ LastOf(t) \in Nat /\ LastOf(t) <= Len(t) /\ Len(t) <= LastOf(t) + 1
           /\ LastOf(t) < Len(t) => Len(t) >= 1 /\ t[Len(t)] = Newline
  BY DEF Texts, LastOf

\* The words from i on are letters, and then either words or a space and words.
LEMMA WordsUnfold ==
    ASSUME NEW t \in Texts, NEW f, NEW i \in 1..(Len(t) + 1),
           \A j \in 1..(Len(t) + 1) : j > i => (f[j] <=> WordsFrom(t, j))
    PROVE  MatchesFrom(f, t, i) <=> WordsFrom(t, i)
<1> DEFINE n == Len(t)
           m == LastOf(t)
<1>1. n \in Nat /\ m \in Nat /\ m <= n /\ n <= m + 1 /\ i \in Nat /\ 1 <= i /\ i <= n + 1
  BY LastOfText
<1>2. m < n => t[n] = Newline
  BY LastOfText
<1>3. \A c \in Letters : c # Space /\ c # Newline
  BY NamesAssumption DEF White
<1> HIDE DEF n, m
<1>4. ASSUME NEW j \in (i + 1)..(n + 1), \A k \in i..(j - 1) : t[k] \in Letters, WordsFrom(t, j)
      PROVE  WordsFrom(t, i)
  <2>1. ASSUME NEW k \in i..m
        PROVE  t[k] \in Letters \cup {Space} /\ (t[k] = Space => k > i /\ t[k - 1] # Space)
    <3>1. CASE k < j
      <4>1. k \in i..(j - 1)
        BY <1>1, <3>1
      <4>2. QED BY <1>3, <1>4, <4>1
    <3>2. CASE k >= j
      <4>1. k \in j..m /\ k > i
        BY <1>1, <3>2
      <4>2. QED BY <1>4, <4>1 DEF WordsFrom, m
    <3>3. QED BY <1>1, <3>1, <3>2
  <2>2. QED BY <2>1 DEF WordsFrom, m
<1>5. ASSUME NEW j \in (i + 1)..(n + 1), \A k \in i..(j - 1) : t[k] \in Letters,
             j <= n, t[j] = Space, WordsFrom(t, j + 1)
      PROVE  WordsFrom(t, i)
  <2>1. ASSUME NEW k \in i..m
        PROVE  t[k] \in Letters \cup {Space} /\ (t[k] = Space => k > i /\ t[k - 1] # Space)
    <3>1. CASE k < j
      <4>1. k \in i..(j - 1)
        BY <1>1, <3>1
      <4>2. QED BY <1>3, <1>5, <4>1
    <3>2. CASE k = j
      <4>1. k - 1 \in i..(j - 1) /\ k > i
        BY <1>1, <3>2
      <4>2. t[k - 1] # Space
        BY <1>3, <1>5, <4>1
      <4>3. QED BY <1>5, <3>2, <4>1, <4>2
    <3>3. CASE k > j
      <4>1. k \in (j + 1)..m /\ k > i
        BY <1>1, <3>3
      <4>2. QED BY <1>5, <4>1 DEF WordsFrom, m
    <3>4. QED BY <1>1, <3>1, <3>2, <3>3
  <2>2. QED BY <2>1 DEF WordsFrom, m
<1>6. MatchesFrom(f, t, i) => WordsFrom(t, i)
  <2>1. CASE i = n + 1
    <3>1. \A k \in i..m : FALSE
      BY <1>1, <2>1
    <3>2. QED BY <3>1 DEF WordsFrom, m
  <2>2. CASE i = n /\ t[i] = Newline
    <3>1. t # <<>> /\ m = n - 1
      BY <1>1, <2>2 DEF LastOf, m, n, Texts
    <3>2. \A k \in i..m : FALSE
      BY <1>1, <2>2, <3>1
    <3>3. QED BY <3>2 DEF WordsFrom, m
  <2>3. CASE \E j \in (i + 1)..(n + 1) :
               /\ \A k \in i..(j - 1) : t[k] \in Letters
               /\ f[j] \/ (j <= n /\ t[j] = Space /\ f[j + 1])
    <3>1. PICK j \in (i + 1)..(n + 1) :
               /\ \A k \in i..(j - 1) : t[k] \in Letters
               /\ f[j] \/ (j <= n /\ t[j] = Space /\ f[j + 1])
      BY <2>3
    <3>2. CASE f[j]
      <4>1. j \in 1..(n + 1) /\ j > i
        BY <1>1
      <4>2. WordsFrom(t, j)
        BY <3>2, <4>1 DEF n
      <4>3. QED BY <1>4, <3>1, <4>2
    <3>3. CASE j <= n /\ t[j] = Space /\ f[j + 1]
      <4>1. j + 1 \in 1..(n + 1) /\ j + 1 > i
        BY <1>1, <3>3
      <4>2. WordsFrom(t, j + 1)
        BY <3>3, <4>1 DEF n
      <4>3. QED BY <1>5, <3>1, <3>3, <4>2
    <3>4. QED BY <3>1, <3>2, <3>3
  <2>4. QED BY <2>1, <2>2, <2>3 DEF MatchesFrom, n
<1>7. ASSUME WordsFrom(t, i), i <= m
      PROVE  MatchesFrom(f, t, i)
  <2>1. i \in i..m
    BY <1>1, <1>7
  <2>2. t[i] \in Letters
    BY <1>7, <2>1 DEF WordsFrom, m
  <2>3. i + 1 \in (i + 1)..(n + 1) /\ i + 1 \in 1..(n + 1) /\ i + 1 > i
    BY <1>1, <1>7
  <2>4. \A k \in i..((i + 1) - 1) : t[k] \in Letters
    BY <1>1, <2>2
  <2>5. \A k \in (i + 1)..m : t[k] \in Letters \cup {Space} /\ (t[k] = Space => t[k - 1] # Space)
    BY <1>1, <1>7 DEF WordsFrom, m
  <2>6. CASE i + 1 <= m /\ t[i + 1] = Space
    <3>1. ASSUME NEW k \in (i + 2)..m
          PROVE  t[k] \in Letters \cup {Space} /\ (t[k] = Space => k > i + 2 /\ t[k - 1] # Space)
      <4>1. k \in (i + 1)..m
        BY <1>1
      <4>2. k = i + 2 => t[k] # Space
        <5>1. SUFFICES ASSUME k = i + 2, t[k] = Space PROVE FALSE
          OBVIOUS
        <5>2. k - 1 = i + 1
          BY <1>1, <5>1
        <5>3. QED BY <2>5, <2>6, <4>1, <5>1, <5>2
      <4>3. QED BY <1>1, <2>5, <4>1, <4>2
    <3>2. WordsFrom(t, i + 2)
      BY <3>1 DEF WordsFrom, m
    <3>3. i + 2 \in 1..(n + 1) /\ i + 2 > i /\ i + 2 = (i + 1) + 1 /\ i + 1 <= n
      BY <1>1, <2>6
    <3>4. f[(i + 1) + 1]
      BY <3>2, <3>3 DEF n
    <3>5. QED BY <2>3, <2>4, <2>6, <3>3, <3>4 DEF MatchesFrom, n
  <2>7. CASE ~ (i + 1 <= m /\ t[i + 1] = Space)
    <3>1. ASSUME NEW k \in (i + 1)..m
          PROVE  t[k] \in Letters \cup {Space} /\ (t[k] = Space => k > i + 1 /\ t[k - 1] # Space)
      <4>1. k = i + 1 => t[k] # Space
        BY <1>1, <2>7
      <4>2. QED BY <1>1, <2>5, <4>1
    <3>2. WordsFrom(t, i + 1)
      BY <3>1 DEF WordsFrom, m
    <3>3. f[i + 1]
      BY <2>3, <3>2 DEF n
    <3>4. QED BY <2>3, <2>4, <3>3 DEF MatchesFrom, n
  <2>8. QED BY <2>6, <2>7
<1>8. CASE i > m
  <2>1. i = n + 1 \/ (i = n /\ m < n)
    BY <1>1, <1>8
  <2>2. MatchesFrom(f, t, i)
    BY <1>2, <2>1 DEF MatchesFrom, n
  <2>3. QED BY <1>6, <2>2
<1>9. QED BY <1>1, <1>6, <1>7, <1>8

\* The expression accepts a text of words, perhaps with one final newline.
THEOREM MatchesAreWords ==
    ASSUME NEW t \in Texts
    PROVE  Matches(t) <=> WordsFrom(t, 1)
<1> DEFINE D == 1..(Len(t) + 1)
           IsRest(f) == f = [i \in D |->
                \/ i = Len(t) + 1
                \/ i = Len(t) /\ t[i] = Newline
                \/ \E j \in (i + 1)..(Len(t) + 1) :
                     /\ \A k \in i..(j - 1) : t[k] \in Letters
                     /\ f[j] \/ (j <= Len(t) /\ t[j] = Space /\ f[j + 1])]
           rest == CHOOSE f : IsRest(f)
           words == [i \in D |-> WordsFrom(t, i)]
<1>1. Len(t) \in Nat
  BY LastOfText
<1>2. Matches(t) = rest[1]
  BY DEF Matches
<1>3. ASSUME NEW f, NEW i \in D, \A j \in D : j > i => f[j] = words[j]
      PROVE  MatchesFrom(f, t, i) = words[i]
  <2>1. \A j \in D : j > i => (f[j] <=> WordsFrom(t, j))
    BY <1>3
  <2>2. MatchesFrom(f, t, i) <=> WordsFrom(t, i)
    BY <2>1, WordsUnfold
  <2>3. MatchesFrom(f, t, i) \in BOOLEAN /\ WordsFrom(t, i) \in BOOLEAN
    BY DEF MatchesFrom, WordsFrom
  <2>4. QED BY <2>2, <2>3
<1>4. IsRest(words)
  <2>1. \A i \in D : words[i] = MatchesFrom(words, t, i)
    BY <1>3
  <2>2. QED BY <2>1 DEF MatchesFrom
<1>5. IsRest(rest)
  <2> HIDE DEF IsRest
  <2>1. QED BY <1>4
<1>6. ASSUME NEW i \in D PROVE rest[i] = MatchesFrom(rest, t, i)
  <2> HIDE DEF rest
  <2>1. QED BY <1>5, <1>6 DEF MatchesFrom
<1>7. \A i \in D : rest[i] = words[i]
  <2> HIDE DEF rest, words
  <2>1. \A i \in D : (\A j \in D : j > i => rest[j] = words[j]) => rest[i] = words[i]
    BY <1>3, <1>6
  <2> DEFINE n == Len(t) + 1
  <2>2. n \in Nat
    BY <1>1
  <2>3. \A i \in 1..n : (\A j \in 1..n : j > i => rest[j] = words[j]) => rest[i] = words[i]
    BY <2>1
  <2> HIDE DEF n
  <2>4. \A i \in 1..n : rest[i] = words[i]
    BY <2>2, <2>3, BackwardsUnique
  <2>5. QED BY <2>4 DEF n
<1>8. 1 \in D
  BY <1>1
<1> HIDE DEF rest
<1>9. QED BY <1>2, <1>7, <1>8
\* Trimming takes nothing from a text of words but the space and the newline at its end.
LEMMA TrimKeepsWords ==
    ASSUME NEW t \in Texts, Matches(t), ~ Blank(t)
    PROVE  ~ Blank(Trim(t)) /\ Matches(Trim(t))
<1> DEFINE u == Trim(t)
<1>1. Ink(t) # {}
  BY DEF Blank, Ink
<1>2. PICK m \in 1..Len(t), n \in 1..Len(t) : CutFrom(t, m, n)
  BY <1>1, TrimCuts
<1>3. u \in Texts
  BY <1>2 DEF CutFrom
<1>4. /\ Len(t) \in Nat /\ Len(u) = n - m + 1 /\ m <= n
      /\ \A i \in 1..Len(u) : u[i] = t[m + i - 1]
      /\ t[m] \notin White /\ t[n] \notin White
  BY <1>2, LastOfText DEF CutFrom, Ink
<1>5. LastOf(t) \in Nat /\ n <= LastOf(t)
  BY <1>4, LastOfText DEF White
<1>6. Len(u) \in Nat \ {0} /\ DOMAIN u = 1..Len(u) /\ u[1] = t[m] /\ u[Len(u)] = t[n]
  BY <1>3, <1>4 DEF Texts
<1>7. ~ Blank(u)
  BY <1>4, <1>6 DEF Blank
<1>8. LastOf(u) = Len(u)
  BY <1>4, <1>6 DEF LastOf, White
<1>9. WordsFrom(t, 1)
  BY MatchesAreWords
<1> HIDE DEF u
<1>10. ASSUME NEW k \in 1..Len(u)
       PROVE  u[k] \in Letters \cup {Space} /\ (u[k] = Space => k > 1 /\ u[k - 1] # Space)
  <2>1. m + k - 1 \in 1..LastOf(t) /\ u[k] = t[m + k - 1]
    BY <1>4, <1>5
  <2>2. /\ u[k] \in Letters \cup {Space}
        /\ u[k] = Space => t[(m + k - 1) - 1] # Space
    BY <1>9, <2>1 DEF WordsFrom
  <2>3. u[k] = Space => k > 1
    BY <1>4, <1>6 DEF White
  <2>4. k > 1 => k - 1 \in 1..Len(u) /\ u[k - 1] = t[m + (k - 1) - 1]
    BY <1>4
  <2>5. m + (k - 1) - 1 = (m + k - 1) - 1
    OBVIOUS
  <2>6. QED BY <2>2, <2>3, <2>4, <2>5
<1>11. WordsFrom(u, 1)
  BY <1>8, <1>10 DEF WordsFrom
<1>12. QED BY <1>3, <1>7, <1>11, MatchesAreWords DEF u
=============================================================================
