------------------------------- MODULE Addresses -------------------------------
(***************************************************************************)
(* The value objects Email and UserName with their rules.  A registration  *)
(* builds both of one text.                                                *)
(***************************************************************************)
EXTENDS Names

CONSTANTS
    Word,     \* \w: letters, digits and the underscore, of any script ...
    Ascii,    \* ... and those of them that are ASCII
    Symbols,  \* what else an address may contain, such as "+"
    At,
    Dot,
    Hyphen

Punctuation == {At, Dot, Hyphen}

\* The alphabet has nothing else: quotes, comments and the angle brackets of display
\* names are not typed.
ASSUME AddressesAssumption ==
    /\ Chars = Word \cup Symbols \cup Punctuation \cup White
    /\ Ascii \subseteq Word
    /\ Word \cap (Symbols \cup Punctuation \cup White) = {}
    /\ Symbols \cap (Punctuation \cup White) = {}
    /\ Punctuation \cap White = {}
    /\ At # Dot /\ At # Hyphen /\ Dot # Hyphen

Positions(t, c) == {i \in DOMAIN t : t[i] = c}

\* System.Net.Mail.MailAddress parses t, and its Address is t and not a part of t
\* beside a display name.  It takes dots anywhere but in front.  What it normalizes
\* of other scripts' hosts is outside the alphabet.
IsMailAddress(t) ==
    /\ \A i \in DOMAIN t : t[i] \notin White
    /\ \E at \in 2..(Len(t) - 1) :
         /\ Positions(t, At) = {at}
         /\ Dot \notin {t[1], t[at + 1]}

\* Variant: any domain with a dot will do.
EmailIsBrokenWithoutDot(t) ==
    \/ ~ IsMailAddress(t)
    \/ \A d \in Positions(t, Dot) : d < Max(Positions(t, At))

\* EmailMustBeValidRule: MailAddress, a dot in the domain, two characters behind it.
EmailIsBroken(t) ==
    \/ ~ IsMailAddress(t)
    \/ LET dots == {d \in Positions(t, Dot) : d > Max(Positions(t, At))}
       IN dots = {} \/ Len(t) - Max(dots) < 2

\* ^[\w-\.]+@([\w-]+\.)+[\w-]{2,4}$ of a trimmed text.
MatchesUserName(t) ==
    LET Part(i, j) == i < j /\ \A k \in i..(j - 1) : t[k] \in Word \cup {Hyphen}
        rest[i \in 1..(Len(t) + 1)] ==
          \E j \in Positions(t, Dot) :
            /\ Part(i, j)
            /\ \/ rest[j + 1]
               \/ Len(t) - j \in 2..4 /\ Part(j + 1, Len(t) + 1)
    IN \E at \in Positions(t, At) \ {1} :
         /\ \A k \in 1..(at - 1) : t[k] \in Word \cup {Hyphen, Dot}
         /\ rest[at + 1]

UserNameIsBroken(t) == Blank(t) \/ Len(t) < 3 \/ ~ MatchesUserName(t)

\* The constructors trim, check, and keep what they trimmed.
IsEmail(t) == ~ EmailIsBroken(Trim(t))
IsUserName(t) == ~ UserNameIsBroken(Trim(t))
=============================================================================
