----------------------------- MODULE RegisterInput -----------------------------
(***************************************************************************)
(* What a client may type into the fields of a registration, and what the  *)
(* gates of the pipeline make of it, one after the other: the validator,   *)
(* the value objects that the handler builds, and Identity's validators.   *)
(* Flaw is the first gate the text does not pass, the `flaw` of Register.  *)
(***************************************************************************)
EXTENDS Addresses

CONSTANTS
    MaxLen,       \* bound on the length of the text of each field ...
    MaxOf,        \* ... and on how often each character is typed into it
    Upper26,      \* [A-Z]
    Lower26,      \* [a-z]
    AsciiDigits,  \* [0-9]
    Digits,       \* \d, the decimal digits of any script
    Plus          \* "+", the only symbol that Identity allows in a user name

Fields == {"name", "email", "password"}

ASSUME RegisterInputAssumption ==
    /\ MaxLen \in [Fields -> Nat]
    /\ MaxOf \in [Fields -> [Chars -> Nat]]
    /\ AsciiDigits \subseteq Digits
    /\ Upper26 \cup Lower26 \cup Digits \subseteq Chars
    /\ Plus \in Symbols

VARIABLES field, text

Init == field \in Fields /\ text = <<>>

Next ==
    /\ Len(text) < MaxLen[field]
    /\ \E c \in Chars :
         /\ Cardinality(Positions(text, c)) < MaxOf[field][c]
         /\ text' = Append(text, c)
    /\ UNCHANGED field

Spec == Init /\ [][Next]_<<field, text>>

-----------------------------------------------------------------------------
(***************************************************************************)
(* RegisterUserCommandValidator, on the text as it came.                   *)
(***************************************************************************)
\* Variant: the validator only wants a name that is not empty.
IsNotEmpty(t) == ~ Blank(t)

\* NotEmpty and BeAValidName.
BeAValidName(t) == ~ Blank(t) /\ ~ NameIsBroken(t)

\* NotEmpty and EmailAddress: one @, and not at either end.
EmailAddress(t) == \E at \in 2..(Len(t) - 1) : Positions(t, At) = {at} /\ ~ Blank(t)

Has(t, chars) == \E i \in DOMAIN t : t[i] \in chars

\* Variant: the rule for digits is missing.
PasswordMatchesNoDigit(t) ==
    /\ Len(t) >= 6
    /\ Has(t, Upper26) /\ Has(t, Lower26) /\ Has(t, Chars \ (Upper26 \cup Lower26 \cup Digits))

\* MinimumLength(6) and four expressions.
PasswordMatches(t) ==
    /\ Len(t) >= 6
    /\ Has(t, Upper26) /\ Has(t, Lower26) /\ Has(t, Digits)
    /\ Has(t, Chars \ (Upper26 \cup Lower26 \cup Digits))

PassesValidator ==
    CASE field = "name" -> BeAValidName(text)
      [] field = "email" -> EmailAddress(text)
      [] field = "password" -> PasswordMatches(text)

(***************************************************************************)
(* The handler's value objects, and the defaults of IdentityOptions.       *)
(***************************************************************************)
PassesRules ==
    CASE field = "name" -> IsName(text)
      [] field = "email" -> IsEmail(text) /\ IsUserName(text)
      [] field = "password" -> TRUE

\* AllowedUserNameCharacters and PasswordOptions know ASCII only.
PassesIdentity ==
    CASE field = "name" -> TRUE
      [] field = "email" ->
           \A i \in DOMAIN Trim(text) : Trim(text)[i] \in Ascii \cup {Plus} \cup Punctuation
      [] field = "password" ->
           /\ Len(text) >= 6
           /\ Has(text, Upper26) /\ Has(text, Lower26) /\ Has(text, AsciiDigits)
           /\ Has(text, Chars \ (Upper26 \cup Lower26 \cup AsciiDigits))

Flaw ==
    IF ~ PassesValidator THEN "validator"
    ELSE IF ~ PassesRules THEN "rule"
    ELSE IF ~ PassesIdentity THEN "identity" ELSE "none"

\* NameConverter builds a Name from the value it reads.
ReadsBack(value) == IsName(value) /\ Trim(value) = value

-----------------------------------------------------------------------------
\* The regular expression of NameMustBeValidRule is what a reader takes it for:
\* words of letters, one space between two of them and perhaps one at the end -
\* and, before everything else, perhaps one newline at the very end.
MatchesWords ==
    LET body == IF text # <<>> /\ text[Len(text)] = Newline
                  THEN SubSeq(text, 1, Len(text) - 1) ELSE text
    IN Matches(text) <=>
         /\ \A i \in DOMAIN body : body[i] \in Letters \cup {Space}
         /\ \A i \in DOMAIN body : body[i] = Space => i > 1 /\ body[i - 1] # Space

\* A name that passes the validator and breaks the value object's rule, and so
\* ends a registration with 500, is one that is only long enough with the white
\* space that Name trims: there is no other gap between the two.
ValidatorGap ==
    field = "name" /\ Flaw = "rule" => Len(text) >= 3 /\ Len(Trim(text)) < 3

\* Email and UserName are two rules about one text, and they disagree: a user name
\* that is no e-mail starts with a dot; an e-mail that is no user name contains
\* some other symbol, an empty part in its domain, or a last part of more than four
\* characters.  Each of these passes the validator and ends a registration with 500.
RulesDisagree ==
    field = "email" /\ IsEmail(text) # IsUserName(text) =>
        LET t == Trim(text)
            at == Max(Positions(t, At))
            dots == {d \in Positions(t, Dot) : d > at}
        IN /\ Flaw = "rule"
           /\ IsUserName(text) => t[1] = Dot
           /\ IsEmail(text) =>
                \/ Has(t, Symbols)
                \/ \E d \in dots : d + 1 \in dots
                \/ Len(t) - Max(dots) > 4

\* What no gate of the repository stops, and Identity then refuses with 400, has a
\* letter or its only digits from outside ASCII: otherwise every text that comes as
\* far as CreateAsync is one that Identity takes.
IdentityGap ==
    Flaw = "identity" <=>
        /\ PassesValidator /\ PassesRules
        /\ \/ field = "email" /\ Has(text, Word \ Ascii)
           \/ field = "password" /\ Has(text, Digits) /\ ~ Has(text, AsciiDigits)
=============================================================================
