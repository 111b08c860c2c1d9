------------------------------ MODULE MCUserNames ------------------------------
(***************************************************************************)
(* Four texts: a name in two cases, another one with white space around    *)
(* it, and one that breaks the rule once it is trimmed.                    *)
(***************************************************************************)
EXTENDS UserNames

MCSpace == "space"
MCNewline == "newline"
MCChars == {"a", "A", "b", "space", "newline"}
MCLetters == {"a", "A", "b"}
MCUpper == [c \in Chars |-> IF c = "a" THEN "A" ELSE c]
MCInputs ==
    {<<"a", "a", "a">>, <<"A", "a", "a">>, <<"space", "b", "b", "b", "newline">>, <<"b", "b", "space">>}
=============================================================================
