---------------------------- MODULE MCRegisterInput ----------------------------
(***************************************************************************)
(* Small alphabets: "n" and "t" are an accented letter and a digit of      *)
(* another script.  Names: a letter in both cases, a space, a newline, a   *)
(* digit.  Addresses: many letters, few of everything else.  Passwords: a  *)
(* character of each class.                                                *)
(***************************************************************************)
EXTENDS RegisterInput

MCSpace == "space"
MCNewline == "newline"
MCAt == "@"
MCDot == "."
MCHyphen == "-"
MCSymbols == {"+"}
MCPlus == "+"
MCLetters == {"a", "A", "n"}
MCAscii == {"a", "A", "1"}
MCWord == MCAscii \cup {"n", "t"}
MCChars == MCWord \cup {"space", "newline", "@", ".", "-", "+"}
MCUpper == [c \in Chars |-> IF c = "a" THEN "A" ELSE c]

MCMaxLen == [name |-> 6, email |-> 9, password |-> 7]
MCMaxOf ==
    [name |-> [c \in MCChars |->
                 IF c \in {"a", "A", "space", "newline", "1"} THEN 6 ELSE 0],
     email |-> [c \in MCChars |->
                 CASE c = "a" -> 9
                   [] c = "." -> 3
                   [] c = "@" -> 2
                   [] c \in {"n", "-", "+", "space"} -> 1
                   [] OTHER -> 0],
     password |-> [c \in MCChars |->
                 IF c \in {"A", "a", "1", "t", "-"} THEN 7 ELSE 0]]
MCUpper26 == {"A"}
MCLower26 == {"a"}
MCAsciiDigits == {"1"}
MCDigits == {"1", "t"}
=============================================================================
