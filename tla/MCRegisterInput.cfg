SPECIFICATION Spec
CONSTANTS
    Chars <- MCChars
    Letters <- MCLetters
    Space <- MCSpace
    Newline <- MCNewline
    Upper <- MCUpper
    Word <- MCWord
    Ascii <- MCAscii
    Symbols <- MCSymbols
    Plus <- MCPlus
    At <- MCAt
    Dot <- MCDot
    Hyphen <- MCHyphen
    MaxLen <- MCMaxLen
    MaxOf <- MCMaxOf
    Upper26 <- MCUpper26
    Lower26 <- MCLower26
    AsciiDigits <- MCAsciiDigits
    Digits <- MCDigits
CHECK_DEADLOCK FALSE
INVARIANTS
    MatchesWords
    ValidatorGap
    RulesDisagree
    IdentityGap
