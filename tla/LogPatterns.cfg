CONSTANTS
    Letters = {"m", "d"}
    Alphabet = {"%", "{", "}", "m", "d", "-"}
    MaxLength = 7
SPECIFICATION FormatterSpec
INVARIANTS ReadsBack Composes
CHECK_DEADLOCK FALSE
