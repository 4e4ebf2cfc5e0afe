SPECIFICATION Spec
CONSTANTS
    MAX_STRING = 3
    Char <- MCChar
    Key <- MCKey
    asciimap <- MCAsciimap
    Texts <- MCTexts
    MaxItems = 4
    MaxKeyPackets = 1
    MaxFaults = 2
INVARIANTS TypeOK TypedInOrder TypedFaithfully PressesOnClear KeysReleased AllButCutTyped
CHECK_DEADLOCK FALSE
