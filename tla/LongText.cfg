SPECIFICATION Spec
CONSTANTS
    MAX_STRING = 3
    Char <- MCChar
    Key <- MCKey
    asciimap <- MCAsciimap
    Texts <- MCTexts
    MaxItems = 4
    MaxKeyPackets = 0
    MaxFaults = 0
INVARIANT AllTyped
CHECK_DEADLOCK FALSE
