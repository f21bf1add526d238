SPECIFICATION MCSpec
CONSTANTS
    CodeChars = {"a", "1", " ", ";", "q", "-", ".", "=", "/", "*"}
    MaxLength = 5
    Tokens = {"id", "=", "return", "new", "(", ")", "[", "]", "^", "{", "}", ";", "@"}
    MaxTokens = 7
    Keys = {0, 1, 3, 5}
    Values = {1, 2}
    Capacities = {1, 3}
    MaxChanges = 5
    Items = {1, 2, 3}
    Nodes = {n1, n2, n3, n4}
    Null = Null
    MaxItems = 4
    Letters = {97, 98, 32}
    Signs = {32, 45, 48, 49, 51, 120}
    PathChars = {46, 47, 97}
    MaxText = 5
    MaxOther = 2
    IntBits = 8
    Error = Error
    Forever = Forever
    Units = {0, 65, 127, 128, 2047, 2048, 55295, 55296, 56319, 56320, 57343, 57344, 65535}
    Bytes = {65, 128, 143, 144, 159, 160, 191, 193, 194, 224, 225, 237, 240, 241, 244, 245, 248}
    MaxUnits = 3
    MaxBytes = 4
    MaskChars = {"%", "d", "f", "s", "0", "5", ".", " ", "x"}
    EscapeChars <- Escapable
    MaxMask = 5
    MaxEscape = 4
    MaxBuilt = 8
    ConvSize = 2
    SourceChars = {"{", "}", "'", "4", "a", " "}
    MaxSource = 6
    MaxRenders = 2
    Results <- ResultClasses
    Aborted = Aborted
    MaxFile = 6
    MaxMoves = 4
    MaxWritten = 2
    BufSize = 3
    WordSize = 2
    DefaultCap = 2
    ByteSize = 4
    Utf16BufSize = 4
    Unwritten = Unwritten
    Junk = Junk
    Off = Off
INVARIANTS
    ReadAsWritten
    ContainersAreExact
    TextIsExact
    TemplatesRender
CHECK_DEADLOCK FALSE
