CONSTANTS
    r1 = r1
    r2 = r2
    r3 = r3
    r4 = r4
    r5 = r5
    None = None
    NoKey = NoKey
    Run <- MCRun
    Base = {"k", "j"}
    Key <- MCKey
    Scenario <- MCScenario
    Piece <- MCPiece
    Version <- MCVersion
    be32 <- MCbe32
    decimal <- MCdecimal
    Char = {"p", "q", "lf", "cr"}
    EndOfLine = {"lf", "cr"}
    Document = {"first", "second"}
    MaxEdits = 1
SPECIFICATION CSpec
INVARIANTS
    CTypeOK
    SetBelongsTogether
    OldKeysSurvive
    RefusalIsClean
    PassphraseAsDocumented
    KeyTellsTuple
    VerifiedMeansSigned
