CONSTANTS
    r1 = r1
    r2 = r2
    r3 = r3
    r4 = r4
    r5 = r5
    None = None
    NoKey = NoKey
    Run <- MCTupleRun
    Base = {"k", "j"}
    Key <- MCKey
    Scenario <- MCScenarioTuple
    Piece <- MCPiece
    Version <- MCVersion
    be32 <- MCbe32
    decimal <- MCdecimal
    Char = {"p", "q", "lf", "cr"}
    EndOfLine = {"lf", "cr"}
    Document = {"first", "second"}
    MaxEdits = 0
SPECIFICATION CSpec
INVARIANTS
    TupleAsDocumented
