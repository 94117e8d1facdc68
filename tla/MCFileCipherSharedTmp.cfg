CONSTANTS
    p1 = p1
    p2 = p2
    f1 = f1
    f2 = f2
    f3 = f3
    f4 = f4
    Absent = Absent
    Dir = Dir
    Nil = Nil
    HiMod = 2
    LoMod = 4
    Pass = {"pw", "no"}
    Salt = {"s0", "s1", "s2"}
    Chunk = {"F", "G", "l", "opaque"}
    Full = {"F", "G"}
    Opaque = "opaque"
    Proc <- MCProc
    File <- MCFile
    UserPath <- MCUserPathShared
    EditPath <- MCEditPath
    EditText <- MCEditText
    MaxEdits = 0
    Rng <- MCRng
    Scenario <- MCScenarioShared
SPECIFICATION Spec
INVARIANT OutputIntact
