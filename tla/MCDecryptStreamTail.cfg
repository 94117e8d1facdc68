CONSTANTS
    HiMod = 2
    LoMod = 4
    Pass = {"pw", "no"}
    Salt = {"s0", "s1", "s2"}
    Chunk = {"F", "l", "opaque"}
    Full = {"F"}
    Opaque = "opaque"
    Sealed <- MCSealed
    MaxDamage = 1
    MaxFrames = 3
SPECIFICATION FairSpec
INVARIANT FailsLoudly
