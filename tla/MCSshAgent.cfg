CONSTANTS
    s1 = s1
    s2 = s2
    Session <- MCSession
    UserAgent = UserAgent
    AgentOutput = {"both", "sock", "none"}
SYMMETRY Perms
SPECIFICATION Spec
INVARIANTS
    TypeOK
    AgentGoneOnReturn
    UserAgentUnaffected
    SshHasKey
